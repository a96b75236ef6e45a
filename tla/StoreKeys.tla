----------------------------- MODULE StoreKeys -----------------------------
(***************************************************************************)
(* Store credentials (src/src/storelink.py): FileStoreKeyProvider, which   *)
(* caches the mounted secrets file and re-reads it when its stamp changes, *)
(* and _store_call, which presents a key to StoreLink and, when it is      *)
(* rejected, reloads the file and retries once.  Korral IT rewrites the    *)
(* file and rotates keys at any moment; requests run on several threads.   *)
(*                                                                         *)
(* A load has three steps, because IT may write between them: stat, read,  *)
(* install.  An operator that no step of Next uses, placed before the      *)
(* action it resembles, is a plausible slip in that action.                *)
(***************************************************************************)
EXTENDS Integers

CONSTANTS
    Calls,      \* store-scoped calls in progress at once
    Stores,     \* the stores they are for
    Keys,       \* store keys
    None,       \* no key, no stamp, no caller
    MaxWrites   \* bound: times the secrets file is written

ASSUME KeysAssumption ==
    /\ None \notin Keys \cup Calls \cup Nat \cup {"ok", "missing", "expired"}
    /\ MaxWrites \in Nat \ {0}

VARIABLES
    file,      \* the secrets file: version, well-formed or not, keys, stamp
    cached,    \* _keys and _stamp of the provider, and the version they are of
    lock,      \* the provider's lock: the call holding it, or None
    accepted,  \* what StoreLink accepts per store, None before the first call
    call,      \* what each call is doing
    had        \* history: every well-formed file so far had a key for the store

vars == <<file, cached, lock, accepted, call, had>>

KeyMap == [Stores -> Keys \cup {None}]

IdleCall(s) == [pc |-> "idle", store |-> s, phase |-> 0, stamp |-> None, ver |-> 0,
                keys |-> [t \in Stores |-> None], key |-> None,
                fresh |-> FALSE, result |-> None]

\* The constructor loads strictly, so a process runs only if the file was
\* well formed then.
Init ==
    \E keys \in KeyMap :
        /\ file = [ver |-> 1, good |-> TRUE, keys |-> keys, stamp |-> 1]
        /\ cached = [ver |-> 1, keys |-> keys, stamp |-> 1]
        /\ lock = None
        /\ accepted = [s \in Stores |-> None]
        /\ call \in [Calls -> {IdleCall(s) : s \in Stores}]
        /\ had = [s \in Stores |-> keys[s] # None]

----------------------------------------------------------------------------
(* get_key and refresh.  phase 1 is the first get_key of a call, phase 2    *)
(* the refresh after a rejection, phase 3 the second get_key.               *)

Start(c, s) ==
    /\ call[c].pc = "idle"
    /\ call' = [call EXCEPT ![c] = [IdleCall(s) EXCEPT !.pc = "lookup", !.phase = 1]]
    /\ UNCHANGED <<file, cached, lock, accepted, had>>

LeavesUnchecked(c, keys) ==
    /\ lock' = None
    /\ LET done == [call[c] EXCEPT !.stamp = None, !.ver = 0, !.keys = [t \in Stores |-> None]]
       IN  call' = [call EXCEPT ![c] =
               IF call[c].phase = 2 THEN [done EXCEPT !.pc = "lookup", !.phase = 3]
               ELSE [done EXCEPT !.pc = "present", !.key = keys[call[c].store]]]

\* The lock is left with these keys in the cache: refresh is followed by
\* get_key; get_key returns the key of its store or raises MissingStoreKey.
Leaves(c, keys) ==
    /\ lock' = None
    /\ LET done == [call[c] EXCEPT !.stamp = None, !.ver = 0, !.keys = [t \in Stores |-> None]]
           key  == keys[call[c].store]
       IN  call' = [call EXCEPT ![c] =
               IF call[c].phase = 2 THEN [done EXCEPT !.pc = "lookup", !.phase = 3]
               ELSE IF key = None THEN [done EXCEPT !.pc = "idle", !.result = "missing"]
               ELSE [done EXCEPT !.pc = "present", !.key = key]]

\* _maybe_reload finds the stamp it knows.
LookupHit(c) ==
    /\ call[c].pc = "lookup" /\ lock = None
    /\ file.stamp = cached.stamp
    /\ Leaves(c, cached.keys)
    /\ UNCHANGED <<file, cached, accepted, had>>

\* Another stamp, or no file: _load.
LookupMiss(c) ==
    /\ call[c].pc = "lookup" /\ lock = None
    /\ file.stamp # cached.stamp
    /\ lock' = c
    /\ call' = [call EXCEPT ![c].pc = "stat"]
    /\ UNCHANGED <<file, cached, accepted, had>>

RefreshUnlocked(c) ==
    /\ call[c].pc = "refresh"
    /\ lock' = c
    /\ call' = [call EXCEPT ![c].pc = "stat"]
    /\ UNCHANGED <<file, cached, accepted, had>>

RefreshIfChanged(c) ==
    /\ call[c].pc = "refresh" /\ lock = None
    /\ IF file.stamp = cached.stamp
       THEN Leaves(c, cached.keys)
       ELSE lock' = c /\ call' = [call EXCEPT ![c].pc = "stat"]
    /\ UNCHANGED <<file, cached, accepted, had>>

\* refresh: _load whatever the stamp.
Refresh(c) ==
    /\ call[c].pc = "refresh" /\ lock = None
    /\ lock' = c
    /\ call' = [call EXCEPT ![c].pc = "stat"]
    /\ UNCHANGED <<file, cached, accepted, had>>

\* os.stat of _load.
Stat(c) ==
    /\ call[c].pc = "stat" /\ file.stamp # None
    /\ call' = [call EXCEPT ![c].pc = "read", ![c].stamp = file.stamp]
    /\ UNCHANGED <<file, cached, lock, accepted, had>>

\* json.load and its shape check.
Read(c) ==
    /\ call[c].pc = "read" /\ file.good
    /\ call' = [call EXCEPT ![c].pc = "install", ![c].ver = file.ver, ![c].keys = file.keys]
    /\ UNCHANGED <<file, cached, lock, accepted, had>>

LoadFailsEmpty(c) ==
    /\ \/ call[c].pc = "stat" /\ file.stamp = None
       \/ call[c].pc = "read" /\ ~file.good
    /\ cached' = [cached EXCEPT !.keys = [t \in Stores |-> None]]
    /\ Leaves(c, cached'.keys)
    /\ UNCHANGED <<file, accepted, had>>

LoadFailsLocked(c) ==
    /\ \/ call[c].pc = "stat" /\ file.stamp = None
       \/ call[c].pc = "read" /\ ~file.good
    /\ call' = [call EXCEPT ![c].pc = "idle", ![c].result = "missing"]
    /\ UNCHANGED <<file, cached, lock, accepted, had>>

\* No file, or a malformed one: the last good keys and their stamp stay.
LoadFails(c) ==
    /\ \/ call[c].pc = "stat" /\ file.stamp = None
       \/ call[c].pc = "read" /\ ~file.good
    /\ Leaves(c, cached.keys)
    /\ UNCHANGED <<file, cached, accepted, had>>

InstallRestamped(c) ==
    /\ call[c].pc = "install"
    /\ cached' = [ver |-> call[c].ver, keys |-> call[c].keys, stamp |-> file.stamp]
    /\ Leaves(c, call[c].keys)
    /\ UNCHANGED <<file, accepted, had>>

\* The stamp installed is the one taken before the read.
Install(c) ==
    /\ call[c].pc = "install"
    /\ cached' = [ver |-> call[c].ver, keys |-> call[c].keys, stamp |-> call[c].stamp]
    /\ Leaves(c, call[c].keys)
    /\ UNCHANGED <<file, accepted, had>>

----------------------------------------------------------------------------
(* _store_call. *)

\* _key_accepted: the first key presented for a store is the one accepted.
Accepts(c) == accepted[call[c].store] \in {None, call[c].key}

\* The key is accepted and request() runs.
Present(c) ==
    /\ call[c].pc = "present"
    /\ Accepts(c)
    /\ accepted' = [accepted EXCEPT ![call[c].store] = call[c].key]
    /\ call' = [call EXCEPT ![c].pc = "idle", ![c].key = None, ![c].result = "ok"]
    /\ UNCHANGED <<file, cached, lock, had>>

\* IT has delivered the key StoreLink accepts.
HoldsAccepted(s) == file.good /\ file.stamp # None /\ file.keys[s] = accepted[s]

\* The first rejection: reload the secrets and try again.
Retry(c) ==
    /\ call[c].pc = "present" /\ call[c].phase = 1
    /\ ~Accepts(c)
    /\ call' = [call EXCEPT ![c].pc = "refresh", ![c].phase = 2, ![c].key = None,
                            ![c].fresh = HoldsAccepted(call[c].store)]
    /\ UNCHANGED <<file, cached, lock, accepted, had>>

\* The second: KeyExpired.
Expire(c) ==
    /\ call[c].pc = "present" /\ call[c].phase = 3
    /\ ~Accepts(c)
    /\ call' = [call EXCEPT ![c].pc = "idle", ![c].key = None, ![c].result = "expired"]
    /\ UNCHANGED <<file, cached, lock, accepted, had>>

----------------------------------------------------------------------------
(* Korral IT. *)

\* History: a call that waits for its reload stays "fresh" only while the file
\* holds the accepted key.
NoteFreshness ==
    LET holding == {s \in Stores : HoldsAccepted(s)'}
    IN  call' = [c \in Calls |-> [call[c] EXCEPT !.fresh = @ /\ call[c].store \in holding]]

\* The file is overwritten, maybe under the stamp it already has (an overwrite
\* in the same second, cached attributes) ...
Overwrite(keys, stamp) ==
    /\ file.ver < MaxWrites
    /\ file' = [ver |-> file.ver + 1, good |-> TRUE, keys |-> keys, stamp |-> stamp]
    /\ had' = [s \in Stores |-> had[s] /\ keys[s] # None]
    /\ UNCHANGED <<cached, lock, accepted>>
    /\ NoteFreshness

\* ... or with something no reader can parse: a mistake, or a write half done.
Garble(stamp) ==
    /\ file.ver < MaxWrites
    /\ file' = [file EXCEPT !.ver = @ + 1, !.good = FALSE, !.stamp = stamp]
    /\ UNCHANGED <<cached, lock, accepted, had>>
    /\ NoteFreshness

Remove ==
    /\ file.stamp # None
    /\ file' = [file EXCEPT !.good = FALSE, !.stamp = None]
    /\ UNCHANGED <<cached, lock, accepted, had>>
    /\ NoteFreshness

\* rotate_key: StoreLink accepts another key from now on.
RotateKey(s, k) ==
    /\ accepted[s] # k
    /\ accepted' = [accepted EXCEPT ![s] = k]
    /\ UNCHANGED <<file, cached, lock, had>>
    /\ NoteFreshness

CallStep(c) ==
    \/ LookupHit(c) \/ LookupMiss(c) \/ Refresh(c)
    \/ Stat(c) \/ Read(c) \/ LoadFails(c) \/ Install(c)
    \/ Present(c) \/ Retry(c) \/ Expire(c)

Stamps == {file.ver + 1} \cup ({file.stamp} \ {None})

Next ==
    \/ \E c \in Calls : (\E s \in Stores : Start(c, s)) \/ CallStep(c)
    \/ \E stamp \in Stamps : Garble(stamp) \/ \E keys \in KeyMap : Overwrite(keys, stamp)
    \/ Remove
    \/ \E s \in Stores, k \in Keys : RotateKey(s, k)

Spec == Init /\ [][Next]_vars

\* A started call keeps running, and a thread that waits for the lock gets it
\* in the end although others may take it before.  IT owes nothing.
FairSpec ==
    /\ Spec
    /\ \A c \in Calls : WF_vars(CallStep(c)) /\ SF_vars(LookupHit(c) \/ LookupMiss(c) \/ Refresh(c))

----------------------------------------------------------------------------
(* Properties. *)

File   == [ver : Nat, good : BOOLEAN, keys : KeyMap, stamp : Nat \cup {None}]
Cached == [ver : Nat, keys : KeyMap, stamp : Nat]
Call   == [pc : {"idle", "lookup", "refresh", "stat", "read", "install", "present"},
           store : Stores, phase : 0..3, stamp : Nat \cup {None}, ver : Nat,
           keys : KeyMap, key : Keys \cup {None}, fresh : BOOLEAN,
           result : {None, "ok", "missing", "expired"}]

\* Every variable stays in the shape the code gives it; in particular a key
\* that is presented is never None.
TypeOK ==
    /\ file \in File
    /\ cached \in Cached
    /\ lock \in Calls \cup {None}
    /\ accepted \in [Stores -> Keys \cup {None}]
    /\ call \in [Calls -> Call]
    /\ \A c \in Calls : call[c].pc = "present" <=> call[c].key # None
    /\ had \in [Stores -> BOOLEAN]

\* A reload never replaces newer keys by older ones, however two requests'
\* loads interleave (the provider's lock around stat, read and install).
CacheNeverGoesBack == [][cached'.ver >= cached.ver]_vars

\* A stamp the cache knows is not an excuse to serve old keys: unless IT
\* overwrote the file under its old stamp, equal stamps mean equal keys (the
\* stat is taken before the read, storelink.py:129).
StampTellsTruth ==
    file.good /\ file.stamp = file.ver /\ cached.stamp = file.stamp
        => cached.keys = file.keys

\* "the key has expired and this week's rotation has not reached this server
\* yet" (storelink.py:321): a call fails as expired only if, at some moment
\* since its first rejection, the file did not hold the accepted key.  This is
\* why refresh reads the file whatever its stamp.
ExpiredIsHonest ==
    \A c \in Calls : call[c].result = "expired" => ~call[c].fresh

\* A malformed overwrite takes no store down (storelink.py:113): a call
\* fails for a missing key only if some well-formed file had none for the store.
MissingIsHonest ==
    \A c \in Calls : call[c].result = "missing" => ~had[call[c].store]

\* Every call ends, whatever IT does to the file and however often it rotates:
\* the retry happens once and no failed load keeps the lock.
CallsEnd == \A c \in Calls : call[c].pc # "idle" ~> call[c].pc = "idle"
=============================================================================
