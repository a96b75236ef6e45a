-------------------------- MODULE StoreKeysProofs --------------------------
(***************************************************************************)
(* For any number of calls, stores, keys and writes of the secrets file:   *)
(* the cache never goes back, a known stamp is no excuse for old keys, and *)
(* a call fails only for a reason outside the process.                     *)
(***************************************************************************)
EXTENDS StoreKeys, TLAPS

USE KeysAssumption

----------------------------------------------------------------------------
(* The inductive invariant. *)

Loading == {"stat", "read", "install"}

\* Whoever is between stat and install holds the provider's lock, and nobody
\* else does.
LoaderHoldsLock == \A c \in Calls : call[c].pc \in Loading <=> lock = c

\* Where a call is in its (at most two) attempts.
PhaseKnown ==
    \A c \in Calls :
        /\ call[c].pc # "idle" => call[c].result = None /\ call[c].phase \in 1..3
        /\ call[c].pc = "refresh" => call[c].phase = 2
        /\ call[c].pc \in {"lookup", "present"} => call[c].phase # 2

\* A copy of the secrets: its stamp is no newer than the version it was read
\* from, and it is what the file holds if the file has not changed since.
IsCopy(x) ==
    /\ x.stamp \in Nat /\ x.stamp <= x.ver /\ x.ver <= file.ver
    /\ x.ver = file.ver /\ file.good => x.keys = file.keys
    /\ \A s \in Stores : had[s] => x.keys[s] # None

FileKnown ==
    /\ file.stamp = None => ~file.good
    /\ file.stamp # None => file.stamp <= file.ver
    /\ file.good => \A s \in Stores : had[s] => file.keys[s] # None

\* The cache is a copy, and so is what a load is about to install: one that is
\* no older.
CopiesKnown ==
    /\ IsCopy(cached)
    /\ \A c \in Calls :
          /\ call[c].pc = "read" => call[c].stamp \in Nat /\ call[c].stamp <= file.ver
          /\ call[c].pc = "install" => IsCopy(call[c]) /\ cached.ver <= call[c].ver

\* As long as the file holds the accepted key since the first rejection, so
\* does what this call reads and, once it has refreshed, the cache, what
\* anybody else is about to install, and the key it presents.
FreshKnown ==
    \A c \in Calls : call[c].fresh =>
        LET s == call[c].store
        IN  /\ accepted[s] # None /\ HoldsAccepted(s)
            /\ call[c].phase = 3 => cached.keys[s] = accepted[s]
            /\ call[c].phase = 3 /\ call[c].pc = "present" => call[c].key = accepted[s]
            /\ \A d \in Calls :
                  call[d].pc = "install" /\ (d = c \/ call[c].phase = 3)
                      => call[d].keys[s] = accepted[s]

KeysInv ==
    /\ TypeOK
    /\ LoaderHoldsLock /\ PhaseKnown
    /\ FileKnown /\ CopiesKnown
    /\ FreshKnown
    /\ MissingIsHonest /\ ExpiredIsHonest

----------------------------------------------------------------------------
(* The shapes of a step. *)

\* A lookup, a failed load or an install gives the lock back and sends its
\* call on with the key of its store, if these keys have one.
LEMMA LeavesShape ==
    ASSUME call \in [Calls -> Call], NEW c \in Calls, call[c].key = None,
           NEW keys \in KeyMap, Leaves(c, keys)
    PROVE  /\ lock' = None
           /\ call' \in [Calls -> Call]
           /\ \A d \in Calls \ {c} : call'[d] = call[d]
           /\ call'[c].store = call[c].store /\ (call'[c].fresh <=> call[c].fresh)
           /\ \/ /\ call[c].phase = 2 /\ call'[c].pc = "lookup" /\ call'[c].phase = 3
                 /\ call'[c].key = None /\ call'[c].result = call[c].result
              \/ /\ call[c].phase # 2 /\ call'[c].phase = call[c].phase
                 /\ \/ /\ call'[c].pc = "idle" /\ call'[c].result = "missing"
                       /\ call'[c].key = None /\ keys[call[c].store] = None
                    \/ /\ call'[c].pc = "present" /\ call'[c].result = call[c].result
                       /\ call'[c].key = keys[call[c].store] /\ call'[c].key # None
<1> DEFINE done == [call[c] EXCEPT !.stamp = None, !.ver = 0, !.keys = [t \in Stores |-> None]]
<1>1. call[c] \in Call /\ keys[call[c].store] \in Keys \cup {None}
  BY DEF Call, KeyMap
<1>2. [t \in Stores |-> None] \in KeyMap
  BY DEF KeyMap
<1>3. done \in Call /\ done.pc = call[c].pc /\ done.store = call[c].store /\ done.phase = call[c].phase
      /\ done.key = None /\ (done.fresh <=> call[c].fresh) /\ done.result = call[c].result
  BY <1>1, <1>2 DEF Call
<1> HIDE DEF done
<1>4. CASE call[c].phase = 2
  <2> DEFINE e == [done EXCEPT !.pc = "lookup", !.phase = 3]
  <2>1. call' = [call EXCEPT ![c] = e] /\ lock' = None
    BY <1>4 DEF Leaves, done
  <2>2. e \in Call
    <3>1. [done EXCEPT !.pc = "lookup"] \in Call
      BY <1>3 DEF Call
    <3> QED
      BY <3>1, 3 \in 0..3 DEF Call
  <2>3. /\ e.pc = "lookup" /\ e.phase = 3 /\ e.store = done.store
        /\ (e.fresh <=> done.fresh) /\ e.key = done.key /\ e.result = done.result
    BY <1>3 DEF Call
  <2> HIDE DEF e
  <2> QED
    BY <1>3, <1>4, <2>1, <2>2, <2>3
<1>5. CASE call[c].phase # 2 /\ keys[call[c].store] = None
  <2> DEFINE e == [done EXCEPT !.pc = "idle", !.result = "missing"]
  <2>1. call' = [call EXCEPT ![c] = e] /\ lock' = None
    BY <1>5 DEF Leaves, done
  <2>2. /\ e \in Call /\ e.pc = "idle" /\ e.phase = done.phase /\ e.store = done.store
        /\ (e.fresh <=> done.fresh) /\ e.key = done.key /\ e.result = "missing"
    BY <1>3 DEF Call
  <2> HIDE DEF e
  <2> QED
    BY <1>3, <1>5, <2>1, <2>2
<1>6. CASE call[c].phase # 2 /\ keys[call[c].store] # None
  <2> DEFINE e == [done EXCEPT !.pc = "present", !.key = keys[call[c].store]]
  <2>1. call' = [call EXCEPT ![c] = e] /\ lock' = None
    BY <1>6 DEF Leaves, done
  <2>2. /\ e \in Call /\ e.pc = "present" /\ e.phase = done.phase /\ e.store = done.store
        /\ (e.fresh <=> done.fresh) /\ e.key = keys[call[c].store] /\ e.result = done.result
    BY <1>1, <1>3 DEF Call
  <2> HIDE DEF e
  <2> QED
    BY <1>3, <1>6, <2>1, <2>2
<1> QED
  BY <1>4, <1>5, <1>6

\* What IT does changes nothing of a call but its history.
LEMMA FreshShape ==
    ASSUME call \in [Calls -> Call], NoteFreshness
    PROVE  /\ call' \in [Calls -> Call]
           /\ \A c \in Calls :
                 /\ call'[c].pc = call[c].pc /\ call'[c].store = call[c].store
                 /\ call'[c].phase = call[c].phase /\ call'[c].stamp = call[c].stamp
                 /\ call'[c].ver = call[c].ver /\ call'[c].keys = call[c].keys
                 /\ call'[c].key = call[c].key /\ call'[c].result = call[c].result
                 /\ call'[c].fresh <=> call[c].fresh /\ HoldsAccepted(call[c].store)'
<1> DEFINE holding == {s \in Stores : HoldsAccepted(s)'}
           e(c) == [call[c] EXCEPT !.fresh = @ /\ call[c].store \in holding]
<1>1. call' = [c \in Calls |-> e(c)]
  BY DEF NoteFreshness
<1>2. ASSUME NEW c \in Calls
      PROVE  /\ e(c) \in Call
             /\ e(c).pc = call[c].pc /\ e(c).store = call[c].store /\ e(c).phase = call[c].phase
             /\ e(c).stamp = call[c].stamp /\ e(c).ver = call[c].ver /\ e(c).keys = call[c].keys
             /\ e(c).key = call[c].key /\ e(c).result = call[c].result
             /\ e(c).fresh <=> call[c].fresh /\ call[c].store \in holding
  <2> HIDE DEF holding
  <2>1. (call[c].fresh /\ call[c].store \in holding) \in BOOLEAN
    OBVIOUS
  <2>2. call[c] \in Call
    OBVIOUS
  <2> QED
    BY <2>1, <2>2 DEF Call
<1>3. \A s \in Stores : s \in holding <=> HoldsAccepted(s)'
  OBVIOUS
<1>4. \A c \in Calls : call[c].store \in Stores
  BY DEF Call
<1> HIDE DEF e, holding
<1> QED
  BY <1>1, <1>2, <1>3, <1>4 DEF HoldsAccepted

\* Only one call at a time is between stat and install.
LEMMA LoadsAlone ==
    ASSUME LoaderHoldsLock, NEW c \in Calls, lock \in {None, c}, NEW d \in Calls \ {c}
    PROVE  call[d].pc \notin Loading
  BY DEF LoaderHoldsLock

----------------------------------------------------------------------------
(* The steps. *)

\* A call that leaves the lock with keys that are a copy, and that hold the
\* accepted key for every call that relies on it, itself included.
LEMMA LeavingStep ==
    ASSUME KeysInv, NEW c \in Calls, Leaves(c, cached'.keys), lock \in {None, c},
           call[c].pc \in {"lookup"} \cup Loading,
           cached' \in Cached, IsCopy(cached'), UNCHANGED <<file, accepted, had>>,
           \A d \in Calls : call[d].fresh /\ (call[d].phase = 3 \/ (d = c /\ call[c].phase = 2))
                               => cached'.keys[call[d].store] = accepted[call[d].store]
    PROVE  KeysInv'
<1> DEFINE keys == cached'.keys
<1>1. TypeOK /\ LoaderHoldsLock /\ PhaseKnown /\ keys \in KeyMap
  BY DEF KeysInv, Cached
<1>2. call[c].key = None /\ call[c].result = None /\ call[c].phase \in 1..3
      /\ call[c].store \in Stores
  BY <1>1 DEF TypeOK, PhaseKnown, Loading, Call
<1>3. /\ lock' = None
      /\ call' \in [Calls -> Call]
      /\ \A d \in Calls \ {c} : call'[d] = call[d]
      /\ call'[c].store = call[c].store /\ (call'[c].fresh <=> call[c].fresh)
      /\ \/ /\ call[c].phase = 2 /\ call'[c].pc = "lookup" /\ call'[c].phase = 3
            /\ call'[c].key = None /\ call'[c].result = call[c].result
         \/ /\ call[c].phase # 2 /\ call'[c].phase = call[c].phase
            /\ \/ /\ call'[c].pc = "idle" /\ call'[c].result = "missing"
                  /\ call'[c].key = None /\ keys[call[c].store] = None
               \/ /\ call'[c].pc = "present" /\ call'[c].result = call[c].result
                  /\ call'[c].key = keys[call[c].store] /\ call'[c].key # None
  BY <1>1, <1>2, LeavesShape DEF TypeOK
<1>4. \A d \in Calls \ {c} : call[d].pc \notin Loading
  BY <1>1, LoadsAlone
<1> HIDE DEF keys
<1>5. TypeOK'
  BY <1>1, <1>3 DEF TypeOK
<1>6. LoaderHoldsLock'
  BY <1>3, <1>4 DEF LoaderHoldsLock, Loading
<1>7. PhaseKnown'
  BY <1>1, <1>2, <1>3 DEF PhaseKnown
<1>8. FileKnown'
  BY DEF KeysInv, FileKnown
<1>9. CopiesKnown'
  <2>1. IsCopy(cached)'
    BY DEF IsCopy
  <2> QED
    BY <2>1, <1>3, <1>4 DEF KeysInv, CopiesKnown, Loading
<1>10. FreshKnown'
  <2> SUFFICES ASSUME NEW d \in Calls, call'[d].fresh
               PROVE  LET s == call'[d].store
                      IN  /\ accepted[s] # None /\ HoldsAccepted(s)
                          /\ call'[d].phase = 3 => keys[s] = accepted[s]
                          /\ call'[d].phase = 3 /\ call'[d].pc = "present" => call'[d].key = accepted[s]
    BY <1>3, <1>4 DEF FreshKnown, HoldsAccepted, Loading, keys
  <2>1. call[d].fresh /\ call'[d].store = call[d].store
    BY <1>3
  <2>2. accepted[call[d].store] # None /\ HoldsAccepted(call[d].store)
    BY <2>1 DEF KeysInv, FreshKnown
  <2>3. call'[d].phase = 3 => call[d].phase = 3 \/ (d = c /\ call[c].phase = 2)
    BY <1>3
  <2>4. call'[d].phase = 3 => keys[call[d].store] = accepted[call[d].store]
    BY <2>1, <2>3 DEF keys
  <2>5. CASE d = c
    BY <1>3, <2>1, <2>2, <2>4, <2>5
  <2>6. CASE d # c
    <3>1. call'[d] = call[d]
      BY <1>3, <2>6
    <3>2. call[d].phase = 3 /\ call[d].pc = "present" => call[d].key = accepted[call[d].store]
      BY <2>1 DEF KeysInv, FreshKnown
    <3> QED
      BY <2>2, <2>4, <3>1, <3>2
  <2> QED
    BY <2>5, <2>6
<1>11. MissingIsHonest'
  <2>1. \A s \in Stores : had[s] => keys[s] # None
    BY DEF IsCopy, keys
  <2> QED
    BY <1>2, <1>3, <2>1 DEF KeysInv, MissingIsHonest
<1>12. ExpiredIsHonest'
  BY <1>2, <1>3 DEF KeysInv, ExpiredIsHonest
<1> QED
  BY <1>5, <1>6, <1>7, <1>8, <1>9, <1>10, <1>11, <1>12 DEF KeysInv

LEMMA LookupHitStep == ASSUME KeysInv, NEW c \in Calls, LookupHit(c) PROVE KeysInv'
<1>1. cached \in Cached /\ IsCopy(cached) /\ cached' = cached /\ UNCHANGED <<file, accepted, had>>
  BY DEF KeysInv, TypeOK, CopiesKnown, LookupHit
<1>2. Leaves(c, cached'.keys) /\ lock = None /\ call[c].pc = "lookup" /\ call[c].phase # 2
  BY <1>1 DEF LookupHit, KeysInv, PhaseKnown
<1>3. \A d \in Calls : call[d].fresh /\ call[d].phase = 3 => cached.keys[call[d].store] = accepted[call[d].store]
  BY DEF KeysInv, FreshKnown
<1>4. IsCopy(cached')
  BY <1>1
<1> QED
  BY <1>1, <1>2, <1>3, <1>4, LeavingStep

LEMMA LoadFailsStep == ASSUME KeysInv, NEW c \in Calls, LoadFails(c) PROVE KeysInv'
<1>1. cached \in Cached /\ IsCopy(cached) /\ cached' = cached /\ UNCHANGED <<file, accepted, had>>
  BY DEF KeysInv, TypeOK, CopiesKnown, LoadFails
<1>2. Leaves(c, cached'.keys) /\ call[c].pc \in Loading /\ lock = c
  BY <1>1 DEF LoadFails, KeysInv, LoaderHoldsLock, Loading
\* A call that relies on the file would have found it.
<1>3. ~call[c].fresh
  BY DEF LoadFails, KeysInv, FreshKnown, HoldsAccepted
<1>4. \A d \in Calls : call[d].fresh /\ call[d].phase = 3 => cached.keys[call[d].store] = accepted[call[d].store]
  BY DEF KeysInv, FreshKnown
<1>5. IsCopy(cached')
  BY <1>1
<1> QED
  BY <1>1, <1>2, <1>3, <1>4, <1>5, LeavingStep

LEMMA InstallStep == ASSUME KeysInv, NEW c \in Calls, Install(c) PROVE KeysInv'
<1>1. UNCHANGED <<file, accepted, had>> /\ call[c].pc = "install"
      /\ cached' = [ver |-> call[c].ver, keys |-> call[c].keys, stamp |-> call[c].stamp]
  BY DEF Install
<1>2. IsCopy(call[c]) /\ call[c] \in Call
  BY <1>1 DEF KeysInv, CopiesKnown, TypeOK
<1>3. cached' \in Cached /\ IsCopy(cached')
  BY <1>1, <1>2 DEF IsCopy, Cached, Call
<1>4. Leaves(c, cached'.keys) /\ call[c].pc \in Loading /\ lock = c
  <2>1. cached'.keys = call[c].keys
    BY <1>1
  <2> QED
    BY <1>1, <2>1 DEF Install, KeysInv, LoaderHoldsLock, Loading
<1>5. ASSUME NEW d \in Calls, call[d].fresh, call[d].phase = 3 \/ d = c
      PROVE  cached'.keys[call[d].store] = accepted[call[d].store]
  <2>1. cached'.keys = call[c].keys
    BY <1>1
  <2> QED
    BY <1>1, <1>5, <2>1 DEF KeysInv, FreshKnown
<1> QED
  BY <1>1, <1>3, <1>4, <1>5, LeavingStep

\* A call starts: nothing is known of it yet.
LEMMA StartStep == ASSUME KeysInv, NEW c \in Calls, NEW s \in Stores, Start(c, s) PROVE KeysInv'
<1> DEFINE e == [IdleCall(s) EXCEPT !.pc = "lookup", !.phase = 1]
<1>1. e \in Call /\ e.pc = "lookup" /\ e.phase = 1 /\ e.key = None /\ e.result = None /\ ~e.fresh
  <2>1. [t \in Stores |-> None] \in KeyMap
    BY DEF KeyMap
  <2>2. IdleCall(s) \in Call
    BY <2>1 DEF IdleCall, Call
  <2>3. IdleCall(s).key = None /\ IdleCall(s).result = None /\ ~IdleCall(s).fresh
    BY DEF IdleCall
  <2>4. [IdleCall(s) EXCEPT !.pc = "lookup"] \in Call
    BY <2>2 DEF Call
  <2>5. e \in Call
    BY <2>4, 1 \in 0..3 DEF Call
  <2> QED
    BY <2>2, <2>3, <2>5 DEF Call
<1>2. call' = [call EXCEPT ![c] = e] /\ UNCHANGED <<file, cached, lock, accepted, had>>
  BY DEF Start
<1> HIDE DEF e
<1>3. call \in [Calls -> Call] /\ call[c].pc = "idle"
  BY DEF KeysInv, TypeOK, Start
<1>4. call' \in [Calls -> Call] /\ call'[c] = e /\ \A d \in Calls \ {c} : call'[d] = call[d]
  BY <1>1, <1>2, <1>3
<1>5. TypeOK'
  <2>1. \A d \in Calls : call'[d].pc = "present" <=> call'[d].key # None
    BY <1>1, <1>4 DEF KeysInv, TypeOK
  <2> QED
    BY <1>2, <1>4, <2>1 DEF KeysInv, TypeOK
<1>6. LoaderHoldsLock'
  BY <1>1, <1>2, <1>3, <1>4 DEF KeysInv, LoaderHoldsLock, Loading
<1>7. PhaseKnown'
  BY <1>1, <1>4 DEF KeysInv, PhaseKnown
<1>8. FileKnown' /\ CopiesKnown'
  BY <1>1, <1>2, <1>4 DEF KeysInv, FileKnown, CopiesKnown, IsCopy
<1>9. FreshKnown'
  BY <1>1, <1>2, <1>4 DEF KeysInv, FreshKnown, HoldsAccepted
<1>10. MissingIsHonest' /\ ExpiredIsHonest'
  BY <1>1, <1>2, <1>4 DEF KeysInv, MissingIsHonest, ExpiredIsHonest
<1> QED
  BY <1>5, <1>6, <1>7, <1>8, <1>9, <1>10 DEF KeysInv

\* A call takes the lock to load the file.
LEMMA TakesLockStep ==
    ASSUME KeysInv, NEW c \in Calls, LookupMiss(c) \/ Refresh(c)
    PROVE  KeysInv'
<1>1. /\ call[c].pc \in {"lookup", "refresh"} /\ lock = None /\ lock' = c
      /\ call' = [call EXCEPT ![c].pc = "stat"]
      /\ UNCHANGED <<file, cached, accepted, had>>
  BY DEF LookupMiss, Refresh
<1>2. /\ call' \in [Calls -> Call]
      /\ \A d \in Calls \ {c} : call'[d] = call[d]
      /\ call'[c].pc = "stat" /\ call'[c].store = call[c].store /\ call'[c].phase = call[c].phase
      /\ call'[c].key = call[c].key /\ call'[c].result = call[c].result
      /\ (call'[c].fresh <=> call[c].fresh)
  <2> DEFINE e == [call[c] EXCEPT !.pc = "stat"]
  <2>1. call[c] \in Call
    BY DEF KeysInv, TypeOK
  <2>2. e \in Call
    BY <2>1 DEF Call
  <2>3. /\ e.pc = "stat" /\ e.store = call[c].store /\ e.phase = call[c].phase
        /\ e.key = call[c].key /\ e.result = call[c].result /\ (e.fresh <=> call[c].fresh)
    BY <2>1 DEF Call
  <2>4. call' = [call EXCEPT ![c] = e]
    BY <1>1
  <2> HIDE DEF e
  <2> QED
    BY <2>2, <2>3, <2>4 DEF KeysInv, TypeOK
<1>3. TypeOK'
  BY <1>1, <1>2 DEF KeysInv, TypeOK
<1>4. LoaderHoldsLock'
  BY <1>1, <1>2 DEF KeysInv, LoaderHoldsLock, Loading
<1>5. PhaseKnown'
  BY <1>1, <1>2 DEF KeysInv, PhaseKnown
<1>6. FileKnown' /\ CopiesKnown'
  BY <1>1, <1>2 DEF KeysInv, FileKnown, CopiesKnown, IsCopy
<1>7. FreshKnown'
  BY <1>1, <1>2 DEF KeysInv, FreshKnown, HoldsAccepted
<1>8. MissingIsHonest' /\ ExpiredIsHonest'
  BY <1>1, <1>2 DEF KeysInv, MissingIsHonest, ExpiredIsHonest
<1> QED
  BY <1>3, <1>4, <1>5, <1>6, <1>7, <1>8 DEF KeysInv

LEMMA StatStep == ASSUME KeysInv, NEW c \in Calls, Stat(c) PROVE KeysInv'
<1>1. /\ call[c].pc = "stat" /\ file.stamp # None /\ UNCHANGED <<file, cached, lock, accepted, had>>
      /\ call' = [call EXCEPT ![c] = [call[c] EXCEPT !.pc = "read", !.stamp = file.stamp]]
  BY DEF Stat
<1>2. file.stamp \in Nat /\ file.stamp <= file.ver
  BY <1>1 DEF KeysInv, TypeOK, File, FileKnown
<1>3. /\ call' \in [Calls -> Call]
      /\ \A d \in Calls \ {c} : call'[d] = call[d]
      /\ call'[c].pc = "read" /\ call'[c].store = call[c].store /\ call'[c].phase = call[c].phase
      /\ call'[c].key = call[c].key /\ call'[c].result = call[c].result
      /\ (call'[c].fresh <=> call[c].fresh) /\ call'[c].stamp = file.stamp
  <2> DEFINE e == [call[c] EXCEPT !.pc = "read", !.stamp = file.stamp]
  <2>1. call[c] \in Call
    BY DEF KeysInv, TypeOK
  <2>2. e \in Call
    BY <1>2, <2>1 DEF Call
  <2>3. /\ e.pc = "read" /\ e.store = call[c].store /\ e.phase = call[c].phase
        /\ e.key = call[c].key /\ e.result = call[c].result /\ (e.fresh <=> call[c].fresh)
        /\ e.stamp = file.stamp
    BY <2>1 DEF Call
  <2> HIDE DEF e
  <2>4. call' = [call EXCEPT ![c] = e]
    BY <1>1 DEF e
  <2> QED
    BY <2>2, <2>3, <2>4 DEF KeysInv, TypeOK
<1>4. TypeOK'
  BY <1>1, <1>3 DEF KeysInv, TypeOK
<1>5. LoaderHoldsLock'
  BY <1>1, <1>3 DEF KeysInv, LoaderHoldsLock, Loading
<1>6. PhaseKnown'
  BY <1>1, <1>3 DEF KeysInv, PhaseKnown
<1>7. FileKnown' /\ CopiesKnown'
  BY <1>1, <1>2, <1>3 DEF KeysInv, FileKnown, CopiesKnown, IsCopy
<1>8. FreshKnown'
  BY <1>1, <1>3 DEF KeysInv, FreshKnown, HoldsAccepted
<1>9. MissingIsHonest' /\ ExpiredIsHonest'
  BY <1>1, <1>3 DEF KeysInv, MissingIsHonest, ExpiredIsHonest
<1> QED
  BY <1>4, <1>5, <1>6, <1>7, <1>8, <1>9 DEF KeysInv

LEMMA ReadStep == ASSUME KeysInv, NEW c \in Calls, Read(c) PROVE KeysInv'
<1>1. /\ call[c].pc = "read" /\ file.good /\ UNCHANGED <<file, cached, lock, accepted, had>>
      /\ call' = [call EXCEPT ![c] = [call[c] EXCEPT !.pc = "install", !.ver = file.ver,
                                                     !.keys = file.keys]]
  BY DEF Read
<1>2. file.ver \in Nat /\ file.keys \in KeyMap /\ call[c] \in Call
  BY DEF KeysInv, TypeOK, File
<1>3. /\ call' \in [Calls -> Call]
      /\ \A d \in Calls \ {c} : call'[d] = call[d]
      /\ call'[c].pc = "install" /\ call'[c].store = call[c].store /\ call'[c].phase = call[c].phase
      /\ call'[c].key = call[c].key /\ call'[c].result = call[c].result
      /\ (call'[c].fresh <=> call[c].fresh) /\ call'[c].stamp = call[c].stamp
      /\ call'[c].ver = file.ver /\ call'[c].keys = file.keys
  <2> DEFINE e == [call[c] EXCEPT !.pc = "install", !.ver = file.ver, !.keys = file.keys]
  <2>1. e \in Call
    BY <1>2 DEF Call
  <2>2. /\ e.pc = "install" /\ e.store = call[c].store /\ e.phase = call[c].phase
        /\ e.key = call[c].key /\ e.result = call[c].result /\ (e.fresh <=> call[c].fresh)
        /\ e.stamp = call[c].stamp /\ e.ver = file.ver /\ e.keys = file.keys
    BY <1>2 DEF Call
  <2> HIDE DEF e
  <2>3. call' = [call EXCEPT ![c] = e]
    BY <1>1 DEF e
  <2> QED
    BY <2>1, <2>2, <2>3 DEF KeysInv, TypeOK
<1>4. TypeOK'
  BY <1>1, <1>3 DEF KeysInv, TypeOK
<1>5. LoaderHoldsLock'
  BY <1>1, <1>3 DEF KeysInv, LoaderHoldsLock, Loading
<1>6. PhaseKnown'
  BY <1>1, <1>3 DEF KeysInv, PhaseKnown
<1>7. FileKnown' /\ CopiesKnown'
  BY <1>1, <1>2, <1>3 DEF KeysInv, FileKnown, CopiesKnown, IsCopy
\* The file holds the accepted key for every call that relies on it.
<1>8. FreshKnown'
  BY <1>1, <1>3 DEF KeysInv, FreshKnown, HoldsAccepted
<1>9. MissingIsHonest' /\ ExpiredIsHonest'
  BY <1>1, <1>3 DEF KeysInv, MissingIsHonest, ExpiredIsHonest
<1> QED
  BY <1>4, <1>5, <1>6, <1>7, <1>8, <1>9 DEF KeysInv

\* An accepted key.  No call relies on a store StoreLink has not seen a key of.
LEMMA PresentStep == ASSUME KeysInv, NEW c \in Calls, Present(c) PROVE KeysInv'
<1> DEFINE e == [call[c] EXCEPT !.pc = "idle", !.key = None, !.result = "ok"]
<1>1. /\ call[c].pc = "present" /\ Accepts(c) /\ UNCHANGED <<file, cached, lock, had>>
      /\ call' = [call EXCEPT ![c] = e]
      /\ accepted' = [accepted EXCEPT ![call[c].store] = call[c].key]
  BY DEF Present
<1>2. call[c] \in Call /\ call[c].key \in Keys
  BY <1>1 DEF KeysInv, TypeOK, Call
<1>3. e \in Call
  BY <1>2 DEF Call
<1>4. /\ e.pc = "idle" /\ e.store = call[c].store /\ e.phase = call[c].phase
      /\ e.key = None /\ e.result = "ok" /\ (e.fresh <=> call[c].fresh)
  BY <1>2 DEF Call
<1> HIDE DEF e
<1>5. /\ call' \in [Calls -> Call] /\ call'[c] = e
      /\ \A d \in Calls \ {c} : call'[d] = call[d]
  BY <1>1, <1>3 DEF KeysInv, TypeOK
<1>6. accepted' \in [Stores -> Keys \cup {None}]
  BY <1>1, <1>2 DEF KeysInv, TypeOK
<1>7. \A s \in Stores : accepted[s] # None => accepted'[s] = accepted[s]
  BY <1>1, <1>2 DEF Accepts, KeysInv, TypeOK
<1>8. TypeOK'
  BY <1>1, <1>4, <1>5, <1>6 DEF KeysInv, TypeOK
<1>9. LoaderHoldsLock'
  BY <1>1, <1>4, <1>5 DEF KeysInv, LoaderHoldsLock, Loading
<1>10. PhaseKnown'
  BY <1>4, <1>5 DEF KeysInv, PhaseKnown
<1>11. FileKnown' /\ CopiesKnown'
  BY <1>1, <1>4, <1>5 DEF KeysInv, FileKnown, CopiesKnown, IsCopy
<1>12. FreshKnown'
  <2>1. \A d \in Calls : call[d].store \in Stores
    BY DEF KeysInv, TypeOK, Call
  <2> QED
    BY <1>1, <1>4, <1>5, <1>7, <2>1 DEF KeysInv, FreshKnown, HoldsAccepted
<1>13. MissingIsHonest' /\ ExpiredIsHonest'
  BY <1>1, <1>4, <1>5 DEF KeysInv, MissingIsHonest, ExpiredIsHonest
<1> QED
  BY <1>8, <1>9, <1>10, <1>11, <1>12, <1>13 DEF KeysInv

\* A rejected key: the call relies on the file from now on if that holds the
\* accepted one.
LEMMA RetryStep == ASSUME KeysInv, NEW c \in Calls, Retry(c) PROVE KeysInv'
<1> DEFINE holds == HoldsAccepted(call[c].store)
           e == [call[c] EXCEPT !.pc = "refresh", !.phase = 2, !.key = None, !.fresh = holds]
<1>1. /\ call[c].pc = "present" /\ ~Accepts(c) /\ UNCHANGED <<file, cached, lock, accepted, had>>
      /\ call' = [call EXCEPT ![c] = e]
  BY DEF Retry
<1>2. call[c] \in Call /\ holds \in BOOLEAN
  BY DEF KeysInv, TypeOK, HoldsAccepted, File
<1>3. accepted[call[c].store] # None
  BY <1>1 DEF Accepts
<1>4. holds <=> HoldsAccepted(call[c].store)
  OBVIOUS
<1> HIDE DEF holds
<1>5. e \in Call
  <2>1. [call[c] EXCEPT !.pc = "refresh", !.key = None, !.fresh = holds] \in Call
    BY <1>2 DEF Call
  <2> QED
    BY <2>1, 2 \in 0..3 DEF Call
<1>6. /\ e.pc = "refresh" /\ e.store = call[c].store /\ e.phase = 2
      /\ e.key = None /\ e.result = call[c].result /\ (e.fresh <=> holds)
  BY <1>2 DEF Call
<1> HIDE DEF e
<1>7. /\ call' \in [Calls -> Call] /\ call'[c] = e
      /\ \A d \in Calls \ {c} : call'[d] = call[d]
  BY <1>1, <1>5 DEF KeysInv, TypeOK
<1>8. TypeOK'
  BY <1>1, <1>6, <1>7 DEF KeysInv, TypeOK
<1>9. LoaderHoldsLock'
  BY <1>1, <1>6, <1>7 DEF KeysInv, LoaderHoldsLock, Loading
<1>10. PhaseKnown'
  BY <1>1, <1>6, <1>7 DEF KeysInv, PhaseKnown
<1>11. FileKnown' /\ CopiesKnown'
  BY <1>1, <1>6, <1>7 DEF KeysInv, FileKnown, CopiesKnown, IsCopy
<1>12. FreshKnown'
  BY <1>1, <1>3, <1>4, <1>6, <1>7 DEF KeysInv, FreshKnown, HoldsAccepted
<1>13. MissingIsHonest' /\ ExpiredIsHonest'
  BY <1>1, <1>6, <1>7 DEF KeysInv, MissingIsHonest, ExpiredIsHonest, PhaseKnown
<1> QED
  BY <1>8, <1>9, <1>10, <1>11, <1>12, <1>13 DEF KeysInv

\* A second rejection: the key presented was the one of a file that has, at
\* some moment, not held the accepted one.
LEMMA ExpireStep == ASSUME KeysInv, NEW c \in Calls, Expire(c) PROVE KeysInv'
<1> DEFINE e == [call[c] EXCEPT !.pc = "idle", !.key = None, !.result = "expired"]
<1>1. /\ call[c].pc = "present" /\ call[c].phase = 3 /\ ~Accepts(c)
      /\ UNCHANGED <<file, cached, lock, accepted, had>>
      /\ call' = [call EXCEPT ![c] = e]
  BY DEF Expire
<1>2. call[c] \in Call
  BY DEF KeysInv, TypeOK
<1>3. ~call[c].fresh
  BY <1>1 DEF KeysInv, FreshKnown, Accepts
<1>4. e \in Call
  BY <1>2 DEF Call
<1>5. /\ e.pc = "idle" /\ e.store = call[c].store /\ e.key = None /\ e.result = "expired" /\ ~e.fresh
  BY <1>2, <1>3 DEF Call
<1> HIDE DEF e
<1>6. /\ call' \in [Calls -> Call] /\ call'[c] = e
      /\ \A d \in Calls \ {c} : call'[d] = call[d]
  BY <1>1, <1>4 DEF KeysInv, TypeOK
<1>7. TypeOK'
  BY <1>1, <1>5, <1>6 DEF KeysInv, TypeOK
<1>8. LoaderHoldsLock'
  BY <1>1, <1>5, <1>6 DEF KeysInv, LoaderHoldsLock, Loading
<1>9. PhaseKnown'
  BY <1>5, <1>6 DEF KeysInv, PhaseKnown
<1>10. FileKnown' /\ CopiesKnown'
  BY <1>1, <1>5, <1>6 DEF KeysInv, FileKnown, CopiesKnown, IsCopy
<1>11. FreshKnown'
  BY <1>1, <1>5, <1>6 DEF KeysInv, FreshKnown, HoldsAccepted
<1>12. MissingIsHonest' /\ ExpiredIsHonest'
  BY <1>1, <1>5, <1>6 DEF KeysInv, MissingIsHonest, ExpiredIsHonest
<1> QED
  BY <1>7, <1>8, <1>9, <1>10, <1>11, <1>12 DEF KeysInv

\* Whatever IT does to the file or to the accepted key, a call only relies on
\* the file if it still holds that key.
LEMMA ITStep ==
    ASSUME KeysInv, NoteFreshness, UNCHANGED <<cached, lock>>,
           file' \in File, accepted' \in [Stores -> Keys \cup {None}], had' \in [Stores -> BOOLEAN],
           file'.ver \in Nat, file'.ver >= file.ver,
           file'.ver = file.ver /\ file'.good => file.good /\ file'.keys = file.keys,
           \A s \in Stores : had'[s] => had[s],
           \A s \in Stores : accepted[s] # None => accepted'[s] # None,
           \A s \in Stores : HoldsAccepted(s) /\ HoldsAccepted(s)' => accepted'[s] = accepted[s],
           FileKnown'
    PROVE  KeysInv'
<1>1. /\ call' \in [Calls -> Call]
      /\ \A c \in Calls :
            /\ call'[c].pc = call[c].pc /\ call'[c].store = call[c].store
            /\ call'[c].phase = call[c].phase /\ call'[c].stamp = call[c].stamp
            /\ call'[c].ver = call[c].ver /\ call'[c].keys = call[c].keys
            /\ call'[c].key = call[c].key /\ call'[c].result = call[c].result
            /\ call'[c].fresh <=> call[c].fresh /\ HoldsAccepted(call[c].store)'
  BY FreshShape DEF KeysInv, TypeOK
<1>2. TypeOK /\ \A c \in Calls : call[c].store \in Stores
  BY DEF KeysInv, TypeOK, Call
<1>3. TypeOK'
  BY <1>1, <1>2 DEF TypeOK
<1>4. LoaderHoldsLock' /\ PhaseKnown'
  BY <1>1 DEF KeysInv, LoaderHoldsLock, PhaseKnown
<1>5. \A x \in Cached \cup Call : IsCopy(x) => x.stamp \in Nat /\ x.stamp <= x.ver /\ x.ver <= file'.ver
                   /\ (x.ver = file'.ver /\ file'.good => x.keys = file'.keys)
                   /\ \A s \in Stores : had'[s] => x.keys[s] # None
  BY <1>2 DEF IsCopy, TypeOK, File, Cached, Call
<1>6. CopiesKnown'
  <2>1. IsCopy(cached)'
    BY <1>2, <1>5 DEF KeysInv, CopiesKnown, IsCopy, TypeOK
  <2>2. ASSUME NEW c \in Calls, call'[c].pc = "read"
        PROVE  call'[c].stamp \in Nat /\ call'[c].stamp <= file'.ver
    BY <1>1, <1>2, <2>2 DEF KeysInv, CopiesKnown, TypeOK, File
  <2>3. ASSUME NEW c \in Calls, call'[c].pc = "install"
        PROVE  IsCopy(call[c])' /\ cached'.ver <= call'[c].ver
    <3>1. IsCopy(call[c]) /\ cached.ver <= call[c].ver /\ call[c] \in Call
      BY <1>1, <1>2, <2>3 DEF KeysInv, CopiesKnown, TypeOK
    <3> QED
      BY <1>1, <1>5, <3>1 DEF IsCopy
  <2> QED
    BY <2>1, <2>2, <2>3 DEF CopiesKnown
<1>7. FreshKnown'
  <2> SUFFICES ASSUME NEW c \in Calls, call'[c].fresh
               PROVE  LET s == call'[c].store
                      IN  /\ accepted'[s] # None
                          /\ file'.good /\ file'.stamp # None /\ file'.keys[s] = accepted'[s]
                          /\ call'[c].phase = 3 => cached'.keys[s] = accepted'[s]
                          /\ call'[c].phase = 3 /\ call'[c].pc = "present" => call'[c].key = accepted'[s]
                          /\ \A d \in Calls :
                                call'[d].pc = "install" /\ (d = c \/ call'[c].phase = 3)
                                    => call'[d].keys[s] = accepted'[s]
    BY DEF FreshKnown, HoldsAccepted
  <2> DEFINE s == call[c].store
  <2>1. call[c].fresh /\ HoldsAccepted(s)' /\ call'[c].store = s /\ s \in Stores
    BY <1>1, <1>2 DEF HoldsAccepted
  <2>2. accepted[s] # None /\ HoldsAccepted(s)
    BY <2>1 DEF KeysInv, FreshKnown
  <2>3. accepted'[s] = accepted[s]
    BY <2>1, <2>2 DEF HoldsAccepted
  <2> QED
    <3>1. /\ call[c].phase = 3 => cached.keys[s] = accepted[s]
          /\ call[c].phase = 3 /\ call[c].pc = "present" => call[c].key = accepted[s]
          /\ \A d \in Calls : call[d].pc = "install" /\ (d = c \/ call[c].phase = 3)
                                => call[d].keys[s] = accepted[s]
      BY <2>1 DEF KeysInv, FreshKnown
    <3>2. file'.good /\ file'.stamp # None /\ file'.keys[s] = accepted'[s]
      BY <2>1 DEF HoldsAccepted
    <3> QED
      BY <1>1, <2>1, <2>2, <2>3, <3>1, <3>2
<1>8. MissingIsHonest' /\ ExpiredIsHonest'
  BY <1>1, <1>2 DEF KeysInv, MissingIsHonest, ExpiredIsHonest
<1> QED
  BY <1>3, <1>4, <1>6, <1>7, <1>8 DEF KeysInv

\* The three ways the file changes, and a rotation.
LEMMA FileStep ==
    ASSUME KeysInv, NEW stamp \in Stamps,
           Garble(stamp) \/ (\E keys \in KeyMap : Overwrite(keys, stamp)) \/ Remove
    PROVE  KeysInv'
<1>1. TypeOK /\ FileKnown /\ file \in File /\ file.ver \in Nat /\ stamp \in Nat /\ stamp <= file.ver + 1
  BY DEF KeysInv, TypeOK, File, Stamps, FileKnown
<1>2. CASE Garble(stamp)
  <2>1. /\ file' = [file EXCEPT !.ver = file.ver + 1, !.good = FALSE, !.stamp = stamp]
        /\ UNCHANGED <<cached, lock, accepted, had>> /\ NoteFreshness
    BY <1>2 DEF Garble
  <2>2. file' \in File /\ file'.ver = file.ver + 1 /\ ~file'.good /\ file'.stamp = stamp
    <3>1. [file EXCEPT !.ver = file.ver + 1] \in File
      BY <1>1 DEF File
    <3> QED
      BY <1>1, <2>1, <3>1 DEF File
  <2>3. FileKnown'
    BY <1>1, <2>2 DEF FileKnown
  <2> QED
    BY <1>1, <2>1, <2>2, <2>3, ITStep DEF TypeOK
<1>3. CASE \E keys \in KeyMap : Overwrite(keys, stamp)
  <2>1. PICK keys \in KeyMap : Overwrite(keys, stamp)
    BY <1>3
  <2>2. /\ file' = [ver |-> file.ver + 1, good |-> TRUE, keys |-> keys, stamp |-> stamp]
        /\ had' = [s \in Stores |-> had[s] /\ keys[s] # None]
        /\ UNCHANGED <<cached, lock, accepted>> /\ NoteFreshness
    BY <2>1 DEF Overwrite
  <2>3. file' \in File /\ file'.ver = file.ver + 1 /\ file'.stamp = stamp /\ file'.keys = keys
    BY <1>1, <2>2 DEF File
  <2>4. had' \in [Stores -> BOOLEAN] /\ \A s \in Stores : had'[s] => had[s] /\ keys[s] # None
    BY <1>1, <2>2 DEF TypeOK
  <2>5. FileKnown'
    BY <1>1, <2>3, <2>4 DEF FileKnown
  <2> QED
    BY <1>1, <2>2, <2>3, <2>4, <2>5, ITStep DEF TypeOK
<1>4. CASE Remove
  <2>1. /\ file' = [file EXCEPT !.good = FALSE, !.stamp = None]
        /\ UNCHANGED <<cached, lock, accepted, had>> /\ NoteFreshness
    BY <1>4 DEF Remove
  <2>2. file' \in File /\ file'.ver = file.ver /\ ~file'.good /\ file'.stamp = None
    BY <1>1, <2>1 DEF File
  <2>3. FileKnown'
    BY <2>2 DEF FileKnown
  <2> QED
    BY <1>1, <2>1, <2>2, <2>3, ITStep DEF TypeOK
<1> QED
  BY <1>2, <1>3, <1>4

LEMMA RotateStep ==
    ASSUME KeysInv, NEW s \in Stores, NEW k \in Keys, RotateKey(s, k) PROVE KeysInv'
<1>1. /\ accepted[s] # k /\ accepted' = [accepted EXCEPT ![s] = k]
      /\ UNCHANGED <<file, cached, lock, had>> /\ NoteFreshness
  BY DEF RotateKey
<1>2. TypeOK /\ file.ver \in Nat /\ accepted' \in [Stores -> Keys \cup {None}]
  BY <1>1 DEF KeysInv, TypeOK, File
<1>3. ASSUME NEW t \in Stores
      PROVE  /\ accepted[t] # None => accepted'[t] # None
             /\ HoldsAccepted(t) /\ HoldsAccepted(t)' => accepted'[t] = accepted[t]
  BY <1>1, <1>2 DEF HoldsAccepted, TypeOK
<1>4. FileKnown'
  BY <1>1 DEF KeysInv, FileKnown
<1> QED
  BY <1>1, <1>2, <1>3, <1>4, ITStep DEF TypeOK

LEMMA KeysInit == Init => KeysInv
<1> SUFFICES ASSUME NEW keys \in KeyMap,
                    /\ file = [ver |-> 1, good |-> TRUE, keys |-> keys, stamp |-> 1]
                    /\ cached = [ver |-> 1, keys |-> keys, stamp |-> 1]
                    /\ lock = None
                    /\ accepted = [s \in Stores |-> None]
                    /\ call \in [Calls -> {IdleCall(s) : s \in Stores}]
                    /\ had = [s \in Stores |-> keys[s] # None]
             PROVE  KeysInv
  BY DEF Init
<1>1. \A s \in Stores : IdleCall(s) \in Call
  BY DEF IdleCall, Call, KeyMap
<1>2. ASSUME NEW c \in Calls
      PROVE  call[c] \in Call /\ call[c].pc = "idle" /\ call[c].key = None /\ call[c].result = None
             /\ ~call[c].fresh
  <2>1. PICK s \in Stores : call[c] = IdleCall(s)
    OBVIOUS
  <2> QED
    BY <1>1, <2>1 DEF IdleCall
<1>3. TypeOK
  <2>1. call \in [Calls -> Call]
    BY <1>2
  <2>2. had \in [Stores -> BOOLEAN]
    OBVIOUS
  <2> QED
    BY <1>2, <2>1, <2>2 DEF TypeOK, File, Cached
<1>4. LoaderHoldsLock /\ PhaseKnown
  BY <1>2 DEF LoaderHoldsLock, PhaseKnown, Loading
<1>5. FileKnown /\ CopiesKnown
  <2>1. \A s \in Stores : had[s] => keys[s] # None
    OBVIOUS
  <2>2. /\ file.ver = 1 /\ file.good /\ file.keys = keys /\ file.stamp = 1
        /\ cached.ver = 1 /\ cached.keys = keys /\ cached.stamp = 1
    OBVIOUS
  <2> QED
    BY <1>2, <2>1, <2>2 DEF FileKnown, CopiesKnown, IsCopy
<1>6. FreshKnown /\ MissingIsHonest /\ ExpiredIsHonest
  BY <1>2 DEF FreshKnown, MissingIsHonest, ExpiredIsHonest
<1> QED
  BY <1>3, <1>4, <1>5, <1>6 DEF KeysInv

----------------------------------------------------------------------------
(* The theorems. *)

LEMMA KeysStep == KeysInv /\ [Next]_vars => KeysInv'
<1> SUFFICES ASSUME KeysInv, [Next]_vars PROVE KeysInv'
  OBVIOUS
<1>1. ASSUME NEW c \in Calls, \E s \in Stores : Start(c, s) PROVE KeysInv'
  BY <1>1, StartStep
<1>2. ASSUME NEW c \in Calls, CallStep(c) PROVE KeysInv'
  BY <1>2, LookupHitStep, TakesLockStep, StatStep, ReadStep, LoadFailsStep, InstallStep,
     PresentStep, RetryStep, ExpireStep DEF CallStep
<1>3. ASSUME NEW stamp \in Stamps, Garble(stamp) \/ \E keys \in KeyMap : Overwrite(keys, stamp)
      PROVE  KeysInv'
  BY <1>3, FileStep
<1>4. ASSUME Remove PROVE KeysInv'
  <2>1. file.ver + 1 \in Stamps
    BY DEF Stamps
  <2> QED
    BY <1>4, <2>1, FileStep
<1>5. ASSUME NEW s \in Stores, NEW k \in Keys, RotateKey(s, k) PROVE KeysInv'
  BY <1>5, RotateStep
<1>6. ASSUME UNCHANGED vars PROVE KeysInv'
  BY <1>6 DEF vars, KeysInv, TypeOK, LoaderHoldsLock, PhaseKnown, FileKnown, CopiesKnown, IsCopy,
     FreshKnown, HoldsAccepted, MissingIsHonest, ExpiredIsHonest
<1> QED
  BY <1>1, <1>2, <1>3, <1>4, <1>5, <1>6 DEF Next

\* For any calls, stores, keys and writes of the file, the inductive invariant
\* holds in every state of the provider and of the calls that use it.
THEOREM KeysInvariant == Spec => []KeysInv
<1> QED
  BY KeysInit, KeysStep, PTL DEF Spec

\* Every variable keeps its type; a key that is presented is never None.
THEOREM KeysTypeCorrect == Spec => []TypeOK
<1>1. KeysInv => TypeOK
  BY DEF KeysInv
<1> QED
  BY <1>1, KeysInvariant, PTL

\* A stamp that the cache knows is no excuse to serve old keys (storelink.py:129):
\* it was taken before the read, so a copy with the stamp of the newest version
\* is a copy of that version.
THEOREM StampsTellTruth == Spec => []StampTellsTruth
<1>1. KeysInv => StampTellsTruth
  BY DEF KeysInv, CopiesKnown, IsCopy, StampTellsTruth, TypeOK, File, Cached
<1> QED
  BY <1>1, KeysInvariant, PTL

\* A call fails as expired only if the file has not held the accepted key all
\* along since its first rejection (_store_call with its refresh and retry).
THEOREM ExpiriesAreHonest == Spec => []ExpiredIsHonest
<1>1. KeysInv => ExpiredIsHonest
  BY DEF KeysInv
<1> QED
  BY <1>1, KeysInvariant, PTL

\* A call fails for a missing key only if some well-formed file had none for the
\* store: neither a malformed nor a removed file takes a store down (_load).
THEOREM MissingsAreHonest == Spec => []MissingIsHonest
<1>1. KeysInv => MissingIsHonest
  BY DEF KeysInv
<1> QED
  BY <1>1, KeysInvariant, PTL

\* A reload never replaces newer keys by older ones (the lock of _maybe_reload
\* and refresh).
THEOREM CacheMovesForward == Spec => CacheNeverGoesBack
<1>1. KeysInv /\ [Next]_vars => [cached'.ver >= cached.ver]_vars
  <2> SUFFICES ASSUME KeysInv, [Next]_vars PROVE cached'.ver >= cached.ver
    OBVIOUS
  <2>1. cached.ver \in Nat
    BY DEF KeysInv, TypeOK, Cached
  <2>2. ASSUME NEW c \in Calls, Install(c) PROVE cached'.ver >= cached.ver
    <3>1. cached'.ver = call[c].ver /\ call[c].pc = "install" /\ call[c].ver \in Nat
      BY <2>2 DEF Install, KeysInv, TypeOK, Call
    <3> QED
      BY <2>1, <3>1 DEF KeysInv, CopiesKnown
  <2>3. ASSUME NEW c \in Calls,
               \/ \E s \in Stores : Start(c, s)
               \/ LookupHit(c) \/ LookupMiss(c) \/ Refresh(c) \/ Stat(c) \/ Read(c) \/ LoadFails(c)
               \/ Present(c) \/ Retry(c) \/ Expire(c)
        PROVE  cached' = cached
    BY <2>3 DEF Start, LookupHit, LookupMiss, Refresh, Stat, Read, LoadFails, Present, Retry, Expire
  <2>4. ASSUME \/ \E stamp \in Stamps : Garble(stamp) \/ \E keys \in KeyMap : Overwrite(keys, stamp)
               \/ Remove
               \/ \E s \in Stores, k \in Keys : RotateKey(s, k)
               \/ UNCHANGED vars
        PROVE  cached' = cached
    BY <2>4 DEF Garble, Overwrite, Remove, RotateKey, vars
  <2> QED
    BY <2>1, <2>2, <2>3, <2>4 DEF Next, CallStep
<1> QED
  BY <1>1, KeysInvariant, PTL DEF Spec, CacheNeverGoesBack
=============================================================================
