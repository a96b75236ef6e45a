--------------------------- MODULE PositionCache ---------------------------
(***************************************************************************)
(* The evidence attached to a proposal (src/src/audit.py): a process-wide  *)
(* dict of the stock positions read last, which get_stock_position fills   *)
(* (note_position_seen) and record_proposed quotes.  No lock guards it and *)
(* the tools run on several threads, so every builtin call on the dict is  *)
(* a step: len, iter, next, pop, assignment.  A proposal only reads it, in *)
(* one step, and may come in any state.                                    *)
(*                                                                         *)
(* An operator that no step of Next uses, placed before the action it      *)
(* resembles, is a plausible slip in that action.                          *)
(***************************************************************************)
EXTENDS Integers, SequencesExt

CONSTANTS
    Threads,    \* tool calls that run at once
    Sessions,   \* agents connected to the server
    Gaps,       \* the (store_id, sku) pairs they look at
    None,       \* Python's None
    CacheMax    \* _POSITION_CACHE_MAX, 200 in the code

\* With fewer entries than threads, next(iter(...)) could meet an empty dict.
ASSUME CacheAssumption ==
    /\ None \notin Gaps \cup Sessions
    /\ IsFiniteSet(Threads)
    /\ CacheMax \in Nat /\ CacheMax >= Cardinality(Threads) /\ CacheMax > 0

VARIABLES
    positions,  \* _positions_seen: entries in insertion order, by whom each was read
    work,       \* what each thread's note_position_seen is doing
    noted,      \* history: gaps whose reading some agent has been given
    last        \* history: the reading given last

vars == <<positions, work, noted, last>>

Idle == [pc |-> "idle", by |-> None, gap |-> None, used |-> 0, key |-> None]

Init ==
    /\ positions = <<>>
    /\ work = [t \in Threads |-> Idle]
    /\ noted = {} /\ last = None

----------------------------------------------------------------------------
(* The dict. *)

IsCached(g) == \E k \in 1..Len(positions) : positions[k].gap = g

\* What record_proposed quotes (dict.get): the session that read the cached
\* numbers, or None.
Evidence(g) ==
    IF IsCached(g) THEN (CHOOSE p \in ToSet(positions) : p.gap = g).by ELSE None

\* setdefault: what is there stays.
WithEntryIfNew(g, s) ==
    IF IsCached(g) THEN positions ELSE Append(positions, [gap |-> g, by |-> s])

\* An assignment to a key that is there keeps the key's place.
WithEntry(g, s) ==
    IF IsCached(g)
    THEN [k \in DOMAIN positions |-> IF positions[k].gap = g THEN [gap |-> g, by |-> s] ELSE positions[k]]
    ELSE Append(positions, [gap |-> g, by |-> s])

\* pop(key, None): nothing happens when the key is gone.
WithoutEntry(g) ==
    IF IsCached(g) THEN RemoveAt(positions, CHOOSE k \in 1..Len(positions) : positions[k].gap = g)
    ELSE positions

----------------------------------------------------------------------------
(* note_position_seen. *)

\* get_stock_position has its numbers and calls note_position_seen.
ReadPosition(t, s, g) ==
    /\ work[t].pc = "idle"
    /\ work' = [work EXCEPT ![t] = [Idle EXCEPT !.pc = "check", !.by = s, !.gap = g]]
    /\ UNCHANGED <<positions, noted, last>>

\* len(_positions_seen) >= _POSITION_CACHE_MAX
Check(t) ==
    /\ work[t].pc = "check"
    /\ work' = [work EXCEPT ![t].pc = IF Len(positions) >= CacheMax THEN "iter" ELSE "insert"]
    /\ UNCHANGED <<positions, noted, last>>

\* iter(): the iterator remembers the size of the dict.
Iterate(t) ==
    /\ work[t].pc = "iter"
    /\ work' = [work EXCEPT ![t].pc = "next", ![t].used = Len(positions)]
    /\ UNCHANGED <<positions, noted, last>>

\* next(): the oldest key ...
OldestKey(t) ==
    /\ work[t].pc = "next"
    /\ Len(positions) = work[t].used
    /\ work' = [work EXCEPT ![t].pc = "pop", ![t].key = positions[1].gap]
    /\ UNCHANGED <<positions, noted, last>>

\* ... or RuntimeError, "dictionary changed size during iteration": the tool
\* call fails.
IterationFails(t) ==
    /\ work[t].pc = "next"
    /\ Len(positions) # work[t].used
    /\ work' = [work EXCEPT ![t] = Idle]
    /\ UNCHANGED <<positions, noted, last>>

EvictAll(t) ==
    /\ work[t].pc = "pop"
    /\ positions' = <<>>
    /\ work' = [work EXCEPT ![t].pc = "insert"]
    /\ UNCHANGED <<noted, last>>

\* Another thread may have popped the same key.
Evict(t) ==
    /\ work[t].pc = "pop"
    /\ positions' = WithoutEntry(work[t].key)
    /\ work' = [work EXCEPT ![t].pc = "insert"]
    /\ UNCHANGED <<noted, last>>

InsertTwice(t) ==
    /\ work[t].pc = "insert"
    /\ positions' = Append(positions, [gap |-> work[t].gap, by |-> work[t].by])
    /\ work' = [work EXCEPT ![t] = Idle]
    /\ noted' = noted \cup {work[t].gap}
    /\ last' = [gap |-> work[t].gap, by |-> work[t].by]

\* The assignment; the agent gets its answer.
Insert(t) ==
    /\ work[t].pc = "insert"
    /\ positions' = WithEntry(work[t].gap, work[t].by)
    /\ work' = [work EXCEPT ![t] = Idle]
    /\ noted' = noted \cup {work[t].gap}
    /\ last' = [gap |-> work[t].gap, by |-> work[t].by]

Note(t) ==
    Check(t) \/ Iterate(t) \/ OldestKey(t) \/ IterationFails(t) \/ Evict(t) \/ Insert(t)

Next ==
    \E t \in Threads :
       \/ \E s \in Sessions, g \in Gaps : ReadPosition(t, s, g)
       \/ Note(t)

Spec == Init /\ [][Next]_vars

----------------------------------------------------------------------------
(* Properties. *)

Entry == [gap : Gaps, by : Sessions]
Work  == [pc : {"idle", "check", "iter", "next", "pop", "insert"},
          by : Sessions \cup {None}, gap : Gaps \cup {None}, used : Nat, key : Gaps \cup {None}]

\* Every variable stays in the shape the code gives it; a dict has a key once.
TypeOK ==
    /\ positions \in Seq(Entry)
    /\ \A j, k \in 1..Len(positions) : positions[j].gap = positions[k].gap => j = k
    /\ work \in [Threads -> Work]
    /\ noted \subseteq Gaps /\ last \in Entry \cup {None}

\* "so an order it raises next carries the evidence it was based on"
\* (server.py:108-109): of a gap read last, a proposal quotes this reading and
\* not an older one, unless a thread has just evicted it and is about to note
\* one of its own, which is then the last.
FreshestIsKept ==
    last # None =>
        \/ Evidence(last.gap) = last.by
        \/ \E t \in Threads : work[t].pc = "insert" /\ work[t].key = last.gap

\* When more gaps are read than fit, threads that evict at the same time cost
\* one entry each and no more: after CacheMax gaps the cache stays that full.
StaysFull ==
    Cardinality(noted) >= CacheMax => Len(positions) >= CacheMax - Cardinality(Threads)

\* "Bounded so a long-running server cannot grow it without limit"
\* (audit.py:42): threads that pass the check together may exceed the cap,
\* each by its own entry and no more.  The code does not keep this: of two
\* threads that evict the same key each inserts its own, and the next two that
\* meet start from the larger size.
CacheIsBounded ==
    Len(positions) <= CacheMax + Cardinality(Threads) - 1
=============================================================================
