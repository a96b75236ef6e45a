------------------------ MODULE PositionCacheProofs ------------------------
(***************************************************************************)
(* For any number of threads, agents, gaps and entries: note_position_seen *)
(* without a lock loses the reading given last only to a thread that is    *)
(* about to note its own, keeps a full cache full but for one entry for    *)
(* each thread, and never meets an empty dict when it evicts.              *)
(***************************************************************************)
EXTENDS PositionCache, FiniteSetTheorems, SequenceTheorems, TLAPS

USE CacheAssumption

----------------------------------------------------------------------------
(* The inductive invariant. *)

\* Threads that have found the dict full and will evict.
Evicting == {t \in Threads : work[t].pc \in {"iter", "next", "pop"}}

\* A thread at work knows whose reading of which gap it notes.
WorkKnows ==
    \A t \in Threads : /\ work[t].pc # "idle" => work[t].gap \in Gaps /\ work[t].by \in Sessions
                       /\ work[t].pc = "pop" => work[t].key \in Gaps

\* Nothing was ever evicted.
NothingLost == Evicting = {} /\ \A g \in noted : IsCached(g)

\* An entry is missing only for a thread that has evicted one: the thread may
\* since have overwritten an entry that was there, and no thread begins to
\* evict before the dict is full again.
LossIsBounded == CacheMax - Len(positions) + Cardinality(Evicting) <= Cardinality(Threads)

\* The reading given last is in the dict, or a thread that evicted its gap is
\* about to note one.
LastIsCached ==
    last # None =>
        \/ \E k \in 1..Len(positions) : positions[k] = last
        \/ \E t \in Threads : work[t].pc = "insert" /\ work[t].key = last.gap

CacheInv ==
    /\ TypeOK
    /\ WorkKnows
    /\ NothingLost \/ LossIsBounded
    /\ LastIsCached

----------------------------------------------------------------------------
(* The dict. *)

Distinct(entries) == \A j, k \in 1..Len(entries) : entries[j].gap = entries[k].gap => j = k

\* A pop takes at most one entry away and leaves the others in their order.
LEMMA WithoutEntryShape ==
    ASSUME positions \in Seq(Entry), Distinct(positions), NEW g
    PROVE  /\ WithoutEntry(g) \in Seq(Entry) /\ Distinct(WithoutEntry(g))
           /\ Len(WithoutEntry(g)) \in {Len(positions), Len(positions) - 1}
           /\ \A j \in 1..Len(positions) : positions[j].gap # g =>
                 \E k \in 1..Len(WithoutEntry(g)) : WithoutEntry(g)[k] = positions[j]
<1>1. CASE ~IsCached(g)
  BY <1>1 DEF WithoutEntry
<1>2. CASE IsCached(g)
  <2> DEFINE i == CHOOSE k \in 1..Len(positions) : positions[k].gap = g
             front == SubSeq(positions, 1, i - 1)
             back == SubSeq(positions, i + 1, Len(positions))
  <2>1. i \in 1..Len(positions) /\ Len(positions) \in Nat
    BY <1>2 DEF IsCached
  <2>1a. positions[i].gap = g
    BY <1>2 DEF IsCached
  <2>2. WithoutEntry(g) = front \o back
    BY <1>2 DEF WithoutEntry, RemoveAt
  <2> HIDE DEF i
  <2>3. \A k \in 1..Len(positions) : positions[k] \in Entry
    OBVIOUS
  <2>4. /\ front \in Seq(Entry) /\ Len(front) = i - 1
        /\ \A k \in 1..i - 1 : front[k] = positions[k]
    BY <2>1, <2>3, SubSeqProperties
  <2>5. /\ back \in Seq(Entry) /\ Len(back) = Len(positions) - i
        /\ \A k \in 1..Len(positions) - i : back[k] = positions[k + i]
    BY <2>1, <2>3, SubSeqProperties
  <2> HIDE DEF front, back
  <2>6. /\ front \o back \in Seq(Entry) /\ Len(front \o back) = Len(positions) - 1
        /\ \A k \in 1..Len(positions) - 1 :
              (front \o back)[k] = IF k < i THEN positions[k] ELSE positions[k + 1]
    <3>1. /\ front \o back \in Seq(Entry)
          /\ Len(front \o back) = Len(front) + Len(back)
          /\ \A k \in 1..Len(front) + Len(back) :
                (front \o back)[k] = IF k <= Len(front) THEN front[k] ELSE back[k - Len(front)]
      BY <2>4, <2>5, ConcatProperties
    <3>2. Len(front) + Len(back) = Len(positions) - 1
      BY <2>1, <2>4, <2>5
    <3>3. ASSUME NEW k \in 1..Len(positions) - 1
          PROVE  (front \o back)[k] = IF k < i THEN positions[k] ELSE positions[k + 1]
      BY <2>1, <2>4, <2>5, <3>1, <3>2
    <3> QED
      BY <3>1, <3>2, <3>3
  <2> DEFINE new == front \o back
  <2>7. \A k \in 1..Len(new) : \E j \in 1..Len(positions) :
           /\ new[k] = positions[j]
           /\ j = IF k < i THEN k ELSE k + 1
    BY <2>1, <2>6
  <2> HIDE DEF new
  <2>8. Len(new) = Len(positions) - 1 /\ new \in Seq(Entry)
    BY <2>6 DEF new
  <2>9. Distinct(new)
    <3> SUFFICES ASSUME NEW j \in 1..Len(new), NEW k \in 1..Len(new), new[j].gap = new[k].gap
                 PROVE  j = k
      BY DEF Distinct
    <3>1. PICK a \in 1..Len(positions) : new[j] = positions[a] /\ a = IF j < i THEN j ELSE j + 1
      BY <2>7
    <3>2. PICK b \in 1..Len(positions) : new[k] = positions[b] /\ b = IF k < i THEN k ELSE k + 1
      BY <2>7
    <3>3. a = b
      BY <3>1, <3>2 DEF Distinct
    <3> QED
      BY <2>1, <2>8, <3>1, <3>2, <3>3
  <2>10. ASSUME NEW j \in 1..Len(positions), positions[j].gap # g
         PROVE  \E k \in 1..Len(new) : new[k] = positions[j]
    <3>1. j # i
      BY <2>1a, <2>10
    <3>2. CASE j < i
      <4>1. j \in 1..Len(positions) - 1 /\ new[j] = positions[j]
        BY <2>1, <2>6, <3>2 DEF new
      <4> QED
        BY <2>8, <4>1
    <3>3. CASE j > i
      <4> DEFINE k == j - 1
      <4>1. k \in 1..Len(positions) - 1 /\ ~(k < i) /\ k + 1 = j
        BY <2>1, <3>3
      <4> HIDE DEF k
      <4>2. new[k] = positions[j]
        BY <2>6, <4>1 DEF new
      <4> QED
        BY <2>8, <4>1, <4>2
    <3> QED
      BY <2>1, <3>1, <3>2, <3>3
  <2> QED
    BY <2>2, <2>8, <2>9, <2>10 DEF new
<1> QED
  BY <1>1, <1>2

\* An assignment adds at most its own key.
LEMMA WithEntryShape ==
    ASSUME positions \in Seq(Entry), Distinct(positions), NEW g \in Gaps, NEW s \in Sessions
    PROVE  LET new == WithEntry(g, s)
           IN  /\ new \in Seq(Entry) /\ Distinct(new) /\ Len(new) >= Len(positions)
               /\ \E k \in 1..Len(new) : new[k] = [gap |-> g, by |-> s]
               /\ \A k \in 1..Len(positions) : new[k].gap = positions[k].gap
<1> DEFINE e == [gap |-> g, by |-> s]
<1>1. e \in Entry /\ e.gap = g
  BY DEF Entry
<1> HIDE DEF e
<1>2. CASE IsCached(g)
  <2> DEFINE new == [k \in DOMAIN positions |-> IF positions[k].gap = g THEN e ELSE positions[k]]
  <2>1. WithEntry(g, s) = new
    BY <1>2 DEF WithEntry, e
  <2>2. new \in Seq(Entry) /\ Len(new) = Len(positions)
    BY <1>1
  <2>3. \A k \in 1..Len(positions) : new[k].gap = positions[k].gap
    BY <1>1
  <2>4. \E k \in 1..Len(positions) : new[k] = e
    BY <1>2 DEF IsCached
  <2> HIDE DEF new
  <2>5. Distinct(new)
    BY <2>2, <2>3 DEF Distinct
  <2>6. Len(new) >= Len(positions)
    BY <2>2
  <2> QED
    BY <2>1, <2>2, <2>3, <2>4, <2>5, <2>6 DEF e
<1>3. CASE ~IsCached(g)
  <2> DEFINE new == Append(positions, e)
  <2>1. WithEntry(g, s) = new
    BY <1>3 DEF WithEntry, e
  <2>2. /\ new \in Seq(Entry) /\ Len(new) = Len(positions) + 1 /\ new[Len(positions) + 1] = e
        /\ \A k \in 1..Len(positions) : new[k] = positions[k]
    BY <1>1
  <2> HIDE DEF new
  <2>3. Len(positions) \in Nat
    OBVIOUS
  <2>4. Distinct(new)
    BY <1>1, <1>3, <2>2, <2>3 DEF Distinct, IsCached
  <2>5. \E k \in 1..Len(new) : new[k] = e
    BY <2>2, <2>3
  <2>6. Len(new) >= Len(positions) /\ \A k \in 1..Len(positions) : new[k].gap = positions[k].gap
    BY <2>2, <2>3
  <2> QED
    BY <2>1, <2>2, <2>4, <2>5, <2>6 DEF e
<1> QED
  BY <1>2, <1>3

LEMMA IntervalSize ==
    ASSUME NEW n \in Nat
    PROVE  IsFiniteSet(1..n) /\ Cardinality(1..n) = n
<1>1. IsFiniteSet(1..n) /\ Cardinality(1..n) = IF 1 > n THEN 0 ELSE n - 1 + 1
  BY FS_Interval
<1>2. (IF 1 > n THEN 0 ELSE n - 1 + 1) = n
  OBVIOUS
<1> QED
  BY <1>1, <1>2

\* A set of gaps that are all cached is no larger than the dict.
LEMMA CachedFit ==
    ASSUME positions \in Seq(Entry), NEW S, \A g \in S : IsCached(g)
    PROVE  IsFiniteSet(S) /\ Cardinality(S) <= Len(positions)
<1> DEFINE f == [k \in 1..Len(positions) |-> positions[k].gap]
           T == {f[k] : k \in 1..Len(positions)}
<1>1. Len(positions) \in Nat /\ IsFiniteSet(1..Len(positions)) /\ Cardinality(1..Len(positions)) = Len(positions)
  <2>1. Len(positions) \in Nat
    OBVIOUS
  <2> QED
    BY <2>1, IntervalSize
<1>2. f \in Surjection(1..Len(positions), T)
  BY DEF Surjection
<1>3. IsFiniteSet(T) /\ Cardinality(T) <= Len(positions)
  BY <1>1, <1>2, FS_Surjection
<1>4. S \subseteq T
  BY DEF IsCached
<1> HIDE DEF T
<1>5. IsFiniteSet(S) /\ Cardinality(S) <= Cardinality(T)
  BY <1>3, <1>4, FS_Subset
<1>6. Cardinality(S) \in Nat /\ Cardinality(T) \in Nat
  BY <1>3, <1>5, FS_CardinalityType
<1> QED
  BY <1>1, <1>3, <1>5, <1>6

\* A reading in the dict is what a proposal on its gap quotes.
LEMMA EvidenceFound ==
    ASSUME positions \in Seq(Entry), Distinct(positions), NEW k \in 1..Len(positions)
    PROVE  Evidence(positions[k].gap) = positions[k].by
<1> DEFINE g == positions[k].gap
           seen == CHOOSE p \in ToSet(positions) : p.gap = g
<1>1. positions[k] \in ToSet(positions) /\ positions[k].gap = g /\ IsCached(g)
  BY DEF ToSet, IsCached
<1>2. seen \in ToSet(positions) /\ seen.gap = g
  BY <1>1
<1>3. Evidence(g) = seen.by
  BY <1>1 DEF Evidence
<1> HIDE DEF seen
<1>4. PICK j \in 1..Len(positions) : positions[j] = seen
  BY <1>2 DEF ToSet
<1>5. j = k
  BY <1>2, <1>4 DEF Distinct
<1> QED
  BY <1>3, <1>4, <1>5

----------------------------------------------------------------------------
(* The threads that evict. *)

LEMMA EvictingCount ==
    /\ IsFiniteSet(Evicting) /\ Cardinality(Evicting) \in Nat
    /\ Cardinality(Threads) \in Nat /\ Cardinality(Evicting) <= Cardinality(Threads)
<1>1. Evicting \in SUBSET Threads
  BY DEF Evicting
<1>2. IsFiniteSet(Evicting) /\ Cardinality(Evicting) <= Cardinality(Threads)
  BY <1>1, FS_Subset
<1> QED
  BY <1>2, FS_CardinalityType

\* A step of one thread adds or removes that thread only.
LEMMA EvictingMoves ==
    ASSUME TypeOK, NEW t \in Threads, NEW w, work' = [work EXCEPT ![t] = w]
    PROVE  Evicting' = IF w.pc \in {"iter", "next", "pop"} THEN Evicting \cup {t} ELSE Evicting \ {t}
  BY DEF TypeOK, Evicting

\* A thread that evicts meets a dict that is not empty.
LEMMA EvictorsFindEntries ==
    ASSUME CacheInv, NEW t \in Evicting
    PROVE  Len(positions) >= Cardinality(Evicting) /\ Len(positions) >= 1
<1>1. LossIsBounded
  BY DEF CacheInv, NothingLost
<1>2. Cardinality(Evicting) # 0
  BY EvictingCount, FS_EmptySet
<1>3. Len(positions) \in Nat
  BY DEF CacheInv, TypeOK
<1> QED
  BY <1>1, <1>2, <1>3, EvictingCount DEF LossIsBounded

----------------------------------------------------------------------------
(* The steps. *)

LEMMA InitHolds == Init => CacheInv
<1> SUFFICES ASSUME Init PROVE CacheInv
  OBVIOUS
<1>1. Idle \in Work /\ Idle.pc = "idle"
  BY DEF Idle, Work
<1>2. TypeOK
  BY <1>1 DEF Init, TypeOK
<1>3. Evicting = {}
  BY <1>1 DEF Init, Evicting
<1>4. WorkKnows /\ LastIsCached
  BY <1>1 DEF Init, WorkKnows, LastIsCached
<1>5. NothingLost
  BY <1>3 DEF Init, NothingLost
<1> QED
  BY <1>2, <1>4, <1>5 DEF CacheInv

\* A step that moves one thread and leaves the dict alone: what it must not
\* do is to begin to evict from a dict that is not full.
LEMMA ThreadMoves ==
    ASSUME CacheInv, NEW t \in Threads, NEW w \in Work, work' = [work EXCEPT ![t] = w],
           UNCHANGED <<positions, noted, last>>, work[t].pc # "insert",
           w.pc # "idle" => w.gap \in Gaps /\ w.by \in Sessions,
           w.pc = "pop" => w.key \in Gaps,
           w.pc \in {"iter", "next", "pop"} => t \in Evicting \/ Len(positions) >= CacheMax
    PROVE  CacheInv'
<1>0. work \in [Threads -> Work]
  BY DEF CacheInv, TypeOK
<1>1. TypeOK'
  BY DEF CacheInv, TypeOK
<1>2. WorkKnows' /\ LastIsCached'
  BY <1>0 DEF CacheInv, WorkKnows, LastIsCached
<1>3. Evicting' = IF w.pc \in {"iter", "next", "pop"} THEN Evicting \cup {t} ELSE Evicting \ {t}
  BY EvictingMoves DEF CacheInv
<1>4. Len(positions) \in Nat
  BY DEF CacheInv, TypeOK
<1>5. CASE w.pc \in {"iter", "next", "pop"} /\ t \notin Evicting
  <2>1. Len(positions) >= CacheMax
    BY <1>5
  <2>2. Evicting' \in SUBSET Threads
    BY <1>3, <1>5 DEF Evicting
  <2>3. Cardinality(Evicting') \in Nat /\ Cardinality(Evicting') <= Cardinality(Threads)
    BY <2>2, FS_Subset, FS_CardinalityType
  <2>4. LossIsBounded'
    BY <1>4, <2>1, <2>3, EvictingCount DEF LossIsBounded
  <2> QED
    BY <1>1, <1>2, <2>4 DEF CacheInv
<1>6. CASE w.pc \in {"iter", "next", "pop"} /\ t \in Evicting
  <2>1. Evicting' = Evicting
    BY <1>3, <1>6
  <2> QED
    BY <1>1, <1>2, <2>1 DEF CacheInv, NothingLost, LossIsBounded, IsCached
<1>7. CASE w.pc \notin {"iter", "next", "pop"}
  <2>1. Evicting' = Evicting \ {t}
    BY <1>3, <1>7
  <2>2. Cardinality(Evicting') \in Nat /\ Cardinality(Evicting') <= Cardinality(Evicting)
    BY <2>1, EvictingCount, FS_Subset, FS_CardinalityType
  <2>3. NothingLost => NothingLost'
    BY <2>1 DEF NothingLost, IsCached
  <2>4. LossIsBounded => LossIsBounded'
    BY <1>4, <2>2, EvictingCount DEF LossIsBounded
  <2> QED
    BY <1>1, <1>2, <2>3, <2>4 DEF CacheInv
<1> QED
  BY <1>5, <1>6, <1>7

LEMMA CheckKeeps ==
    ASSUME CacheInv, NEW t \in Threads, Check(t)
    PROVE  CacheInv'
<1> DEFINE w == [work[t] EXCEPT !.pc = IF Len(positions) >= CacheMax THEN "iter" ELSE "insert"]
<1>1. /\ work[t] \in Work /\ work[t].pc = "check" /\ t \in DOMAIN work
      /\ work[t].gap \in Gaps /\ work[t].by \in Sessions
  BY DEF CacheInv, TypeOK, WorkKnows, Check
<1>2. /\ w \in Work /\ w.gap = work[t].gap /\ w.by = work[t].by
      /\ w.pc = IF Len(positions) >= CacheMax THEN "iter" ELSE "insert"
  BY <1>1 DEF Work
<1>3. work' = [work EXCEPT ![t] = w] /\ UNCHANGED <<positions, noted, last>>
  BY DEF Check
<1> HIDE DEF w
<1> QED
  BY <1>1, <1>2, <1>3, ThreadMoves

LEMMA IterateKeeps ==
    ASSUME CacheInv, NEW t \in Threads, Iterate(t)
    PROVE  CacheInv'
<1> DEFINE w == [work[t] EXCEPT !.pc = "next", !.used = Len(positions)]
<1>1. /\ work[t] \in Work /\ t \in DOMAIN work /\ t \in Evicting /\ work[t].pc = "iter"
      /\ work[t].gap \in Gaps /\ work[t].by \in Sessions
  BY DEF CacheInv, TypeOK, WorkKnows, Iterate, Evicting
<1>2. Len(positions) \in Nat
  BY DEF CacheInv, TypeOK
<1>3. w \in Work /\ w.gap = work[t].gap /\ w.by = work[t].by /\ w.pc = "next"
  BY <1>1, <1>2 DEF Work
<1>4. work' = [work EXCEPT ![t] = w] /\ UNCHANGED <<positions, noted, last>>
  BY DEF Iterate
<1> HIDE DEF w
<1> QED
  BY <1>1, <1>3, <1>4, ThreadMoves

LEMMA OldestKeyKeeps ==
    ASSUME CacheInv, NEW t \in Threads, OldestKey(t)
    PROVE  CacheInv'
<1> DEFINE w == [work[t] EXCEPT !.pc = "pop", !.key = positions[1].gap]
<1>1. /\ work[t] \in Work /\ t \in DOMAIN work /\ t \in Evicting /\ work[t].pc = "next"
      /\ work[t].gap \in Gaps /\ work[t].by \in Sessions
  BY DEF CacheInv, TypeOK, WorkKnows, OldestKey, Evicting
<1>2. positions[1].gap \in Gaps
  <2>1. 1 \in 1..Len(positions)
    BY <1>1, EvictorsFindEntries DEF CacheInv, TypeOK
  <2>2. positions[1] \in Entry
    BY <2>1 DEF CacheInv, TypeOK
  <2> QED
    BY <2>2 DEF Entry
<1>3. w \in Work /\ w.gap = work[t].gap /\ w.by = work[t].by /\ w.pc = "pop" /\ w.key = positions[1].gap
  BY <1>1, <1>2 DEF Work
<1>4. work' = [work EXCEPT ![t] = w] /\ UNCHANGED <<positions, noted, last>>
  BY DEF OldestKey
<1> HIDE DEF w
<1> QED
  BY <1>1, <1>2, <1>3, <1>4, ThreadMoves

LEMMA IterationFailsKeeps ==
    ASSUME CacheInv, NEW t \in Threads, IterationFails(t)
    PROVE  CacheInv'
<1>1. Idle \in Work /\ Idle.pc = "idle"
  BY DEF Idle, Work
<1>2. work[t].pc = "next" /\ work' = [work EXCEPT ![t] = Idle] /\ UNCHANGED <<positions, noted, last>>
  BY DEF IterationFails
<1> QED
  BY <1>1, <1>2, ThreadMoves

LEMMA ReadPositionKeeps ==
    ASSUME CacheInv, NEW t \in Threads, NEW s \in Sessions, NEW g \in Gaps, ReadPosition(t, s, g)
    PROVE  CacheInv'
<1> DEFINE w == [Idle EXCEPT !.pc = "check", !.by = s, !.gap = g]
<1>1. w \in Work /\ w.pc = "check" /\ w.by = s /\ w.gap = g
  BY DEF Idle, Work
<1>2. work' = [work EXCEPT ![t] = w] /\ work[t].pc = "idle" /\ UNCHANGED <<positions, noted, last>>
  BY DEF ReadPosition
<1> HIDE DEF w
<1> QED
  BY <1>1, <1>2, ThreadMoves

\* The entry is gone, and so is the thread's turn to evict.
LEMMA EvictKeeps ==
    ASSUME CacheInv, NEW t \in Threads, Evict(t)
    PROVE  CacheInv'
<1> DEFINE w == [work[t] EXCEPT !.pc = "insert"]
<1>1. /\ work[t] \in Work /\ t \in DOMAIN work /\ t \in Evicting
      /\ work[t].gap \in Gaps /\ work[t].by \in Sessions
  BY DEF CacheInv, TypeOK, WorkKnows, Evict, Evicting
<1>2. /\ w \in Work /\ w.pc = "insert" /\ w.gap = work[t].gap /\ w.by = work[t].by
      /\ w.key = work[t].key
  BY <1>1 DEF Work
<1>3. /\ work' = [work EXCEPT ![t] = w] /\ positions' = WithoutEntry(work[t].key)
      /\ work[t].pc = "pop" /\ UNCHANGED <<noted, last>>
  BY DEF Evict
<1> HIDE DEF w
<1>4. /\ positions' \in Seq(Entry) /\ Distinct(positions')
      /\ Len(positions') \in {Len(positions), Len(positions) - 1}
      /\ \A j \in 1..Len(positions) : positions[j].gap # work[t].key =>
            \E k \in 1..Len(positions') : positions'[k] = positions[j]
  BY <1>3, WithoutEntryShape DEF CacheInv, TypeOK, Distinct
<1>5. TypeOK'
  BY <1>2, <1>3, <1>4 DEF CacheInv, TypeOK, Distinct
<1>6. WorkKnows' /\ LastIsCached'
  <2>1. work \in [Threads -> Work] /\ work'[t] = w /\ \A u \in Threads \ {t} : work'[u] = work[u]
    BY <1>1, <1>3 DEF CacheInv, TypeOK
  <2>2. WorkKnows'
    BY <1>1, <1>2, <2>1 DEF CacheInv, WorkKnows
  <2>3. LastIsCached'
    <3> SUFFICES ASSUME last # None, ~\E k \in 1..Len(positions') : positions'[k] = last
                 PROVE  \E u \in Threads : work'[u].pc = "insert" /\ work'[u].key = last.gap
      BY <1>3 DEF LastIsCached
    <3>1. ASSUME NEW j \in 1..Len(positions), positions[j] = last
          PROVE  \E u \in Threads : work'[u].pc = "insert" /\ work'[u].key = last.gap
      <4>1. work[t].key = last.gap
        BY <1>4, <3>1
      <4> QED
        BY <1>2, <2>1, <4>1
    <3>2. ASSUME NEW u \in Threads, work[u].pc = "insert", work[u].key = last.gap
          PROVE  work'[u].pc = "insert" /\ work'[u].key = last.gap
      BY <1>3, <2>1, <3>2
    <3> QED
      BY <3>1, <3>2 DEF CacheInv, LastIsCached
  <2> QED
    BY <2>2, <2>3
<1>7. Cardinality(Evicting') = Cardinality(Evicting) - 1
  <2>1. Evicting' = Evicting \ {t}
    BY <1>2, <1>3, EvictingMoves DEF CacheInv
  <2> QED
    BY <1>1, <2>1, EvictingCount, FS_RemoveElement
<1>8. ~NothingLost /\ LossIsBounded
  BY <1>1 DEF CacheInv, NothingLost
<1>9. LossIsBounded'
  <2>1. Len(positions) \in Nat
    BY DEF CacheInv, TypeOK
  <2> QED
    BY <1>4, <1>7, <1>8, <2>1, EvictingCount DEF LossIsBounded
<1> QED
  BY <1>5, <1>6, <1>9 DEF CacheInv

LEMMA InsertKeeps ==
    ASSUME CacheInv, NEW t \in Threads, Insert(t)
    PROVE  CacheInv'
<1> DEFINE g == work[t].gap
           s == work[t].by
<1>1. Idle \in Work /\ Idle.pc = "idle"
  BY DEF Idle, Work
<1>2. g \in Gaps /\ s \in Sessions /\ t \notin Evicting
  BY DEF CacheInv, TypeOK, WorkKnows, Insert, Evicting
<1>3. /\ work' = [work EXCEPT ![t] = Idle] /\ positions' = WithEntry(g, s)
      /\ noted' = noted \cup {g} /\ last' = [gap |-> g, by |-> s]
  BY DEF Insert
<1> HIDE DEF g, s
<1>4. /\ positions' \in Seq(Entry) /\ Distinct(positions') /\ Len(positions') >= Len(positions)
      /\ \E k \in 1..Len(positions') : positions'[k] = [gap |-> g, by |-> s]
      /\ \A k \in 1..Len(positions) : positions'[k].gap = positions[k].gap
  <2>1. positions \in Seq(Entry) /\ Distinct(positions)
    BY DEF CacheInv, TypeOK, Distinct
  <2> QED
    BY <1>2, <1>3, <2>1, WithEntryShape
<1>5. TypeOK'
  BY <1>1, <1>2, <1>3, <1>4 DEF CacheInv, TypeOK, Distinct
<1>6. WorkKnows' /\ LastIsCached'
  <2>1. work \in [Threads -> Work]
    BY DEF CacheInv, TypeOK
  <2>2. WorkKnows'
    BY <1>1, <1>3, <2>1 DEF CacheInv, WorkKnows
  <2>3. \E k \in 1..Len(positions') : positions'[k] = last'
    BY <1>3, <1>4
  <2> QED
    BY <2>2, <2>3 DEF LastIsCached
<1>7. Evicting' = Evicting
  BY <1>1, <1>2, <1>3, EvictingMoves DEF CacheInv
<1>8. Len(positions) \in Nat /\ Len(positions') \in Nat
  BY <1>4 DEF CacheInv, TypeOK
<1>9. NothingLost => NothingLost'
  BY <1>3, <1>4, <1>7, <1>8 DEF NothingLost, IsCached
<1>10. LossIsBounded => LossIsBounded'
  BY <1>4, <1>7, <1>8, EvictingCount DEF LossIsBounded
<1> QED
  BY <1>5, <1>6, <1>9, <1>10 DEF CacheInv

----------------------------------------------------------------------------
(* The theorems. *)

\* However the calls of note_position_seen interleave, a thread that
\* evicts has found the dict full, an entry is missing only for a thread that
\* has evicted one, and the reading given last is there or about to be followed.
THEOREM CacheInvariant == Spec => []CacheInv
<1>1. CacheInv /\ [Next]_vars => CacheInv'
  <2> SUFFICES ASSUME CacheInv, [Next]_vars PROVE CacheInv'
    OBVIOUS
  <2>1. CASE UNCHANGED vars
    BY <2>1
    DEF vars, CacheInv, TypeOK, WorkKnows, LastIsCached, NothingLost, LossIsBounded, Evicting, IsCached
  <2>2. ASSUME NEW t \in Threads, NEW s \in Sessions, NEW g \in Gaps, ReadPosition(t, s, g)
        PROVE  CacheInv'
    BY <2>2, ReadPositionKeeps
  <2>3. ASSUME NEW t \in Threads, Note(t)
        PROVE  CacheInv'
    BY <2>3, CheckKeeps, IterateKeeps, OldestKeyKeeps, IterationFailsKeeps, EvictKeeps, InsertKeeps DEF Note
  <2> QED
    BY <2>1, <2>2, <2>3 DEF Next
<1> QED
  BY InitHolds, <1>1, PTL DEF Spec

\* The dict keeps one entry for a key, whatever the threads do.
THEOREM CacheTypeCorrect == Spec => []TypeOK
<1>1. CacheInv => TypeOK
  BY DEF CacheInv
<1> QED
  BY <1>1, CacheInvariant, PTL

\* However many threads and agents note at once, a proposal on the gap read
\* last quotes this reading, or a thread that evicted it is about to note the
\* next.
THEOREM FreshestKept == Spec => []FreshestIsKept
<1>1. CacheInv => FreshestIsKept
  <2> SUFFICES ASSUME CacheInv, last # None,
                      ~\E t \in Threads : work[t].pc = "insert" /\ work[t].key = last.gap
               PROVE  Evidence(last.gap) = last.by
    BY DEF FreshestIsKept
  <2>1. PICK k \in 1..Len(positions) : positions[k] = last
    BY DEF CacheInv, LastIsCached
  <2>2. positions \in Seq(Entry) /\ Distinct(positions)
    BY DEF CacheInv, TypeOK, Distinct
  <2> QED
    BY <2>1, <2>2, EvidenceFound
<1> QED
  BY <1>1, CacheInvariant, PTL

\* Once _POSITION_CACHE_MAX gaps have been noted, threads that evict at the
\* same time cost one entry each and no more.
THEOREM CacheStaysFull == Spec => []StaysFull
<1>1. CacheInv => StaysFull
  <2> SUFFICES ASSUME CacheInv, Cardinality(noted) >= CacheMax
               PROVE  Len(positions) >= CacheMax - Cardinality(Threads)
    BY DEF StaysFull
  <2>1. Len(positions) \in Nat
    BY DEF CacheInv, TypeOK
  <2>2. CASE NothingLost
    <3>1. IsFiniteSet(noted) /\ Cardinality(noted) <= Len(positions)
      BY <2>2, CachedFit DEF CacheInv, TypeOK, NothingLost
    <3>2. Cardinality(noted) \in Nat
      BY <3>1, FS_CardinalityType
    <3> QED
      BY <2>1, <3>1, <3>2, EvictingCount
  <2>3. CASE LossIsBounded
    BY <2>1, <2>3, EvictingCount DEF LossIsBounded
  <2> QED
    BY <2>2, <2>3 DEF CacheInv
<1> QED
  BY <1>1, CacheInvariant, PTL

\* next(iter(...)) never meets an empty dict: threads that evict leave one
\* entry for each thread that still has to.
EvictionFindsEntry == \A t \in Threads : work[t].pc \in {"iter", "next", "pop"} => Len(positions) >= 1

THEOREM EvictionsFindEntry == Spec => []EvictionFindsEntry
<1>1. CacheInv => EvictionFindsEntry
  <2> SUFFICES ASSUME CacheInv, NEW t \in Threads, work[t].pc \in {"iter", "next", "pop"}
               PROVE  Len(positions) >= 1
    BY DEF EvictionFindsEntry
  <2>1. t \in Evicting
    BY DEF Evicting
  <2> QED
    BY <2>1, EvictorsFindEntries
<1> QED
  BY <1>1, CacheInvariant, PTL
=============================================================================
