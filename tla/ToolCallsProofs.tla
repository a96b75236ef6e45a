-------------------------- MODULE ToolCallsProofs --------------------------
(***************************************************************************)
(* For any number of connections, requests served at once, messages,       *)
(* decisions and restarts: the stream tells every request from every other,*)
(* each call is on record where it belongs, and logquery's sessions, trace *)
(* and errors find what happened.                                          *)
(***************************************************************************)
EXTENDS LogQuery, FiniteSetTheorems, SequenceTheorems, TLAPS

USE CallsAssumption

----------------------------------------------------------------------------
(* The inductive invariant, over a diagnostic stream d, requests r, the    *)
(* ids m that were minted, the ids l that clients have used, a trail t, a  *)
(* ledger lg and the connections cl that are closed.                       *)

Busy(x) == x.pc # "idle"

\* The same request, by whose it is rather than by the ids on the record.
SameCall(x, y) == x.conn = y.conn /\ x.id = y.id

\* A connection has one session id from its first message on, its own.
Met(c, m)       == c \in Named \/ m[c] # None
SessionId(c, m) == IF c \in Named THEN c ELSE m[c]

SessionsApart(m, n) ==
    /\ \A c \in Connections : m[c] # None => m[c] \in 1..n
    /\ \A c, e \in Connections : m[c] # None /\ m[c] = m[e] => c = e

\* The ids that x carries are those of the connection it is of.
HoldsIds(x, m, l) ==
    IF x.conn = None THEN x.session = None /\ x.id = None
    ELSE /\ x.conn \in Connections /\ Met(x.conn, m)
         /\ x.session = SessionId(x.conn, m)
         /\ x.id \in 1..l[x.conn]

IdsAreOwn(d, r, m, l) ==
    /\ \A k \in 1..Len(d) : HoldsIds(d[k], m, l)
    /\ \A s \in Slots : IF Busy(r[s]) THEN r[s].conn # None /\ HoldsIds(r[s], m, l)
                                      ELSE r[s] = NoRequest

Starts(d) == {k \in 1..Len(d) : d[k].event = "tool_call_started"}
Ends(d)   == {k \in 1..Len(d) : d[k].event = "tool_call"}

\* Every call started is served or has ended, once.
RequestsApart(r) == \A s, q \in Slots : Busy(r[s]) /\ Busy(r[q]) /\ SameCall(r[s], r[q]) => s = q
StartsApart(d)   == \A i, j \in Starts(d) : SameCall(d[i], d[j]) => i = j
EndsApart(d)     == \A i, j \in Ends(d) : SameCall(d[i], d[j]) => i = j
ServedHasStart(d, r) ==
    \A s \in Slots : Busy(r[s]) =>
        \E i \in Starts(d) : SameCall(d[i], r[s]) /\ d[i].tool = r[s].tool
EndHasStart(d) ==
    \A k \in Ends(d) : \E i \in Starts(d) : i < k /\ SameCall(d[i], d[k]) /\ d[i].tool = d[k].tool
EndedIsOver(d, r) == \A k \in Ends(d) : \A s \in Slots : Busy(r[s]) => ~SameCall(d[k], r[s])
CallsHaveConn(d)  == \A k \in Starts(d) \cup Ends(d) : d[k].conn # None

Pairs(d, r) ==
    /\ RequestsApart(r) /\ StartsApart(d) /\ EndsApart(d)
    /\ ServedHasStart(d, r) /\ EndHasStart(d) /\ EndedIsOver(d, r) /\ CallsHaveConn(d)

\* Each failed call under a request has its line.
FailLines(d, x) == {k \in 1..Len(d) : d[k].event = "upstream_call" /\ SameRequest(d[k], x)}
Fails(made)     == {k \in 1..Len(made) : made[k] = "error"}

FailsLogged(d, r) ==
    \A s \in Slots : Busy(r[s]) => Cardinality(FailLines(d, r[s])) = Cardinality(Fails(r[s].made))

FailuresAreErrors(d) ==
    \A k \in 1..Len(d) : /\ d[k].failed => d[k].outcome = "error"
                         /\ d[k].event = "upstream_call" /\ d[k].conn # None => d[k].outcome = "error"

\* What a connection's calls add up to; those that a restart ended, of a
\* connection in cl, have no end.
StartsOf(d, c) == {k \in 1..Len(d) : d[k].conn = c /\ d[k].event = "tool_call_started"}
EndsOf(d, c)   == {k \in 1..Len(d) : d[k].conn = c /\ d[k].event = "tool_call"}
ServedOf(r, c) == {s \in Slots : r[s].conn = c}

CallsAddUp(d, r, cl) ==
    \A c \in Connections :
        /\ Cardinality(EndsOf(d, c)) + Cardinality(ServedOf(r, c)) <= Cardinality(StartsOf(d, c))
        /\ c \notin cl
              => Cardinality(EndsOf(d, c)) + Cardinality(ServedOf(r, c)) = Cardinality(StartsOf(d, c))

\* Each proposal has the trace of the request that made it, and the page decides
\* on proposed orders only.
OrdersOf(t) == {t[k].order : k \in 1..Len(t)}

Proposed(t) == {k \in 1..Len(t) : t[k].event = "order_proposed"}

TracesAreOwn(t, m, l) ==
    /\ \A p \in Proposed(t) : /\ t[p].conn # None /\ t[p].own = t[p].id
                               /\ HoldsIds(t[p], m, l)
    /\ \A p \in 1..Len(t) : p \notin Proposed(t) => t[p].session = None

\* A run proposes each number once; the connections of earlier runs are closed.
RunsApart(t, lg, cl) ==
    /\ \A p \in Proposed(t) : t[p].conn \in cl \/ t[p].order \in 1..Len(lg)
    /\ \A p, q \in Proposed(t) :
          t[p].order = t[q].order => p = q \/ t[p].conn \in cl \/ t[q].conn \in cl

PageKnowsOrder == page.pc # "idle" => page.order \in OrdersOf(trail)

ToolCallsInv ==
    /\ TypeOK
    /\ SessionsApart(minted, messages)
    /\ IdsAreOwn(diag, request, minted, lastId)
    /\ Pairs(diag, request)
    /\ UpstreamIsOwn
    /\ FailsLogged(diag, request) /\ FailuresAreErrors(diag)
    /\ CallsAddUp(diag, request, closed)
    /\ TracesAreOwn(trail, minted, lastId) /\ RunsApart(trail, ledger, closed) /\ PageKnowsOrder

----------------------------------------------------------------------------
(* Records added to a stream. *)

LEMMA Appended ==
    ASSUME NEW S, NEW d \in Seq(S), NEW x \in S
    PROVE  /\ Append(d, x) \in Seq(S)
           /\ Len(d) \in Nat /\ Len(Append(d, x)) = Len(d) + 1
           /\ 1..Len(Append(d, x)) = 1..Len(d) \cup {Len(d) + 1} /\ Len(d) + 1 \notin 1..Len(d)
           /\ \A k \in 1..Len(d) : Append(d, x)[k] = d[k]
           /\ Append(d, x)[Len(d) + 1] = x
<1>1. Len(d) \in Nat
  OBVIOUS
<1>2. 1..(Len(d) + 1) = 1..Len(d) \cup {Len(d) + 1}
  BY <1>1
<1> QED
  BY <1>1, <1>2, AppendProperties

LEMMA AddedNone ==
    ASSUME NEW S, NEW d \in Seq(S)
    PROVE  d \o <<>> = d
  BY ConcatEmptySeq

LEMMA AddedOne ==
    ASSUME NEW S, NEW d \in Seq(S), NEW x \in S
    PROVE  d \o <<x>> = Append(d, x)
  BY AppendIsConcat

LEMMA AddedTwo ==
    ASSUME NEW S, NEW d \in Seq(S), NEW x \in S, NEW y \in S
    PROVE  d \o <<x, y>> = Append(Append(d, x), y)
<1>1. <<x>> \in Seq(S) /\ <<y>> \in Seq(S) /\ <<x, y>> = <<x>> \o <<y>>
  <2>1. <<x>> \in Seq(S) /\ <<y>> \in Seq(S) /\ <<x, y>> \in Seq(S)
    OBVIOUS
  <2>2. <<x>> \o <<y>> = Append(<<x>>, y)
    BY <2>1, AppendIsConcat
  <2>3. Append(<<x>>, y) = <<x, y>>
    <3>1. /\ Append(<<x>>, y) \in Seq(S) /\ Len(Append(<<x>>, y)) = 2
          /\ Append(<<x>>, y)[1] = x /\ Append(<<x>>, y)[2] = y
      <4>1. Len(<<x>>) = 1 /\ <<x>>[1] = x
        OBVIOUS
      <4> QED
        BY <2>1, <4>1, AppendProperties
    <3>2. Len(<<x, y>>) = 2 /\ <<x, y>>[1] = x /\ <<x, y>>[2] = y
      OBVIOUS
    <3>3. \A i \in 1..Len(<<x, y>>) : Append(<<x>>, y)[i] = <<x, y>>[i]
      <4>1. 1..2 = {1, 2}
        OBVIOUS
      <4> QED
        BY <3>1, <3>2, <4>1
    <3> QED
      BY <2>1, <3>1, <3>2, <3>3, SeqEqual
  <2> QED
    BY <2>1, <2>2, <2>3
<1>2. d \o <<x>> = Append(d, x) /\ Append(d, x) \in Seq(S)
  BY AppendIsConcat, AppendProperties
<1>3. Append(d, x) \o <<y>> = Append(Append(d, x), y)
  BY <1>2, AppendIsConcat
<1>4. d \o (<<x>> \o <<y>>) = (d \o <<x>>) \o <<y>>
  BY <1>1, ConcatAssociative
<1> QED
  BY <1>1, <1>2, <1>3, <1>4

\* The positions that the invariant counts, after one more record.
LEMMA PositionsAdded ==
    ASSUME NEW d \in Seq(Record), NEW x \in Record
    PROVE  LET e == Append(d, x)
               n == Len(d) + 1
           IN  /\ Starts(e) = Starts(d) \cup (IF x.event = "tool_call_started" THEN {n} ELSE {})
               /\ Ends(e) = Ends(d) \cup (IF x.event = "tool_call" THEN {n} ELSE {})
               /\ \A y : FailLines(e, y) = FailLines(d, y) \cup
                             (IF x.event = "upstream_call" /\ SameRequest(x, y) THEN {n} ELSE {})
               /\ \A c : StartsOf(e, c) = StartsOf(d, c) \cup
                             (IF x.conn = c /\ x.event = "tool_call_started" THEN {n} ELSE {})
               /\ \A c : EndsOf(e, c) = EndsOf(d, c) \cup
                             (IF x.conn = c /\ x.event = "tool_call" THEN {n} ELSE {})
<1> DEFINE e == Append(d, x)
           n == Len(d) + 1
<1>1. /\ 1..Len(e) = 1..Len(d) \cup {n} /\ n \notin 1..Len(d)
      /\ \A k \in 1..Len(d) : e[k] = d[k]
      /\ e[n] = x
  BY Appended
<1> HIDE DEF e, n
<1>2. Starts(e) = Starts(d) \cup (IF x.event = "tool_call_started" THEN {n} ELSE {})
  BY <1>1 DEF Starts
<1>3. Ends(e) = Ends(d) \cup (IF x.event = "tool_call" THEN {n} ELSE {})
  BY <1>1 DEF Ends
<1>4. ASSUME NEW y
      PROVE  FailLines(e, y) = FailLines(d, y) \cup
                 (IF x.event = "upstream_call" /\ SameRequest(x, y) THEN {n} ELSE {})
  BY <1>1 DEF FailLines
<1>5. ASSUME NEW c
      PROVE  StartsOf(e, c) = StartsOf(d, c) \cup
                 (IF x.conn = c /\ x.event = "tool_call_started" THEN {n} ELSE {})
  BY <1>1 DEF StartsOf
<1>6. ASSUME NEW c
      PROVE  EndsOf(e, c) = EndsOf(d, c) \cup
                 (IF x.conn = c /\ x.event = "tool_call" THEN {n} ELSE {})
  BY <1>1 DEF EndsOf
<1> QED
  BY <1>2, <1>3, <1>4, <1>5, <1>6 DEF e, n

\* All of them are finite.
LEMMA PositionsFinite ==
    ASSUME NEW S, NEW d \in Seq(S)
    PROVE  /\ \A T \in SUBSET (1..Len(d)) : IsFiniteSet(T) /\ Cardinality(T) \in Nat
           /\ Len(d) \in Nat
<1>1. Len(d) \in Nat
  OBVIOUS
<1>2. IsFiniteSet(1..Len(d))
  BY <1>1, FS_Interval
<1> QED
  BY <1>1, <1>2, FS_Subset, FS_CardinalityType

----------------------------------------------------------------------------
(* Ids. *)

\* Two things with ids of their own carry the same session exactly when they
\* are of the same connection.
LEMMA IdsIdentify ==
    ASSUME NEW n \in Nat, NEW m, NEW l, SessionsApart(m, n),
           NEW x, NEW y, HoldsIds(x, m, l), HoldsIds(y, m, l)
    PROVE  /\ x.session = y.session <=> x.conn = y.conn
           /\ SameRequest(x, y) <=> SameCall(x, y)
           /\ x.conn = None <=> x.session = None
<1>1. \A c \in Connections : m[c] # None => m[c] \in Nat
  BY DEF SessionsApart
<1>2. None \notin Connections /\ None \notin Nat /\ \A c \in Connections : c \notin Nat
  OBVIOUS
<1>3. x.conn = None <=> x.session = None
  BY <1>1, <1>2 DEF HoldsIds, Met, SessionId
<1>4. y.conn = None <=> y.session = None
  BY <1>1, <1>2 DEF HoldsIds, Met, SessionId
<1>5. x.session = y.session <=> x.conn = y.conn
  BY <1>1, <1>2, <1>3, <1>4 DEF HoldsIds, Met, SessionId, SessionsApart
<1> QED
  BY <1>3, <1>5 DEF SameRequest, SameCall

\* Sessions and ids only move forward.
Forward(m, l, m2, l2) ==
    \A c \in Connections : /\ Met(c, m) => Met(c, m2) /\ SessionId(c, m2) = SessionId(c, m)
                           /\ l[c] \in Nat /\ l2[c] \in Nat /\ l[c] <= l2[c]

LEMMA IdsStay ==
    ASSUME NEW m, NEW l, NEW m2, NEW l2, Forward(m, l, m2, l2), NEW x, HoldsIds(x, m, l)
    PROVE  HoldsIds(x, m2, l2)
  BY DEF Forward, HoldsIds

LEMMA ReceiveIsForward ==
    ASSUME TypeOK, SessionsApart(minted, messages), NEW c \in Connections, Receive(c)
    PROVE  /\ Forward(minted, lastId, minted', lastId')
           /\ Met(c, minted') /\ SessionOf(c) = SessionId(c, minted')
           /\ SessionOf(c) \in Session /\ SessionOf(c) # None
           /\ SessionsApart(minted', messages')
           /\ minted' \in [Connections -> SomeId] /\ lastId' \in [Connections -> Nat]
           /\ messages' \in 0..MaxMessages
           /\ lastId'[c] = lastId[c] + 1 /\ lastId[c] \in Nat
<1>1. messages \in Nat /\ messages' = messages + 1 /\ messages' \in 0..MaxMessages
  BY DEF TypeOK, Receive
<1>2. lastId' \in [Connections -> Nat] /\ lastId'[c] = lastId[c] + 1 /\ lastId[c] \in Nat
  BY DEF TypeOK, Receive
<1>3. \A e \in Connections : lastId[e] \in Nat /\ lastId'[e] \in Nat /\ lastId[e] <= lastId'[e]
  BY DEF TypeOK, Receive
<1>4. SessionOf(c) = IF c \in Named THEN c ELSE IF minted[c] # None THEN minted[c] ELSE messages + 1
  BY DEF SessionOf, NewId
<1>5. \A e \in Connections : minted[e] # None => minted[e] \in 1..messages
  BY DEF SessionsApart
<1>6. /\ minted' \in [Connections -> SomeId]
      /\ \A e \in Connections :
            minted'[e] = IF e # c THEN minted[e] ELSE IF c \in Named THEN None
                         ELSE IF minted[c] # None THEN minted[c] ELSE messages + 1
  BY <1>1, <1>4 DEF TypeOK, Receive, SomeId
<1>7. None \notin Nat /\ None \notin Connections
  OBVIOUS
<1>8. Forward(minted, lastId, minted', lastId')
  BY <1>3, <1>6 DEF Forward, Met, SessionId
<1>9. Met(c, minted') /\ SessionOf(c) = SessionId(c, minted')
  BY <1>1, <1>4, <1>6, <1>7 DEF Met, SessionId
<1>10. SessionOf(c) \in Session /\ SessionOf(c) # None
  BY <1>1, <1>4, <1>5, <1>7 DEF Session
<1>11. SessionsApart(minted', messages')
  BY <1>1, <1>5, <1>6, <1>7 DEF SessionsApart
<1> QED
  BY <1>1, <1>2, <1>6, <1>8, <1>9, <1>10, <1>11

----------------------------------------------------------------------------
(* What a record or a request that moves leaves of the invariant. *)

LEMMA IdsForward ==
    ASSUME NEW d, NEW r, NEW m, NEW l, NEW m2, NEW l2, Forward(m, l, m2, l2), IdsAreOwn(d, r, m, l)
    PROVE  IdsAreOwn(d, r, m2, l2)
  BY IdsStay DEF IdsAreOwn

LEMMA IdsAdded ==
    ASSUME NEW d \in Seq(Record), NEW x \in Record, NEW r, NEW m, NEW l,
           IdsAreOwn(d, r, m, l), HoldsIds(x, m, l)
    PROVE  IdsAreOwn(Append(d, x), r, m, l)
<1> DEFINE e == Append(d, x)
<1>1. /\ 1..Len(e) = 1..Len(d) \cup {Len(d) + 1}
      /\ \A k \in 1..Len(d) : e[k] = d[k]
      /\ e[Len(d) + 1] = x
  BY Appended
<1> HIDE DEF e
<1>2. \A k \in 1..Len(e) : HoldsIds(e[k], m, l)
  BY <1>1 DEF IdsAreOwn
<1> QED
  BY <1>2 DEF IdsAreOwn, e

LEMMA IdsMoved ==
    ASSUME NEW d, NEW r \in [Slots -> Request], NEW s \in Slots, NEW w, NEW m, NEW l,
           IdsAreOwn(d, r, m, l),
           IF Busy(w) THEN w.conn # None /\ HoldsIds(w, m, l) ELSE w = NoRequest
    PROVE  IdsAreOwn(d, [r EXCEPT ![s] = w], m, l)
  BY DEF IdsAreOwn

\* A record that neither starts nor ends a call.
LEMMA PairsAdded ==
    ASSUME NEW d \in Seq(Record), NEW x \in Record, NEW r, Pairs(d, r),
           x.event \notin {"tool_call_started", "tool_call"}
    PROVE  Pairs(Append(d, x), r)
<1> DEFINE e == Append(d, x)
<1>1. Starts(e) = Starts(d) /\ Ends(e) = Ends(d)
  <2>1. /\ Starts(e) = Starts(d) \cup (IF x.event = "tool_call_started" THEN {Len(d) + 1} ELSE {})
        /\ Ends(e) = Ends(d) \cup (IF x.event = "tool_call" THEN {Len(d) + 1} ELSE {})
    BY PositionsAdded
  <2> QED
    BY <2>1
<1>2. \A k \in Starts(d) \cup Ends(d) : e[k] = d[k]
  BY Appended DEF Starts, Ends
<1> HIDE DEF e
<1>3. Pairs(e, r)
  BY <1>1, <1>2 DEF Pairs, StartsApart, EndsApart, ServedHasStart, EndHasStart, EndedIsOver, CallsHaveConn
<1> QED
  BY <1>3 DEF e

\* A request that goes on.
LEMMA PairsMoved ==
    ASSUME NEW d, NEW r \in [Slots -> Request], NEW s \in Slots, NEW w, Pairs(d, r),
           Busy(r[s]), Busy(w), SameCall(w, r[s]), w.tool = r[s].tool
    PROVE  Pairs(d, [r EXCEPT ![s] = w])
<1> DEFINE r2 == [r EXCEPT ![s] = w]
<1>1. \A q \in Slots : /\ Busy(r2[q]) <=> Busy(r[q])
                        /\ r2[q].conn = r[q].conn /\ r2[q].id = r[q].id /\ r2[q].tool = r[q].tool
  BY DEF SameCall
<1> HIDE DEF r2
<1>2. RequestsApart(r2) /\ ServedHasStart(d, r2) /\ EndedIsOver(d, r2)
  BY <1>1 DEF Pairs, RequestsApart, ServedHasStart, EndedIsOver, SameCall
<1> QED
  BY <1>2 DEF Pairs, r2

\* A call begins, under an id that nothing has carried yet.
LEMMA PairsStarted ==
    ASSUME NEW d \in Seq(Record), NEW x \in Record, NEW r \in [Slots -> Request], NEW s \in Slots,
           NEW w, Pairs(d, r), x.event = "tool_call_started", x.conn # None,
           ~Busy(r[s]), Busy(w), SameCall(x, w), x.tool = w.tool,
           \A k \in 1..Len(d) : ~SameCall(d[k], x),
           \A q \in Slots : Busy(r[q]) => ~SameCall(r[q], x)
    PROVE  Pairs(Append(d, x), [r EXCEPT ![s] = w])
<1> DEFINE e  == Append(d, x)
           n  == Len(d) + 1
           r2 == [r EXCEPT ![s] = w]
<1>1. Starts(e) = Starts(d) \cup {n} /\ Ends(e) = Ends(d)
  <2>1. /\ Starts(e) = Starts(d) \cup (IF x.event = "tool_call_started" THEN {n} ELSE {})
        /\ Ends(e) = Ends(d) \cup (IF x.event = "tool_call" THEN {n} ELSE {})
    BY ONLY d \in Seq(Record), x \in Record, PositionsAdded
  <2> QED
    BY <2>1
<1>2. (\A k \in 1..Len(d) : e[k] = d[k]) /\ e[n] = x /\ n \notin 1..Len(d)
  BY Appended
<1>3. Starts(d) \subseteq 1..Len(d) /\ Ends(d) \subseteq 1..Len(d)
  BY DEF Starts, Ends
<1>4. r2[s] = w /\ \A q \in Slots : q # s => r2[q] = r[q]
  OBVIOUS
<1> HIDE DEF e, n, r2
<1>5. StartsApart(e)
  BY <1>1, <1>2, <1>3 DEF Pairs, StartsApart, SameCall
<1>6. EndsApart(e) /\ CallsHaveConn(e)
  BY <1>1, <1>2, <1>3 DEF Pairs, EndsApart, CallsHaveConn
<1>7. EndHasStart(e)
  BY <1>1, <1>2, <1>3 DEF Pairs, EndHasStart
<1>8. RequestsApart(r2)
  BY <1>4 DEF Pairs, RequestsApart, SameCall
<1>9. ServedHasStart(e, r2)
  BY <1>1, <1>2, <1>3, <1>4 DEF Pairs, ServedHasStart
<1>10. EndedIsOver(e, r2)
  BY <1>1, <1>2, <1>3, <1>4 DEF Pairs, EndedIsOver, SameCall
<1> QED
  BY <1>5, <1>6, <1>7, <1>8, <1>9, <1>10 DEF Pairs, e, r2

\* A call ends.
LEMMA PairsEnded ==
    ASSUME NEW d \in Seq(Record), NEW x \in Record, NEW r \in [Slots -> Request], NEW s \in Slots,
           Pairs(d, r), x.event = "tool_call", Busy(r[s]), r[s].conn # None,
           SameCall(x, r[s]), x.tool = r[s].tool
    PROVE  Pairs(Append(d, x), [r EXCEPT ![s] = NoRequest])
<1> DEFINE e  == Append(d, x)
           n  == Len(d) + 1
           r2 == [r EXCEPT ![s] = NoRequest]
<1>1. Starts(e) = Starts(d) /\ Ends(e) = Ends(d) \cup {n}
  <2>1. /\ Starts(e) = Starts(d) \cup (IF x.event = "tool_call_started" THEN {n} ELSE {})
        /\ Ends(e) = Ends(d) \cup (IF x.event = "tool_call" THEN {n} ELSE {})
    BY ONLY d \in Seq(Record), x \in Record, PositionsAdded
  <2> QED
    BY <2>1
<1>2. (\A k \in 1..Len(d) : e[k] = d[k]) /\ e[n] = x /\ n \notin 1..Len(d)
  BY Appended
<1>3. Starts(d) \subseteq 1..Len(d) /\ Ends(d) \subseteq 1..Len(d) /\ \A k \in 1..Len(d) : k < n
  BY DEF Starts, Ends
<1>4. r2[s] = NoRequest /\ \A q \in Slots : q # s => r2[q] = r[q]
  OBVIOUS
<1>5. ~Busy(NoRequest)
  BY DEF Busy, NoRequest
<1> HIDE DEF e, n, r2
<1>6. StartsApart(e) /\ CallsHaveConn(e)
  BY <1>1, <1>2, <1>3 DEF Pairs, StartsApart, CallsHaveConn, SameCall
<1>7. EndsApart(e)
  BY <1>1, <1>2, <1>3 DEF Pairs, EndsApart, EndedIsOver, SameCall
<1>8. EndHasStart(e)
  <2>1. PICK i \in Starts(d) : SameCall(d[i], r[s]) /\ d[i].tool = r[s].tool
    BY DEF Pairs, ServedHasStart
  <2>2. i < n /\ SameCall(e[i], e[n]) /\ e[i].tool = e[n].tool
    BY <1>2, <1>3, <2>1 DEF SameCall
  <2> QED
    BY <1>1, <1>2, <1>3, <2>1, <2>2 DEF Pairs, EndHasStart
<1>9. RequestsApart(r2)
  BY <1>4, <1>5 DEF Pairs, RequestsApart
<1>10. ServedHasStart(e, r2)
  BY <1>1, <1>2, <1>3, <1>4, <1>5 DEF Pairs, ServedHasStart
<1>11. EndedIsOver(e, r2)
  BY <1>1, <1>2, <1>3, <1>4, <1>5 DEF Pairs, EndedIsOver, RequestsApart, SameCall
<1> QED
  BY <1>6, <1>7, <1>8, <1>9, <1>10, <1>11 DEF Pairs, e, r2

LEMMA FailuresAdded ==
    ASSUME NEW d \in Seq(Record), NEW x \in Record, FailuresAreErrors(d),
           x.failed => x.outcome = "error",
           x.event = "upstream_call" /\ x.conn # None => x.outcome = "error"
    PROVE  FailuresAreErrors(Append(d, x))
<1> DEFINE e == Append(d, x)
<1>1. /\ 1..Len(e) = 1..Len(d) \cup {Len(d) + 1}
      /\ \A k \in 1..Len(d) : e[k] = d[k]
      /\ e[Len(d) + 1] = x
  BY Appended
<1> HIDE DEF e
<1>2. FailuresAreErrors(e)
  BY <1>1 DEF FailuresAreErrors
<1> QED
  BY <1>2 DEF e

\* A line that is no StoreLink call of a request being served.
LEMMA FailsUnmoved ==
    ASSUME NEW d \in Seq(Record), NEW x \in Record, NEW r, FailsLogged(d, r),
           \A s \in Slots : Busy(r[s]) => x.event # "upstream_call" \/ ~SameRequest(x, r[s])
    PROVE  FailsLogged(Append(d, x), r)
<1> SUFFICES ASSUME NEW s \in Slots, Busy(r[s])
             PROVE  Cardinality(FailLines(Append(d, x), r[s])) = Cardinality(Fails(r[s].made))
  BY DEF FailsLogged
<1>1. FailLines(Append(d, x), r[s]) = FailLines(d, r[s]) \cup
          (IF x.event = "upstream_call" /\ SameRequest(x, r[s]) THEN {Len(d) + 1} ELSE {})
  BY PositionsAdded
<1>2. FailLines(Append(d, x), r[s]) = FailLines(d, r[s])
  BY <1>1
<1> QED
  BY <1>2 DEF FailsLogged

\* A request that makes no call: it goes on, or it ends.
LEMMA FailsMoved ==
    ASSUME NEW d, NEW r \in [Slots -> Request], NEW s \in Slots, NEW w, FailsLogged(d, r), Busy(r[s]),
           Busy(w) => w.session = r[s].session /\ w.id = r[s].id /\ w.made = r[s].made
    PROVE  FailsLogged(d, [r EXCEPT ![s] = w])
<1> DEFINE r2 == [r EXCEPT ![s] = w]
<1>1. r2[s] = w /\ \A q \in Slots : q # s => r2[q] = r[q]
  OBVIOUS
<1> HIDE DEF r2
<1>2. Busy(w) => FailLines(d, w) = FailLines(d, r[s])
  BY DEF FailLines, SameRequest
<1>3. FailsLogged(d, r2)
  <2> SUFFICES ASSUME NEW q \in Slots, Busy(r2[q])
               PROVE  Cardinality(FailLines(d, r2[q])) = Cardinality(Fails(r2[q].made))
    BY DEF FailsLogged
  <2>1. CASE q = s
    BY <1>1, <1>2, <2>1 DEF FailsLogged
  <2>2. CASE q # s
    BY <1>1, <2>2 DEF FailsLogged
  <2> QED
    BY <2>1, <2>2
<1> QED
  BY <1>3 DEF r2

\* A request that begins, under ids that no line carries.
LEMMA FailsStarted ==
    ASSUME NEW d \in Seq(Record), NEW r \in [Slots -> Request], NEW s \in Slots, NEW w,
           FailsLogged(d, r), w.made = <<>>, \A k \in 1..Len(d) : ~SameRequest(d[k], w)
    PROVE  FailsLogged(d, [r EXCEPT ![s] = w])
<1> DEFINE r2 == [r EXCEPT ![s] = w]
<1>1. r2[s] = w /\ \A q \in Slots : q # s => r2[q] = r[q]
  OBVIOUS
<1> HIDE DEF r2
<1>2. FailLines(d, w) = {} /\ Fails(w.made) = {}
  BY DEF FailLines, Fails
<1>3. FailsLogged(d, r2)
  <2> SUFFICES ASSUME NEW q \in Slots, Busy(r2[q])
               PROVE  Cardinality(FailLines(d, r2[q])) = Cardinality(Fails(r2[q].made))
    BY DEF FailsLogged
  <2>1. CASE q = s
    BY <1>1, <1>2, <2>1
  <2>2. CASE q # s
    BY <1>1, <2>2 DEF FailsLogged
  <2> QED
    BY <2>1, <2>2
<1> QED
  BY <1>3 DEF r2

\* One more call on the list of what was made.
LEMMA FailsAppended ==
    ASSUME NEW made \in Seq({"ok", "error"}), NEW o \in {"ok", "error"}
    PROVE  Cardinality(Fails(Append(made, o))) = Cardinality(Fails(made)) + (IF o = "error" THEN 1 ELSE 0)
<1> DEFINE e == Append(made, o)
           n == Len(made) + 1
<1>1. /\ 1..Len(e) = 1..Len(made) \cup {n} /\ n \notin 1..Len(made)
      /\ \A k \in 1..Len(made) : e[k] = made[k]
      /\ e[n] = o
  BY Appended
<1> HIDE DEF e, n
<1>2. Fails(e) = Fails(made) \cup (IF o = "error" THEN {n} ELSE {}) /\ n \notin Fails(made)
  BY <1>1 DEF Fails
<1>3. IsFiniteSet(Fails(made)) /\ Cardinality(Fails(made)) \in Nat
  BY PositionsFinite DEF Fails
<1>4. CASE o = "error"
  BY <1>2, <1>3, <1>4, FS_AddElement DEF e
<1>5. CASE o # "error"
  <2>1. Fails(e) = Fails(made)
    BY <1>2, <1>5
  <2> QED
    BY <1>3, <1>5, <2>1 DEF e
<1> QED
  BY <1>4, <1>5

\* A failed call, on its request's list and on a line of its own.
LEMMA FailsLine ==
    ASSUME NEW d \in Seq(Record), NEW x \in Record, NEW r \in [Slots -> Request], NEW s \in Slots, NEW w,
           FailsLogged(d, r), Busy(r[s]), x.event = "upstream_call", SameRequest(x, r[s]),
           w.session = r[s].session, w.id = r[s].id, w.made = Append(r[s].made, "error"),
           \A q \in Slots : Busy(r[q]) /\ q # s => ~SameRequest(x, r[q])
    PROVE  FailsLogged(Append(d, x), [r EXCEPT ![s] = w])
<1> DEFINE r2 == [r EXCEPT ![s] = w]
           e  == Append(d, x)
           n  == Len(d) + 1
<1>1. r2[s] = w /\ \A q \in Slots : q # s => r2[q] = r[q]
  OBVIOUS
<1>2. \A y : FailLines(e, y) = FailLines(d, y) \cup
                 (IF x.event = "upstream_call" /\ SameRequest(x, y) THEN {n} ELSE {})
  BY PositionsAdded
<1>3. n \notin 1..Len(d)
  BY Appended
<1>4. r[s].made \in Seq({"ok", "error"})
  BY DEF Request
<1> HIDE DEF r2, e, n
<1>5. Cardinality(FailLines(e, w)) = Cardinality(Fails(w.made))
  <2>1. FailLines(e, w) = FailLines(d, r[s]) \cup {n}
    <3>1. SameRequest(x, w) /\ FailLines(d, w) = FailLines(d, r[s])
      BY DEF SameRequest, FailLines
    <3> QED
      BY <1>2, <3>1
  <2>2. IsFiniteSet(FailLines(d, r[s])) /\ n \notin FailLines(d, r[s])
    BY <1>3, PositionsFinite DEF FailLines
  <2>3. Cardinality(FailLines(e, w)) = Cardinality(FailLines(d, r[s])) + 1
    BY <2>1, <2>2, FS_AddElement
  <2>4. Cardinality(Fails(w.made)) = Cardinality(Fails(r[s].made)) + 1
    BY <1>4, FailsAppended
  <2> QED
    BY <2>3, <2>4 DEF FailsLogged
<1>6. ASSUME NEW q \in Slots, Busy(r2[q]), q # s
      PROVE  Cardinality(FailLines(e, r2[q])) = Cardinality(Fails(r2[q].made))
  <2>1. r2[q] = r[q] /\ ~SameRequest(x, r[q])
    BY <1>1, <1>6
  <2>2. FailLines(e, r[q]) = FailLines(d, r[q])
    <3>1. FailLines(e, r[q]) = FailLines(d, r[q]) \cup
              (IF x.event = "upstream_call" /\ SameRequest(x, r[q]) THEN {n} ELSE {})
      BY <1>2
    <3> QED
      BY <2>1, <3>1
  <2> QED
    BY <1>6, <2>1, <2>2 DEF FailsLogged
<1>7. FailsLogged(e, r2)
  BY <1>1, <1>5, <1>6 DEF FailsLogged
<1> QED
  BY <1>7 DEF r2, e

\* The calls of one connection.
LEMMA ServedFinite ==
    ASSUME NEW r, NEW c
    PROVE  IsFiniteSet(ServedOf(r, c)) /\ Cardinality(ServedOf(r, c)) \in Nat
<1>1. ServedOf(r, c) \in SUBSET Slots /\ IsFiniteSet(Slots)
  BY DEF ServedOf
<1> QED
  BY <1>1, FS_Subset, FS_CardinalityType

LEMMA OfFinite ==
    ASSUME NEW S, NEW d \in Seq(S), NEW c
    PROVE  /\ IsFiniteSet(StartsOf(d, c)) /\ Cardinality(StartsOf(d, c)) \in Nat
           /\ IsFiniteSet(EndsOf(d, c)) /\ Cardinality(EndsOf(d, c)) \in Nat
           /\ Len(d) + 1 \notin StartsOf(d, c) /\ Len(d) + 1 \notin EndsOf(d, c)
<1>1. StartsOf(d, c) \in SUBSET (1..Len(d)) /\ EndsOf(d, c) \in SUBSET (1..Len(d))
  BY DEF StartsOf, EndsOf
<1> QED
  BY <1>1, PositionsFinite

LEMMA CallsAdded ==
    ASSUME NEW d \in Seq(Record), NEW x \in Record, NEW r, NEW cl, CallsAddUp(d, r, cl),
           x.event \notin {"tool_call_started", "tool_call"}
    PROVE  CallsAddUp(Append(d, x), r, cl)
<1> SUFFICES ASSUME NEW c \in Connections
             PROVE  StartsOf(Append(d, x), c) = StartsOf(d, c) /\ EndsOf(Append(d, x), c) = EndsOf(d, c)
  BY DEF CallsAddUp
<1>1. /\ StartsOf(Append(d, x), c) = StartsOf(d, c) \cup
             (IF x.conn = c /\ x.event = "tool_call_started" THEN {Len(d) + 1} ELSE {})
      /\ EndsOf(Append(d, x), c) = EndsOf(d, c) \cup
             (IF x.conn = c /\ x.event = "tool_call" THEN {Len(d) + 1} ELSE {})
  BY PositionsAdded
<1> QED
  BY <1>1

LEMMA CallsMoved ==
    ASSUME NEW d, NEW r \in [Slots -> Request], NEW s \in Slots, NEW w, NEW cl, CallsAddUp(d, r, cl),
           w.conn = r[s].conn
    PROVE  CallsAddUp(d, [r EXCEPT ![s] = w], cl)
<1>1. \A c \in Connections : ServedOf([r EXCEPT ![s] = w], c) = ServedOf(r, c)
  BY DEF ServedOf
<1> QED
  BY <1>1 DEF CallsAddUp

LEMMA CallsStarted ==
    ASSUME NEW d \in Seq(Record), NEW x \in Record, NEW r \in [Slots -> Request], NEW s \in Slots,
           NEW w, NEW cl, CallsAddUp(d, r, cl), x.event = "tool_call_started", x.conn = w.conn, r[s].conn = None
    PROVE  CallsAddUp(Append(d, x), [r EXCEPT ![s] = w], cl)
<1> DEFINE r2 == [r EXCEPT ![s] = w]
           e  == Append(d, x)
           n  == Len(d) + 1
<1> DEFINE Got(f, q, c) == Cardinality(EndsOf(f, c)) + Cardinality(ServedOf(q, c))
           AddsUp(f, q, c) == /\ Got(f, q, c) <= Cardinality(StartsOf(f, c))
                              /\ c \notin cl => Got(f, q, c) = Cardinality(StartsOf(f, c))
<1> SUFFICES ASSUME NEW c \in Connections
             PROVE  AddsUp(e, r2, c)
  BY DEF CallsAddUp
<1>1. r2[s] = w /\ \A q \in Slots : q # s => r2[q] = r[q]
  OBVIOUS
<1>2. /\ StartsOf(e, c) = StartsOf(d, c) \cup
             (IF x.conn = c /\ x.event = "tool_call_started" THEN {n} ELSE {})
      /\ EndsOf(e, c) = EndsOf(d, c) \cup (IF x.conn = c /\ x.event = "tool_call" THEN {n} ELSE {})
  BY PositionsAdded
<1> HIDE DEF r2, e
<1>3. AddsUp(d, r, c)
  BY DEF CallsAddUp
<1>4. EndsOf(e, c) = EndsOf(d, c)
  BY <1>2
<1>5. n \notin StartsOf(d, c) /\ s \notin ServedOf(r, c) /\ None # c
  BY OfFinite DEF ServedOf
<1>6. CASE x.conn = c
  <2>1. StartsOf(e, c) = StartsOf(d, c) \cup {n}
    BY <1>2, <1>6
  <2>2. ServedOf(r2, c) = ServedOf(r, c) \cup {s}
    BY <1>1, <1>6 DEF ServedOf
  <2>3. Cardinality(StartsOf(e, c)) = Cardinality(StartsOf(d, c)) + 1
    BY <1>5, <2>1, OfFinite, FS_AddElement
  <2>4. Cardinality(ServedOf(r2, c)) = Cardinality(ServedOf(r, c)) + 1
    BY <1>5, <2>2, ServedFinite, FS_AddElement
  <2> QED
    BY <1>3, <1>4, <2>3, <2>4, OfFinite, ServedFinite
<1>7. CASE x.conn # c
  <2>1. StartsOf(e, c) = StartsOf(d, c)
    BY <1>2, <1>7
  <2>2. ServedOf(r2, c) = ServedOf(r, c)
    BY <1>1, <1>5, <1>7 DEF ServedOf
  <2> QED
    BY <1>3, <1>4, <2>1, <2>2
<1> QED
  BY <1>6, <1>7

LEMMA CallsEnded ==
    ASSUME NEW d \in Seq(Record), NEW x \in Record, NEW r \in [Slots -> Request], NEW s \in Slots,
           NEW cl, CallsAddUp(d, r, cl), x.event = "tool_call", x.conn = r[s].conn
    PROVE  CallsAddUp(Append(d, x), [r EXCEPT ![s] = NoRequest], cl)
<1> DEFINE r2 == [r EXCEPT ![s] = NoRequest]
           e  == Append(d, x)
           n  == Len(d) + 1
<1> DEFINE Got(f, q, c) == Cardinality(EndsOf(f, c)) + Cardinality(ServedOf(q, c))
           AddsUp(f, q, c) == /\ Got(f, q, c) <= Cardinality(StartsOf(f, c))
                              /\ c \notin cl => Got(f, q, c) = Cardinality(StartsOf(f, c))
<1> SUFFICES ASSUME NEW c \in Connections
             PROVE  AddsUp(e, r2, c)
  BY DEF CallsAddUp
<1>1. r2[s] = NoRequest /\ \A q \in Slots : q # s => r2[q] = r[q]
  OBVIOUS
<1>2. /\ StartsOf(e, c) = StartsOf(d, c) \cup
             (IF x.conn = c /\ x.event = "tool_call_started" THEN {n} ELSE {})
      /\ EndsOf(e, c) = EndsOf(d, c) \cup (IF x.conn = c /\ x.event = "tool_call" THEN {n} ELSE {})
  BY PositionsAdded
<1>3. NoRequest.conn = None /\ None # c
  BY DEF NoRequest
<1> HIDE DEF r2, e
<1>4. AddsUp(d, r, c)
  BY DEF CallsAddUp
<1>5. StartsOf(e, c) = StartsOf(d, c)
  BY <1>2
<1>6. n \notin EndsOf(d, c)
  BY OfFinite
<1>7. CASE x.conn = c
  <2>1. EndsOf(e, c) = EndsOf(d, c) \cup {n}
    BY <1>2, <1>7
  <2>2. ServedOf(r2, c) = ServedOf(r, c) \ {s} /\ s \in ServedOf(r, c)
    BY <1>1, <1>3, <1>7 DEF ServedOf
  <2>3. Cardinality(EndsOf(e, c)) = Cardinality(EndsOf(d, c)) + 1
    BY <1>6, <2>1, OfFinite, FS_AddElement
  <2>4. Cardinality(ServedOf(r2, c)) = Cardinality(ServedOf(r, c)) - 1
    <3>1. IsFiniteSet(ServedOf(r, c))
      BY ServedFinite
    <3>2. Cardinality(ServedOf(r, c) \ {s}) =
              IF s \in ServedOf(r, c) THEN Cardinality(ServedOf(r, c)) - 1 ELSE Cardinality(ServedOf(r, c))
      BY <3>1, FS_RemoveElement
    <3> QED
      BY <2>2, <3>2
  <2> QED
    BY <1>4, <1>5, <2>3, <2>4, OfFinite, ServedFinite
<1>8. CASE x.conn # c
  <2>1. EndsOf(e, c) = EndsOf(d, c)
    BY <1>2, <1>8
  <2>2. ServedOf(r2, c) = ServedOf(r, c)
    BY <1>1, <1>3, <1>8 DEF ServedOf
  <2> QED
    BY <1>4, <1>5, <2>1, <2>2
<1> QED
  BY <1>7, <1>8

----------------------------------------------------------------------------
(* The list of upstream calls. *)

Shown(made) == IF Len(made) <= UpstreamCap THEN made
               ELSE Append(SubSeq(made, 1, UpstreamCap), "omitted")

Outcomes == {"ok", "error", "omitted"}

LEMMA ShownFits ==
    ASSUME NEW made \in Seq(Outcomes)
    PROVE  Shown(made) \in Seq(Outcomes) /\ Len(Shown(made)) <= UpstreamCap + 1
<1>0. UpstreamCap \in Nat /\ Len(made) \in Nat
  OBVIOUS
<1>1. CASE Len(made) <= UpstreamCap
  BY <1>0, <1>1 DEF Shown
<1>2. CASE Len(made) > UpstreamCap
  <2> DEFINE first == SubSeq(made, 1, UpstreamCap)
  <2>1. \A k \in 1..UpstreamCap : made[k] \in Outcomes
    BY <1>0, <1>2
  <2>2. first \in Seq(Outcomes) /\ Len(first) = UpstreamCap
    BY <1>0, <2>1, SubSeqProperties
  <2> HIDE DEF first
  <2>3. Append(first, "omitted") \in Seq(Outcomes) /\ Len(Append(first, "omitted")) = UpstreamCap + 1
    BY <2>2, AppendProperties DEF Outcomes
  <2> QED
    BY <1>0, <1>2, <2>3 DEF Shown, first
<1> QED
  BY <1>0, <1>1, <1>2

\* The first calls stay the first.
LEMMA FirstStay ==
    ASSUME NEW made \in Seq(Outcomes), NEW o \in Outcomes, Len(made) >= UpstreamCap
    PROVE  SubSeq(Append(made, o), 1, UpstreamCap) = SubSeq(made, 1, UpstreamCap)
<1> DEFINE more == Append(made, o)
<1>0. UpstreamCap \in Nat /\ Len(made) \in Nat
  OBVIOUS
<1>1. \A k \in 1..Len(made) : more[k] = made[k] /\ made[k] \in Outcomes
  BY Appended
<1> HIDE DEF more
<1>2. \A k \in 1..UpstreamCap : more[k] = made[k] /\ made[k] \in Outcomes
  BY <1>0, <1>1
<1>3. /\ SubSeq(more, 1, UpstreamCap) \in Seq(Outcomes) /\ Len(SubSeq(more, 1, UpstreamCap)) = UpstreamCap
      /\ \A k \in 1..UpstreamCap : SubSeq(more, 1, UpstreamCap)[k] = more[k]
  BY <1>0, <1>2, SubSeqProperties
<1>4. /\ SubSeq(made, 1, UpstreamCap) \in Seq(Outcomes) /\ Len(SubSeq(made, 1, UpstreamCap)) = UpstreamCap
      /\ \A k \in 1..UpstreamCap : SubSeq(made, 1, UpstreamCap)[k] = made[k]
  BY <1>0, <1>2, SubSeqProperties
<1>5. SubSeq(more, 1, UpstreamCap) = SubSeq(made, 1, UpstreamCap)
  BY <1>2, <1>3, <1>4, SeqEqual
<1> QED
  BY <1>5 DEF more

LEMMA AttachShows ==
    ASSUME NEW made \in Seq(Outcomes), NEW o \in Outcomes
    PROVE  Attach(Shown(made), o) = Shown(Append(made, o))
<1> DEFINE more == Append(made, o)
           first == SubSeq(made, 1, UpstreamCap)
<1>0. UpstreamCap \in Nat /\ Len(made) \in Nat /\ Len(more) = Len(made) + 1
  BY Appended
<1>1. Len(made) >= UpstreamCap => SubSeq(more, 1, UpstreamCap) = first
  BY FirstStay
<1>2. CASE Len(made) < UpstreamCap
  BY <1>0, <1>2 DEF Attach, Shown
<1>3. CASE Len(made) = UpstreamCap
  <2>1. first = made
    BY <1>3, SubSeqFull
  <2> HIDE DEF more, first
  <2>2. Shown(more) = Append(made, "omitted")
    BY <1>0, <1>1, <1>3, <2>1 DEF Shown
  <2>3. Shown(made) = made
    BY <1>0, <1>3 DEF Shown
  <2>4. Attach(made, o) = Append(made, "omitted")
    BY <1>0, <1>3 DEF Attach
  <2> QED
    BY <2>2, <2>3, <2>4 DEF more
<1>4. CASE Len(made) > UpstreamCap
  <2>1. Shown(more) = Shown(made)
    <3> HIDE DEF more
    <3>1. Shown(more) = Append(first, "omitted")
      BY <1>0, <1>1, <1>4 DEF Shown
    <3>2. Shown(made) = Append(first, "omitted")
      BY <1>0, <1>4 DEF Shown
    <3> QED
      BY <3>1, <3>2
  <2>2. Len(Shown(made)) = UpstreamCap + 1
    <3>1. \A k \in 1..UpstreamCap : made[k] \in Outcomes
      BY <1>0, <1>4
    <3>2. /\ SubSeq(made, 1, UpstreamCap) \in Seq(Outcomes)
          /\ Len(SubSeq(made, 1, UpstreamCap)) = UpstreamCap
      BY <1>0, <3>1, SubSeqProperties
    <3> QED
      BY <1>0, <1>4, <3>2, AppendProperties DEF Shown, Outcomes
  <2> QED
    BY <1>0, <2>1, <2>2 DEF Attach
<1> QED
  BY <1>0, <1>2, <1>3, <1>4

LEMMA OwnIsShown ==
    UpstreamIsOwn <=> \A s \in Slots : request[s].calls = Shown(request[s].made)
  BY DEF UpstreamIsOwn, Shown

----------------------------------------------------------------------------
(* What the steps write. *)

LEMMA NoRequestIs ==
    /\ NoRequest \in Request /\ ~Busy(NoRequest) /\ NoRequest.pc = "idle"
    /\ NoRequest.conn = None /\ NoRequest.session = None /\ NoRequest.id = None
    /\ NoRequest.calls = <<>> /\ NoRequest.made = <<>> /\ NoRequest.names = {} /\ NoRequest.answer = {}
<1>1. <<>> \in Seq({"ok", "error", "omitted"}) /\ <<>> \in Seq({"ok", "error"})
  BY EmptySeq
<1> QED
  BY <1>1 DEF NoRequest, Request, Busy, SomeConn, Session, SomeId

Events == {"mcp_request", "tool_call_started", "tool_call", "upstream_call",
           "approval_ignored", "approval_failed"}

LEMMA LineIs ==
    ASSUME NEW event \in Events, NEW r \in Request, NEW o \in {None, "ok", "error"}
    PROVE  LET x == Line(event, r, o)
           IN  /\ x \in Record
               /\ x.event = event /\ x.session = r.session /\ x.id = r.id /\ x.conn = r.conn
               /\ x.tool = r.tool /\ x.outcome = o /\ (x.failed <=> r.pc = "failing")
  BY DEF Line, Request, Record, Events

LEMMA ShownEmpty == <<>> = Shown(<<>>) /\ Len(<<>>) <= UpstreamCap + 1
  BY DEF Shown

\* Traces stay what they were when a client moves on.
LEMMA TracesForward ==
    ASSUME NEW t, NEW m, NEW l, NEW m2, NEW l2, Forward(m, l, m2, l2), TracesAreOwn(t, m, l)
    PROVE  TracesAreOwn(t, m2, l2)
  BY IdsStay DEF TracesAreOwn

\* The next id of a connection is new.
LEMMA IdsFresh ==
    ASSUME NEW x, NEW y, NEW m, NEW l, NEW c \in Connections, l[c] \in Nat,
           HoldsIds(x, m, l), y.conn = c, y.id = l[c] + 1
    PROVE  ~SameCall(x, y)
  BY DEF HoldsIds, SameCall

LEMMA NumbersKnown ==
    ToolCallsInv => Numbers = OrdersOf(trail) /\ Numbers \subseteq Nat /\ Orders \subseteq Nat
<1> SUFFICES ASSUME TypeOK PROVE Numbers = OrdersOf(trail) /\ Numbers \subseteq Nat /\ Orders \subseteq Nat
  BY DEF ToolCallsInv
<1>1. \A k \in 1..Len(trail) : trail[k].order \in Nat
  <2> DEFINE Traced == [event : AuditEvents, order : Nat, session : Session, id : SomeId,
                        conn : SomeConn, own : SomeId]
  <2>1. trail \in Seq(Traced)
    BY DEF TypeOK
  <2>2. \A e \in Traced : e.order \in Nat
    OBVIOUS
  <2> HIDE DEF Traced
  <2>3. \A k \in 1..Len(trail) : trail[k] \in Traced
    BY <2>1
  <2> QED
    BY <2>2, <2>3
<1>2. Orders \subseteq Nat
  BY DEF Orders
<1> QED
  BY <1>1, <1>2 DEF Numbers, OrdersOf

----------------------------------------------------------------------------
(* The steps. *)

LEMMA InitHolds == Init => ToolCallsInv
<1> SUFFICES ASSUME Init PROVE ToolCallsInv
  OBVIOUS
<1>1. diag = <<>> /\ trail = <<>> /\ Len(<<>>) = 0 /\ 1..Len(<<>>) = {}
  BY EmptySeq DEF Init
<1>2. \A s \in Slots : request[s] = NoRequest
  BY DEF Init
<1>3. TypeOK
  <2>1. request \in [Slots -> Request] /\ \A s \in Slots : Len(request[s].calls) <= UpstreamCap + 1
    BY NoRequestIs, ShownEmpty DEF Init
  <2>2. diag \in Seq(Record)
    BY EmptySeq DEF Init
  <2>3. trail \in Seq([event : AuditEvents, order : Nat, session : Session, id : SomeId,
                        conn : SomeConn, own : SomeId])
    BY EmptySeq DEF Init
  <2>4. page \in [pc : {"idle", "submitted", "rejected"}, order : SomeId, outcome : {None, "ok", "error"}]
    BY DEF Init, NoClick, SomeId
  <2>5. minted \in [Connections -> SomeId] /\ lastId \in [Connections -> Nat]
    BY DEF Init, SomeId
  <2>6. messages \in 0..MaxMessages /\ clicks \in 0..MaxClicks /\ restarts \in 0..MaxRestarts
    BY DEF Init
  <2>7. closed \subseteq Connections /\ ledger \in Seq({"pending_approval", "submitted", "rejected"})
    BY EmptySeq DEF Init
  <2> QED
    BY <2>1, <2>2, <2>3, <2>4, <2>5, <2>6, <2>7 DEF TypeOK
<1>4. SessionsApart(minted, messages)
  BY DEF Init, SessionsApart
<1>5. IdsAreOwn(diag, request, minted, lastId)
  BY <1>1, <1>2, NoRequestIs DEF IdsAreOwn
<1>6. Pairs(diag, request)
  BY <1>1, <1>2, NoRequestIs
  DEF Pairs, RequestsApart, StartsApart, EndsApart, ServedHasStart, EndHasStart, EndedIsOver,
      CallsHaveConn, Starts, Ends
<1>7. UpstreamIsOwn
  BY <1>2, NoRequestIs, ShownEmpty, OwnIsShown
<1>8. FailsLogged(diag, request) /\ FailuresAreErrors(diag)
  BY <1>1, <1>2, NoRequestIs DEF FailsLogged, FailuresAreErrors
<1>9. CallsAddUp(diag, request, closed)
  <2>1. ASSUME NEW c \in Connections
        PROVE  EndsOf(diag, c) = {} /\ StartsOf(diag, c) = {} /\ ServedOf(request, c) = {}
    BY <1>1, <1>2, NoRequestIs DEF EndsOf, StartsOf, ServedOf
  <2>2. Cardinality({}) = 0
    BY FS_EmptySet
  <2>3. ASSUME NEW c \in Connections
        PROVE  /\ Cardinality(EndsOf(diag, c)) + Cardinality(ServedOf(request, c)) = Cardinality(StartsOf(diag, c))
               /\ Cardinality(EndsOf(diag, c)) + Cardinality(ServedOf(request, c)) <= Cardinality(StartsOf(diag, c))
    <3>1. /\ Cardinality(EndsOf(diag, c)) = 0 /\ Cardinality(ServedOf(request, c)) = 0
          /\ Cardinality(StartsOf(diag, c)) = 0
      BY <2>1, <2>2, Zenon
    <3> QED
      BY <3>1
  <2> QED
    BY <2>3 DEF CallsAddUp
<1>10. TracesAreOwn(trail, minted, lastId) /\ PageKnowsOrder
  BY <1>1 DEF TracesAreOwn, Proposed, PageKnowsOrder, Init, NoClick
<1>11. RunsApart(trail, ledger, closed)
  BY <1>1 DEF RunsApart, Proposed
<1> QED
  BY <1>3, <1>4, <1>5, <1>6, <1>7, <1>8, <1>9, <1>10, <1>11 DEF ToolCallsInv

LEMMA LogPlainKeeps ==
    ASSUME ToolCallsInv, NEW c \in Connections, NEW o \in {"ok", "error"}, LogPlain(c, o)
    PROVE  ToolCallsInv'
<1> DEFINE w == [NoRequest EXCEPT !.session = SessionOf(c), !.id = lastId'[c], !.conn = c]
           x == Line("mcp_request", w, o)
<1>1. /\ Forward(minted, lastId, minted', lastId')
      /\ Met(c, minted') /\ SessionOf(c) = SessionId(c, minted')
      /\ SessionOf(c) \in Session /\ SessionOf(c) # None
      /\ SessionsApart(minted', messages')
      /\ minted' \in [Connections -> SomeId] /\ lastId' \in [Connections -> Nat]
      /\ messages' \in 0..MaxMessages
      /\ lastId'[c] = lastId[c] + 1 /\ lastId[c] \in Nat
  BY ReceiveIsForward DEF LogPlain, ToolCallsInv
<1>2. /\ w \in Request /\ w.session = SessionOf(c) /\ w.id = lastId'[c] /\ w.conn = c
      /\ w.pc = "idle"
  BY <1>1, NoRequestIs DEF Request, SomeId, SomeConn
<1>3. diag' = Append(diag, x) /\ UNCHANGED <<closed, request, trail, ledger, page, clicks, restarts>>
  BY DEF LogPlain
<1> HIDE DEF w
<1>4. /\ x \in Record /\ x.event = "mcp_request" /\ x.session = SessionOf(c)
      /\ x.id = lastId'[c] /\ x.conn = c /\ ~x.failed
  BY <1>2, LineIs DEF Events
<1> HIDE DEF x
<1>5. HoldsIds(x, minted', lastId')
  BY <1>1, <1>4 DEF HoldsIds
<1>6. diag \in Seq(Record)
  BY DEF ToolCallsInv, TypeOK
<1>7. TypeOK'
  BY <1>1, <1>3, <1>4, <1>6, Appended DEF ToolCallsInv, TypeOK
<1>8. IdsAreOwn(diag', request', minted', lastId')
  BY <1>1, <1>3, <1>4, <1>5, <1>6, IdsForward, IdsAdded DEF ToolCallsInv
<1>9. Pairs(diag', request') /\ CallsAddUp(diag', request', closed')
  BY <1>3, <1>4, <1>6, PairsAdded, CallsAdded DEF ToolCallsInv
<1>10. FailsLogged(diag', request') /\ FailuresAreErrors(diag')
  BY <1>3, <1>4, <1>6, FailsUnmoved, FailuresAdded DEF ToolCallsInv
<1>11. UpstreamIsOwn' /\ PageKnowsOrder'
  BY <1>3 DEF ToolCallsInv, UpstreamIsOwn, PageKnowsOrder
<1>12. TracesAreOwn(trail', minted', lastId') /\ RunsApart(trail', ledger', closed')
  BY <1>1, <1>3, TracesForward DEF ToolCallsInv
<1> QED
  BY <1>1, <1>7, <1>8, <1>9, <1>10, <1>11, <1>12 DEF ToolCallsInv

LEMMA StartCallKeeps ==
    ASSUME ToolCallsInv, NEW s \in Slots, NEW c \in Connections, NEW tool \in Tools,
           NEW names \in Asks(tool), StartCall(s, c, tool, names)
    PROVE  ToolCallsInv'
<1> DEFINE w == [NoRequest EXCEPT !.pc = "serving", !.conn = c, !.session = SessionOf(c),
                                  !.id = lastId'[c], !.tool = tool, !.names = names]
           x == Line("tool_call_started", w, None)
<1>1. /\ Forward(minted, lastId, minted', lastId')
      /\ Met(c, minted') /\ SessionOf(c) = SessionId(c, minted')
      /\ SessionOf(c) \in Session /\ SessionOf(c) # None
      /\ SessionsApart(minted', messages')
      /\ minted' \in [Connections -> SomeId] /\ lastId' \in [Connections -> Nat]
      /\ messages' \in 0..MaxMessages
      /\ lastId'[c] = lastId[c] + 1 /\ lastId[c] \in Nat
  BY ReceiveIsForward DEF StartCall, ToolCallsInv
<1>2. names \in SUBSET Nat
  <2>1. Numbers \subseteq Nat
    BY NumbersKnown
  <2> QED
    BY <2>1 DEF Asks
<1>3. /\ w \in Request /\ w.session = SessionOf(c) /\ w.id = lastId'[c] /\ w.conn = c
      /\ w.tool = tool /\ w.pc = "serving" /\ w.made = <<>> /\ w.calls = <<>>
  BY <1>1, <1>2, NoRequestIs DEF Request, SomeId, SomeConn
<1>4. /\ request' = [request EXCEPT ![s] = w] /\ request[s].pc = "idle"
      /\ diag' = Append(diag, x) /\ UNCHANGED <<closed, trail, ledger, page, clicks, restarts>>
  BY DEF StartCall
<1> HIDE DEF w
<1>5. /\ x \in Record /\ x.event = "tool_call_started" /\ x.session = SessionOf(c)
      /\ x.id = lastId'[c] /\ x.conn = c /\ x.tool = tool /\ ~x.failed
  BY <1>3, LineIs DEF Events
<1> HIDE DEF x
<1>6. HoldsIds(x, minted', lastId') /\ HoldsIds(w, minted', lastId') /\ c # None
  BY <1>1, <1>3, <1>5 DEF HoldsIds
<1>7. diag \in Seq(Record) /\ request \in [Slots -> Request] /\ messages' \in Nat
  BY <1>1 DEF ToolCallsInv, TypeOK
<1>8. Busy(w) /\ ~Busy(request[s]) /\ request[s].conn = None
  BY <1>3, <1>4, NoRequestIs DEF Busy, ToolCallsInv, IdsAreOwn
<1>9. TypeOK'
  BY <1>1, <1>3, <1>4, <1>5, <1>7, Appended, ShownEmpty DEF ToolCallsInv, TypeOK
<1>10. IdsAreOwn(diag, request, minted', lastId')
  BY <1>1, IdsForward DEF ToolCallsInv
<1>11. IdsAreOwn(diag', request', minted', lastId')
  <2>1. IdsAreOwn(diag', request, minted', lastId')
    BY <1>4, <1>5, <1>6, <1>7, <1>10, IdsAdded
  <2> QED
    BY <1>3, <1>4, <1>6, <1>7, <1>8, <2>1, IdsMoved
\* The ids are new.
<1>12. \A k \in 1..Len(diag) : ~SameCall(diag[k], x) /\ ~SameRequest(diag[k], w)
  <2> SUFFICES ASSUME NEW k \in 1..Len(diag)
               PROVE  ~SameCall(diag[k], x) /\ ~SameRequest(diag[k], w)
    OBVIOUS
  <2>1. HoldsIds(diag[k], minted, lastId) /\ HoldsIds(diag[k], minted', lastId')
    BY <1>10 DEF ToolCallsInv, IdsAreOwn
  <2>2. ~SameCall(diag[k], x) /\ ~SameCall(diag[k], w)
    BY <1>1, <1>3, <1>5, <2>1, IdsFresh
  <2> QED
    BY <1>1, <1>6, <1>7, <2>1, <2>2, IdsIdentify
<1>13. \A q \in Slots : Busy(request[q]) => ~SameCall(request[q], x)
  <2> SUFFICES ASSUME NEW q \in Slots, Busy(request[q]) PROVE ~SameCall(request[q], x)
    OBVIOUS
  <2>1. HoldsIds(request[q], minted, lastId)
    BY DEF ToolCallsInv, IdsAreOwn
  <2> QED
    BY <1>1, <1>5, <2>1, IdsFresh
<1>14. Pairs(diag', request')
  <2>1. SameCall(x, w) /\ x.tool = w.tool
    BY <1>3, <1>5 DEF SameCall
  <2> QED
    BY <1>4, <1>5, <1>6, <1>7, <1>8, <1>12, <1>13, <2>1, PairsStarted DEF ToolCallsInv
<1>15. CallsAddUp(diag', request', closed')
  BY <1>3, <1>4, <1>5, <1>7, <1>8, CallsStarted DEF ToolCallsInv
<1>16. FailsLogged(diag', request')
  <2>1. FailsLogged(diag, request')
    BY <1>3, <1>4, <1>7, <1>12, FailsStarted DEF ToolCallsInv
  <2> QED
    BY <1>4, <1>5, <1>7, <2>1, FailsUnmoved
<1>17. FailuresAreErrors(diag')
  BY <1>4, <1>5, <1>7, FailuresAdded DEF ToolCallsInv
<1>18. UpstreamIsOwn'
  BY <1>3, <1>4, <1>7, ShownEmpty, OwnIsShown DEF ToolCallsInv, UpstreamIsOwn, Shown
<1>19. TracesAreOwn(trail', minted', lastId') /\ RunsApart(trail', ledger', closed') /\ PageKnowsOrder'
  BY <1>1, <1>4, TracesForward DEF ToolCallsInv, PageKnowsOrder
<1> QED
  BY <1>1, <1>9, <1>11, <1>14, <1>15, <1>16, <1>17, <1>18, <1>19 DEF ToolCallsInv

\* A request that moves on, without a line.
LEMMA MovesKeep ==
    ASSUME ToolCallsInv, NEW s \in Slots, NEW w \in Request, Busy(request[s]), Busy(w),
           w.conn = request[s].conn, w.session = request[s].session, w.id = request[s].id,
           w.tool = request[s].tool, w.calls = request[s].calls, w.made = request[s].made,
           request' = [request EXCEPT ![s] = w], UNCHANGED <<minted, lastId, closed, diag, page, messages, clicks, restarts>>
    PROVE  /\ TypeOK' <=> /\ trail' \in Seq([event : AuditEvents, order : Nat, session : Session, id : SomeId,
                                             conn : SomeConn, own : SomeId])
                       /\ ledger' \in Seq({"pending_approval", "submitted", "rejected"})
           /\ SessionsApart(minted', messages') /\ IdsAreOwn(diag', request', minted', lastId')
           /\ Pairs(diag', request') /\ UpstreamIsOwn'
           /\ FailsLogged(diag', request') /\ FailuresAreErrors(diag') /\ CallsAddUp(diag', request', closed')
<1>1. request \in [Slots -> Request]
  BY DEF ToolCallsInv, TypeOK
<1>2. TypeOK' <=> /\ trail' \in Seq([event : AuditEvents, order : Nat, session : Session, id : SomeId,
                                     conn : SomeConn, own : SomeId])
                  /\ ledger' \in Seq({"pending_approval", "submitted", "rejected"})
  BY DEF ToolCallsInv, TypeOK
<1>3. IdsAreOwn(diag, request', minted, lastId)
  <2>1. w.conn # None /\ HoldsIds(w, minted, lastId)
    BY DEF ToolCallsInv, IdsAreOwn, HoldsIds
  <2> QED
    BY <1>1, <2>1, IdsMoved DEF ToolCallsInv
<1>4. Pairs(diag, request') /\ CallsAddUp(diag, request', closed) /\ FailsLogged(diag, request')
  BY <1>1, PairsMoved, CallsMoved, FailsMoved DEF ToolCallsInv, SameCall
<1>5. UpstreamIsOwn'
  <2>1. \A q \in Slots : request'[q].calls = request[q].calls /\ request'[q].made = request[q].made
    BY <1>1
  <2> QED
    BY <2>1 DEF ToolCallsInv, UpstreamIsOwn
<1> QED
  BY <1>2, <1>3, <1>4, <1>5 DEF ToolCallsInv

LEMMA BodyFailsKeeps ==
    ASSUME ToolCallsInv, NEW s \in Slots, BodyFails(s)
    PROVE  ToolCallsInv'
<1> DEFINE w == [request[s] EXCEPT !.pc = "failing"]
<1>1. request[s] \in Request
  BY DEF ToolCallsInv, TypeOK
<1>2. /\ w \in Request /\ w.pc = "failing" /\ w.conn = request[s].conn /\ w.session = request[s].session
      /\ w.id = request[s].id /\ w.tool = request[s].tool /\ w.calls = request[s].calls
      /\ w.made = request[s].made
  BY <1>1 DEF Request
<1>3. request' = [request EXCEPT ![s] = w] /\ Busy(request[s])
  BY DEF BodyFails, Busy
<1>4. UNCHANGED <<minted, lastId, closed, diag, trail, ledger, page, messages, clicks, restarts>>
  BY DEF BodyFails
<1> HIDE DEF w
<1>5. Busy(w)
  BY <1>2 DEF Busy
<1>6. TracesAreOwn(trail', minted', lastId') /\ RunsApart(trail', ledger', closed') /\ PageKnowsOrder'
  BY <1>4 DEF ToolCallsInv, PageKnowsOrder
<1> QED
  BY <1>2, <1>3, <1>4, <1>5, <1>6, MovesKeep DEF ToolCallsInv, TypeOK

LEMMA BodyReturnsKeeps ==
    ASSUME ToolCallsInv, NEW s \in Slots, NEW listed \in SUBSET Orders, BodyReturns(s, listed)
    PROVE  ToolCallsInv'
<1> DEFINE w == [request[s] EXCEPT !.pc = "returning", !.answer = listed]
<1>1. request[s] \in Request
  BY DEF ToolCallsInv, TypeOK
<1>2. Orders \subseteq Nat
  BY NumbersKnown
<1>3. /\ w \in Request /\ w.pc = "returning" /\ w.conn = request[s].conn /\ w.session = request[s].session
      /\ w.id = request[s].id /\ w.tool = request[s].tool /\ w.calls = request[s].calls
      /\ w.made = request[s].made
  BY <1>1, <1>2 DEF Request
<1>4. request' = [request EXCEPT ![s] = w] /\ Busy(request[s])
  BY DEF BodyReturns, Busy
<1>5. UNCHANGED <<minted, lastId, closed, diag, trail, ledger, page, messages, clicks, restarts>>
  BY DEF BodyReturns
<1> HIDE DEF w
<1>6. Busy(w)
  BY <1>3 DEF Busy
<1>7. TracesAreOwn(trail', minted', lastId') /\ RunsApart(trail', ledger', closed') /\ PageKnowsOrder'
  BY <1>5 DEF ToolCallsInv, PageKnowsOrder
<1> QED
  BY <1>3, <1>4, <1>5, <1>6, <1>7, MovesKeep DEF ToolCallsInv, TypeOK

\* The order is new, and the trace is that of the request.
LEMMA ProposeKeeps ==
    ASSUME ToolCallsInv, NEW s \in Slots, NEW listed \in SUBSET Orders, Propose(s, listed)
    PROVE  ToolCallsInv'
<1> DEFINE o == Len(ledger) + 1
           w == [request[s] EXCEPT !.pc = "returning", !.answer = {o} \cup listed]
           p == [event |-> "order_proposed", order |-> o, session |-> request[s].session,
                 id |-> request[s].id, conn |-> request[s].conn, own |-> request[s].id]
           Traced == [event : AuditEvents, order : Nat, session : Session, id : SomeId,
                      conn : SomeConn, own : SomeId]
           n == Len(trail) + 1
<1>1. request[s] \in Request /\ trail \in Seq(Traced)
  BY DEF ToolCallsInv, TypeOK
<1>2. /\ o \in Nat \ {0} /\ Orders \subseteq Nat /\ ledger' = Append(ledger, "pending_approval")
      /\ ledger' \in Seq({"pending_approval", "submitted", "rejected"})
      /\ 1..Len(ledger') = 1..Len(ledger) \cup {o} /\ o \notin 1..Len(ledger)
  <2>1. ledger \in Seq({"pending_approval", "submitted", "rejected"})
    BY DEF ToolCallsInv, TypeOK
  <2>2. ledger' = Append(ledger, "pending_approval")
    BY DEF Propose
  <2> QED
    BY <2>1, <2>2, NumbersKnown, Appended
<1>3. /\ request' = [request EXCEPT ![s] = w] /\ request[s].pc = "serving" /\ trail' = Append(trail, p)
      /\ UNCHANGED <<minted, lastId, closed, diag, page, messages, clicks, restarts>>
  BY DEF Propose, Scope
<1> HIDE DEF o
<1>4. /\ w \in Request /\ w.pc = "returning" /\ w.conn = request[s].conn /\ w.session = request[s].session
      /\ w.id = request[s].id /\ w.tool = request[s].tool /\ w.calls = request[s].calls
      /\ w.made = request[s].made
  BY <1>1, <1>2 DEF Request
<1>5. /\ p \in Traced /\ p.event = "order_proposed" /\ p.order = o /\ p.session = request[s].session
      /\ p.id = request[s].id /\ p.conn = request[s].conn /\ p.own = request[s].id
  BY <1>1, <1>2 DEF Request, AuditEvents
<1> HIDE DEF w, p
<1>6. Busy(request[s]) /\ Busy(w)
  BY <1>3, <1>4 DEF Busy
<1>7. /\ trail' \in Seq(Traced) /\ 1..Len(trail') = 1..Len(trail) \cup {n} /\ n \notin 1..Len(trail)
      /\ \A k \in 1..Len(trail) : trail'[k] = trail[k]
      /\ trail'[n] = p
  BY <1>1, <1>3, <1>5, Appended
<1> HIDE DEF n
<1>8. Proposed(trail') = Proposed(trail) \cup {n} /\ Proposed(trail) \subseteq 1..Len(trail)
  BY <1>5, <1>7 DEF Proposed
<1>9. OrdersOf(trail') = OrdersOf(trail) \cup {o}
  <2>1. \A k \in 1..Len(trail') : trail'[k].order \in OrdersOf(trail) \cup {o}
    BY <1>5, <1>7 DEF OrdersOf
  <2>2. \A k \in 1..Len(trail) : trail[k].order \in OrdersOf(trail')
    <3> SUFFICES ASSUME NEW k \in 1..Len(trail) PROVE trail[k].order \in OrdersOf(trail')
      OBVIOUS
    <3>1. k \in 1..Len(trail') /\ trail'[k].order = trail[k].order
      BY <1>7
    <3> QED
      BY <3>1 DEF OrdersOf
  <2>3. o \in OrdersOf(trail')
    <3>1. n \in 1..Len(trail') /\ trail'[n].order = o
      BY <1>5, <1>7
    <3> QED
      BY <3>1 DEF OrdersOf
  <2> QED
    BY <2>1, <2>2, <2>3 DEF OrdersOf
<1>11. RunsApart(trail', ledger', closed')
  <2>1. /\ \A q \in Proposed(trail) : trail[q].conn \in closed \/ trail[q].order \in 1..Len(ledger)
        /\ \A i, j \in Proposed(trail) :
              trail[i].order = trail[j].order => i = j \/ trail[i].conn \in closed \/ trail[j].conn \in closed
    BY DEF ToolCallsInv, RunsApart
  <2>2. \A q \in Proposed(trail') : trail'[q].conn \in closed \/ trail'[q].order \in 1..Len(ledger')
    BY <1>2, <1>5, <1>7, <1>8, <2>1
  <2>3. \A i, j \in Proposed(trail') :
            trail'[i].order = trail'[j].order => i = j \/ trail'[i].conn \in closed \/ trail'[j].conn \in closed
    <3>1. ASSUME NEW i \in Proposed(trail)
          PROVE  /\ trail'[i] = trail[i]
                 /\ trail'[i].order = trail'[n].order => trail'[i].conn \in closed
      BY <1>2, <1>5, <1>7, <1>8, <2>1
    <3> QED
      BY <1>8, <2>1, <3>1
  <2> QED
    BY <1>3, <2>2, <2>3 DEF RunsApart
<1>12. TracesAreOwn(trail', minted', lastId')
  <2>1. request[s].conn # None /\ HoldsIds(request[s], minted, lastId)
    BY <1>6 DEF ToolCallsInv, IdsAreOwn
  <2>2. HoldsIds(p, minted, lastId)
    BY <1>5, <2>1 DEF HoldsIds
  <2> QED
    BY <1>3, <1>5, <1>7, <1>8, <2>1, <2>2 DEF ToolCallsInv, TracesAreOwn
<1>13. PageKnowsOrder'
  BY <1>3, <1>9 DEF ToolCallsInv, PageKnowsOrder
<1> QED
  BY <1>2, <1>3, <1>4, <1>6, <1>7, <1>11, <1>12, <1>13, MovesKeep DEF ToolCallsInv

\* A StoreLink call ends inside the request it was made in.
LEMMA WrappedKeeps ==
    ASSUME ToolCallsInv, NEW s \in Slots, NEW o \in {"ok", "error"},
           NEW pc \in {"serving", "unwinding", "failing"}, NEW step \in Nat,
           Busy(request[s]), Wrapped(s, o, pc, step)
    PROVE  ToolCallsInv'
<1> DEFINE r == request[s]
           w == [r EXCEPT !.made = Append(r.made, o), !.pc = pc, !.step = step,
                          !.calls = Attach(r.calls, o)]
           x == Line("upstream_call", r, "error")
<1>1. /\ request \in [Slots -> Request] /\ r \in Request /\ diag \in Seq(Record)
      /\ r.made \in Seq({"ok", "error"}) /\ r.made \in Seq(Outcomes)
  <2>1. request \in [Slots -> Request] /\ diag \in Seq(Record)
    BY DEF ToolCallsInv, TypeOK
  <2>2. r \in Request
    BY <2>1
  <2>3. r.made \in Seq({"ok", "error"})
    BY <2>2 DEF Request
  <2>4. r.made \in Seq(Outcomes)
    BY <2>3, SeqMonotonic DEF Outcomes
  <2> QED
    BY <2>1, <2>2, <2>3, <2>4
<1>2. /\ request' = [request EXCEPT ![s] = w] /\ diag' = diag \o LinesOf(s, o)
      /\ UNCHANGED <<minted, lastId, closed, trail, ledger, page, messages, clicks, restarts>>
  <2> DEFINE u   == [r EXCEPT !.made = Append(r.made, o), !.pc = pc, !.step = step]
             own == [request EXCEPT ![s].made = Append(@, o), ![s].pc = pc, ![s].step = step]
  <2>1. own = [request EXCEPT ![s] = u]
    BY <1>1
  <2>2. request' = [own EXCEPT ![s].calls = Attach(@, o)] /\ diag' = diag \o LinesOf(s, o)
    BY DEF Wrapped, Scope
  <2>3. u.calls = r.calls /\ w = [u EXCEPT !.calls = Attach(r.calls, o)]
    BY <1>1 DEF Request
  <2> HIDE DEF own, u, w
  <2>4. own[s] = u /\ \A q \in Slots : q # s => own[q] = request[q]
    BY <1>1, <2>1
  <2>5. request' = [request EXCEPT ![s] = w]
    BY <1>1, <2>1, <2>2, <2>3, <2>4
  <2> QED
    BY <2>2, <2>5 DEF Wrapped
<1>3. /\ Attach(r.calls, o) = Shown(Append(r.made, o)) /\ Append(r.made, o) \in Seq({"ok", "error"})
      /\ Attach(r.calls, o) \in Seq(Outcomes) /\ Len(Attach(r.calls, o)) <= UpstreamCap + 1
  <2>1. r.calls = Shown(r.made) /\ o \in Outcomes
    BY OwnIsShown DEF ToolCallsInv, Outcomes
  <2>2. Append(r.made, o) \in Seq(Outcomes)
    BY <1>1, <2>1, AppendProperties
  <2>3. Append(r.made, o) \in Seq({"ok", "error"})
    BY <1>1, AppendProperties
  <2> QED
    BY <1>1, <2>1, <2>2, <2>3, AttachShows, ShownFits
<1>4. /\ w \in Request /\ w.conn = r.conn /\ w.session = r.session /\ w.id = r.id /\ w.tool = r.tool
      /\ w.calls = Shown(w.made) /\ w.made = Append(r.made, o) /\ w.pc = pc
      /\ Len(w.calls) <= UpstreamCap + 1
  BY <1>1, <1>3 DEF Request, Outcomes
<1>5. /\ x \in Record /\ x.event = "upstream_call" /\ x.session = r.session /\ x.id = r.id
      /\ x.conn = r.conn /\ x.outcome = "error"
  BY <1>1, LineIs DEF Events
<1>6. LinesOf(s, o) = IF o = "error" THEN <<x>> ELSE <<>>
  BY DEF LinesOf
<1>7. diag' = IF o = "error" THEN Append(diag, x) ELSE diag
  BY <1>1, <1>2, <1>5, <1>6, AddedNone, AddedOne
<1> HIDE DEF w, x
<1>8. Busy(w) /\ SameCall(w, r)
  BY <1>4 DEF Busy, SameCall
<1>9. r.conn # None /\ HoldsIds(r, minted, lastId)
  BY DEF ToolCallsInv, IdsAreOwn
<1>10. HoldsIds(w, minted, lastId) /\ HoldsIds(x, minted, lastId)
  BY <1>4, <1>5, <1>9 DEF HoldsIds
<1>11. TypeOK'
  <2>1. diag' \in Seq(Record)
    BY <1>1, <1>5, <1>7, Appended
  <2> QED
    BY <1>1, <1>2, <1>4, <2>1 DEF ToolCallsInv, TypeOK
<1>12. IdsAreOwn(diag', request', minted', lastId')
  <2>1. IdsAreOwn(diag', request, minted, lastId)
    BY <1>1, <1>5, <1>7, <1>10, IdsAdded DEF ToolCallsInv
  <2> QED
    BY <1>1, <1>2, <1>4, <1>8, <1>9, <1>10, <2>1, IdsMoved
<1>13. Pairs(diag', request') /\ CallsAddUp(diag', request', closed')
  <2>1. Pairs(diag', request) /\ CallsAddUp(diag', request, closed)
    BY <1>1, <1>5, <1>7, PairsAdded, CallsAdded DEF ToolCallsInv
  <2> QED
    BY <1>1, <1>2, <1>4, <1>8, <2>1, PairsMoved, CallsMoved
<1>14. FailuresAreErrors(diag')
  BY <1>1, <1>5, <1>7, FailuresAdded DEF ToolCallsInv
<1>15. UpstreamIsOwn'
  <2>1. \A q \in Slots : request'[q].calls = Shown(request'[q].made)
    BY <1>1, <1>2, <1>4, OwnIsShown DEF ToolCallsInv
  <2> QED
    BY <2>1 DEF UpstreamIsOwn, Shown
<1>16. FailsLogged(diag', request')
  <2>1. CASE o = "error"
    <3>1. SameRequest(x, r)
      BY <1>5 DEF SameRequest
    <3>2. ASSUME NEW q \in Slots, Busy(request[q]), q # s
          PROVE  ~SameRequest(x, request[q])
      <4>1. HoldsIds(request[q], minted, lastId) /\ ~SameCall(request[q], r)
        BY <3>2 DEF ToolCallsInv, IdsAreOwn, Pairs, RequestsApart
      <4>2. messages \in Nat /\ SessionsApart(minted, messages)
        BY DEF ToolCallsInv, TypeOK
      <4>3. SameRequest(x, request[q]) <=> SameCall(x, request[q])
        BY <1>10, <4>1, <4>2, IdsIdentify
      <4> QED
        BY <1>5, <4>1, <4>3 DEF SameCall
    <3>3. w.made = Append(r.made, "error") /\ w.session = r.session /\ w.id = r.id
      BY <1>4, <2>1
    <3>4. FailsLogged(diag, request) /\ diag' = Append(diag, x)
      BY <1>7, <2>1 DEF ToolCallsInv
    <3> HIDE DEF r
    <3>5. FailsLogged(Append(diag, x), [request EXCEPT ![s] = w])
      BY <1>1, <1>5, <3>1, <3>2, <3>3, <3>4, FailsLine DEF r
    <3> QED
      BY <1>2, <3>4, <3>5
  <2>2. CASE o = "ok"
    <3>1. Cardinality(Fails(w.made)) = Cardinality(Fails(r.made))
      <4>1. Cardinality(Fails(w.made)) = Cardinality(Fails(r.made)) + 0
        BY <1>1, <1>4, <2>2, FailsAppended
      <4>2. Cardinality(Fails(r.made)) \in Nat
        BY <1>1, PositionsFinite DEF Fails
      <4> QED
        BY <4>1, <4>2
    <3>2. FailLines(diag, w) = FailLines(diag, r)
      BY <1>4 DEF FailLines, SameRequest
    <3>3. request'[s] = w /\ \A q \in Slots : q # s => request'[q] = request[q]
      BY <1>1, <1>2
    <3>4. diag' = diag
      BY <1>7, <2>2
    <3> SUFFICES ASSUME NEW q \in Slots, Busy(request'[q])
                 PROVE  Cardinality(FailLines(diag', request'[q])) = Cardinality(Fails(request'[q].made))
      BY DEF FailsLogged
    <3>5. CASE q = s
      BY <3>1, <3>2, <3>3, <3>4, <3>5 DEF ToolCallsInv, FailsLogged
    <3>6. CASE q # s
      BY <3>3, <3>4, <3>6 DEF ToolCallsInv, FailsLogged
    <3> QED
      BY <3>5, <3>6
  <2> QED
    BY <2>1, <2>2
<1> QED
  BY <1>2, <1>11, <1>12, <1>13, <1>14, <1>15, <1>16 DEF ToolCallsInv, PageKnowsOrder

LEMMA CallSucceedsKeeps ==
    ASSUME ToolCallsInv, NEW s \in Slots, CallSucceeds(s)
    PROVE  ToolCallsInv'
<1>1. Busy(request[s]) /\ Wrapped(s, "ok", "serving", request[s].step + 1)
  BY DEF CallSucceeds, Busy
<1>2. request[s].step + 1 \in Nat
  <2>1. request[s] \in Request
    BY DEF ToolCallsInv, TypeOK
  <2> QED
    BY <2>1 DEF Request
<1> QED
  BY <1>1, <1>2, WrappedKeeps

LEMMA CallFailsKeeps ==
    ASSUME ToolCallsInv, NEW s \in Slots, CallFails(s) \/ OuterCallFails(s)
    PROVE  ToolCallsInv'
<1>1. request[s].step \in Nat
  <2>1. request[s] \in Request
    BY DEF ToolCallsInv, TypeOK
  <2> QED
    BY <2>1 DEF Request
<1>2. CASE CallFails(s)
  <2>1. Busy(request[s])
    BY <1>2 DEF CallFails, Busy
  <2>2. \E pc \in {"serving", "unwinding", "failing"} : Wrapped(s, "error", pc, request[s].step)
    BY <1>2 DEF CallFails
  <2> QED
    BY <1>1, <2>1, <2>2, WrappedKeeps
<1>3. CASE OuterCallFails(s)
  <2>1. Busy(request[s]) /\ Wrapped(s, "error", "failing", request[s].step)
    BY <1>3 DEF OuterCallFails, Busy
  <2> QED
    BY <1>1, <2>1, WrappedKeeps
<1> QED
  BY <1>2, <1>3

\* The answer is sent: the request's record replaces the request.
LEMMA EndsKeep ==
    ASSUME ToolCallsInv, NEW s \in Slots, Finish(s) \/ FinishRaised(s)
    PROVE  ToolCallsInv'
<1> DEFINE r == request[s]
<1>1. /\ request \in [Slots -> Request] /\ r \in Request /\ diag \in Seq(Record)
      /\ r.pc \in {"failing", "returning"} /\ Busy(r)
  BY DEF ToolCallsInv, TypeOK, Finish, FinishRaised, Busy
<1>2. PICK v \in Request, o \in {"ok", "error"} :
          /\ v.session = r.session /\ v.id = r.id /\ v.conn = r.conn /\ v.tool = r.tool /\ v.pc = r.pc
          /\ r.pc = "failing" => o = "error"
          /\ diag' = Append(diag, Line("tool_call", v, o))
  <2>1. CASE Finish(s)
    <3> DEFINE u == [r EXCEPT !.names = @ \cup r.answer]
    <3>1. /\ u \in Request /\ u.session = r.session /\ u.id = r.id /\ u.conn = r.conn
          /\ u.tool = r.tool /\ u.pc = r.pc
      <4>1. r.names \in SUBSET Nat /\ r.answer \in SUBSET Nat
        BY <1>1 DEF Request
      <4>2. r.names \cup r.answer \in SUBSET Nat
        BY <4>1
      <4> QED
        BY <1>1, <4>2 DEF Request
    <3>2. diag' = Append(diag, Line("tool_call", u, Outcome(s)))
      BY <2>1 DEF Finish
    <3>3. Outcome(s) \in {"ok", "error"} /\ (r.pc = "failing" => Outcome(s) = "error")
      BY DEF Outcome
    <3> HIDE DEF u
    <3> QED
      BY <3>1, <3>2, <3>3
  <2>2. CASE FinishRaised(s)
    BY <1>1, <2>2 DEF FinishRaised
  <2> QED
    BY <2>1, <2>2
<1> DEFINE x == Line("tool_call", v, o)
<1>3. /\ x \in Record /\ x.event = "tool_call" /\ x.session = r.session /\ x.id = r.id
      /\ x.conn = r.conn /\ x.tool = r.tool /\ x.outcome = o /\ (x.failed <=> r.pc = "failing")
  <2>1. "tool_call" \in Events /\ o \in {None, "ok", "error"}
    BY DEF Events
  <2> QED
    BY <1>2, <2>1, LineIs
<1>4. request' = [request EXCEPT ![s] = NoRequest] /\ UNCHANGED <<minted, lastId, closed, trail, ledger, page, messages, clicks, restarts>>
  BY DEF Finish, FinishRaised
<1>5. diag' = Append(diag, x)
  BY <1>2
<1> HIDE DEF x
<1>6. r.conn # None /\ HoldsIds(r, minted, lastId)
  BY <1>1 DEF ToolCallsInv, IdsAreOwn
<1>7. HoldsIds(x, minted, lastId) /\ SameCall(x, r)
  BY <1>3, <1>6 DEF HoldsIds, SameCall
<1>8. TypeOK'
  <2>1. diag' \in Seq(Record)
    BY <1>1, <1>3, <1>5, Appended
  <2>2. request' \in [Slots -> Request] /\ \A q \in Slots : Len(request'[q].calls) <= UpstreamCap + 1
    BY <1>1, <1>4, NoRequestIs, ShownEmpty DEF ToolCallsInv, TypeOK
  <2> QED
    BY <1>4, <2>1, <2>2 DEF ToolCallsInv, TypeOK
<1>9. IdsAreOwn(diag', request', minted', lastId')
  <2>1. IdsAreOwn(diag', request, minted, lastId)
    BY <1>1, <1>3, <1>5, <1>7, IdsAdded DEF ToolCallsInv
  <2> QED
    BY <1>1, <1>4, <2>1, NoRequestIs, IdsMoved
<1>10. Pairs(diag', request') /\ CallsAddUp(diag', request', closed')
  BY <1>1, <1>3, <1>4, <1>5, <1>6, <1>7, PairsEnded, CallsEnded DEF ToolCallsInv
<1>11. FailsLogged(diag', request')
  <2>1. FailsLogged(diag', request)
    BY <1>1, <1>3, <1>5, FailsUnmoved DEF ToolCallsInv
  <2> QED
    BY <1>1, <1>4, <2>1, NoRequestIs, FailsMoved
<1>12. FailuresAreErrors(diag')
  <2>1. x.failed => x.outcome = "error"
    BY <1>2, <1>3
  <2> QED
    BY <1>1, <1>3, <1>5, <2>1, FailuresAdded DEF ToolCallsInv
<1>13. UpstreamIsOwn'
  <2>1. \A q \in Slots : request'[q].calls = Shown(request'[q].made)
    BY <1>1, <1>4, NoRequestIs, ShownEmpty, OwnIsShown DEF ToolCallsInv
  <2> QED
    BY <2>1 DEF UpstreamIsOwn, Shown
<1> QED
  BY <1>4, <1>8, <1>9, <1>10, <1>11, <1>12, <1>13 DEF ToolCallsInv, PageKnowsOrder

\* What the invariant says of a diagnostic stream.
StreamHolds(d) ==
    /\ d \in Seq(Record) /\ IdsAreOwn(d, request, minted, lastId)
    /\ Pairs(d, request) /\ CallsAddUp(d, request, closed)
    /\ FailsLogged(d, request) /\ FailuresAreErrors(d)

LEMMA StreamIs == ToolCallsInv => StreamHolds(diag)
  BY DEF ToolCallsInv, TypeOK, StreamHolds

\* A line of the approvals page is outside every request.
LEMMA PageLine ==
    ASSUME ToolCallsInv, NEW d, StreamHolds(d),
           NEW x \in Record, x.conn = None, x.session = None, x.id = None,
           x.event \in {"upstream_call", "approval_ignored", "approval_failed"}, ~x.failed
    PROVE  StreamHolds(Append(d, x))
<1>1. d \in Seq(Record) /\ messages \in Nat
  BY DEF ToolCallsInv, TypeOK, StreamHolds
<1>2. HoldsIds(x, minted, lastId)
  BY DEF HoldsIds
<1>3. ASSUME NEW s \in Slots, Busy(request[s]) PROVE ~SameRequest(x, request[s])
  <2>1. request[s].conn # None /\ HoldsIds(request[s], minted, lastId) /\ SessionsApart(minted, messages)
    BY <1>3 DEF ToolCallsInv, IdsAreOwn
  <2>2. request[s].session # None
    BY <1>1, <2>1, IdsIdentify
  <2> QED
    BY <2>2 DEF SameRequest
<1> QED
  BY <1>1, <1>2, <1>3, Appended, IdsAdded, PairsAdded, CallsAdded, FailsUnmoved, FailuresAdded
  DEF StreamHolds

\* Each StoreLink call that approve makes has a line.
LEMMA PageLinesIs ==
    ASSUME NEW outcomes \in SubmitCalls
    PROVE  /\ Last(outcomes) \in {"ok", "error"}
           /\ \/ \E o \in {"ok", "error"} : PageLines(outcomes) = <<Line("upstream_call", NoRequest, o)>>
              \/ \E o, u \in {"ok", "error"} :
                    PageLines(outcomes) = <<Line("upstream_call", NoRequest, o),
                                            Line("upstream_call", NoRequest, u)>>
<1> DEFINE L(o) == Line("upstream_call", NoRequest, o)
<1>1. CASE outcomes = <<"error">>
  <2>1. Len(outcomes) = 1 /\ outcomes[1] = "error" /\ 1..1 = {1}
    BY <1>1
  <2>2. PageLines(outcomes) = [k \in {1} |-> L("error")]
    BY <2>1 DEF PageLines
  <2>3. <<L("error")>> = [k \in {1} |-> L("error")]
    <3> HIDE DEF L
    <3> QED
      OBVIOUS
  <2> QED
    BY <2>1, <2>2, <2>3 DEF Last
<1>2. ASSUME NEW o \in {"ok", "error"}, NEW u \in {"ok", "error"}, outcomes = <<o, u>>
      PROVE  Last(outcomes) \in {"ok", "error"} /\ PageLines(outcomes) = <<L(o), L(u)>>
  <2>1. Len(outcomes) = 2 /\ outcomes[1] = o /\ outcomes[2] = u /\ 1..2 = {1, 2}
    BY <1>2
  <2>2. PageLines(outcomes) = [k \in {1, 2} |-> L(outcomes[k])]
    BY <2>1 DEF PageLines
  <2>3. <<L(o), L(u)>> = [k \in {1, 2} |-> L(outcomes[k])]
    <3> HIDE DEF L
    <3> QED
      BY <2>1
  <2> QED
    BY <2>1, <2>2, <2>3 DEF Last
<1> QED
  BY <1>1, <1>2 DEF SubmitCalls

LEMMA ClicksKeep ==
    ASSUME ToolCallsInv, NEW o \in Numbers,
           (\E outcomes \in SubmitCalls : Submit(o, outcomes)) \/ Reject(o) \/ Ignore(o)
    PROVE  ToolCallsInv'
<1>1. clicks' \in 0..MaxClicks /\ UNCHANGED <<minted, lastId, closed, request, trail, messages, restarts>>
  BY DEF Submit, Reject, Ignore, Click, ToolCallsInv, TypeOK
<1>2. o \in Nat /\ o \in OrdersOf(trail)
  BY NumbersKnown
<1>3. /\ page' \in [pc : {"idle", "submitted", "rejected"}, order : SomeId, outcome : {None, "ok", "error"}]
      /\ page'.pc # "idle" => page'.order \in OrdersOf(trail)
  <2>1. CASE UNCHANGED page
    BY <2>1 DEF ToolCallsInv, TypeOK, PageKnowsOrder
  <2>2. CASE \E outcomes \in SubmitCalls : Submit(o, outcomes)
    BY <1>2, <2>2, PageLinesIs DEF Submit, SomeId
  <2>3. CASE Reject(o)
    BY <1>2, <2>3 DEF Reject, SomeId
  <2> QED
    BY <2>1, <2>2, <2>3 DEF Ignore
<1>4. StreamHolds(diag')
  <2>1. CASE UNCHANGED diag
    BY <2>1, StreamIs
  <2>2. ASSUME NEW outcomes \in SubmitCalls, Submit(o, outcomes) PROVE StreamHolds(diag')
    <3> DEFINE L(u) == Line("upstream_call", NoRequest, u)
    <3>1. ASSUME NEW u \in {"ok", "error"}
          PROVE  /\ L(u) \in Record /\ L(u).conn = None /\ L(u).session = None /\ L(u).id = None
                 /\ L(u).event = "upstream_call" /\ ~L(u).failed
      BY NoRequestIs, LineIs DEF Events
    <3>2. diag' = diag \o PageLines(outcomes) /\ diag \in Seq(Record)
      BY <2>2 DEF Submit, ToolCallsInv, TypeOK
    <3>3. \/ \E u \in {"ok", "error"} : PageLines(outcomes) = <<L(u)>>
          \/ \E u, v \in {"ok", "error"} : PageLines(outcomes) = <<L(u), L(v)>>
      BY PageLinesIs
    <3> HIDE DEF L
    <3>4. CASE \E u \in {"ok", "error"} : PageLines(outcomes) = <<L(u)>>
      <4>1. PICK u \in {"ok", "error"} : PageLines(outcomes) = <<L(u)>>
        BY <3>4
      <4>2. diag' = Append(diag, L(u))
        BY <3>1, <3>2, <4>1, AddedOne
      <4> QED
        BY <3>1, <4>2, StreamIs, PageLine
    <3>5. CASE \E u, v \in {"ok", "error"} : PageLines(outcomes) = <<L(u), L(v)>>
      <4>1. PICK u, v \in {"ok", "error"} : PageLines(outcomes) = <<L(u), L(v)>>
        BY <3>5
      <4>2. diag' = Append(Append(diag, L(u)), L(v))
        BY <3>1, <3>2, <4>1, AddedTwo
      <4>3. StreamHolds(Append(diag, L(u)))
        BY <3>1, StreamIs, PageLine
      <4> QED
        BY <3>1, <4>2, <4>3, PageLine
    <3> QED
      BY <3>3, <3>4, <3>5
  <2>3. CASE Ignore(o)
    <3> DEFINE w == [NoRequest EXCEPT !.names = {o}]
               x == Line("approval_ignored", w, None)
    <3>1. w \in Request /\ w.conn = None /\ w.session = None /\ w.id = None /\ w.pc = "idle"
      BY <1>2, NoRequestIs DEF Request
    <3> HIDE DEF w
    <3>2. /\ x \in Record /\ x.conn = None /\ x.session = None /\ x.id = None
          /\ x.event = "approval_ignored" /\ ~x.failed
      BY <3>1, LineIs DEF Events
    <3>3. diag' = Append(diag, x)
      BY <2>3 DEF Ignore, w
    <3> HIDE DEF x
    <3> QED
      BY <3>2, <3>3, StreamIs, PageLine
  <2> QED
    BY <2>1, <2>2, <2>3 DEF Reject
<1>5. ledger' \in Seq({"pending_approval", "submitted", "rejected"}) /\ Len(ledger') = Len(ledger)
  <2>1. ledger \in Seq({"pending_approval", "submitted", "rejected"})
    BY DEF ToolCallsInv, TypeOK
  <2>2. \/ UNCHANGED ledger
        \/ \E status \in {"submitted", "rejected"} : ledger' = [ledger EXCEPT ![o] = status]
    BY DEF Submit, Reject, Ignore
  <2> QED
    BY <2>1, <2>2
<1>6. TypeOK'
  BY <1>1, <1>3, <1>4, <1>5 DEF ToolCallsInv, TypeOK, StreamHolds
<1>7. UpstreamIsOwn'
  BY <1>1 DEF ToolCallsInv, UpstreamIsOwn
<1>8. PageKnowsOrder'
  BY <1>1, <1>3 DEF PageKnowsOrder
<1>9. RunsApart(trail', ledger', closed')
  BY <1>1, <1>5 DEF ToolCallsInv, RunsApart
<1>10. /\ IdsAreOwn(diag', request', minted', lastId') /\ Pairs(diag', request')
       /\ CallsAddUp(diag', request', closed')
       /\ FailsLogged(diag', request') /\ FailuresAreErrors(diag')
  BY <1>1, <1>4 DEF StreamHolds
<1> QED
  BY <1>1, <1>6, <1>7, <1>8, <1>9, <1>10 DEF ToolCallsInv

\* What is decided is an order proposed before, and its records have no trace.
LEMMA DecisionsAdded ==
    ASSUME NEW S, NEW t \in Seq(S), NEW x \in S, NEW m, NEW l, NEW lg, NEW cl, TracesAreOwn(t, m, l),
           RunsApart(t, lg, cl), x.event # "order_proposed", x.session = None, x.order \in OrdersOf(t)
    PROVE  /\ Append(t, x) \in Seq(S) /\ TracesAreOwn(Append(t, x), m, l) /\ RunsApart(Append(t, x), lg, cl)
           /\ OrdersOf(Append(t, x)) = OrdersOf(t)
<1> DEFINE u == Append(t, x)
           n == Len(t) + 1
<1>1. /\ u \in Seq(S) /\ 1..Len(u) = 1..Len(t) \cup {n} /\ n \notin 1..Len(t)
      /\ \A k \in 1..Len(t) : u[k] = t[k]
      /\ u[n] = x
  BY Appended
<1> HIDE DEF u, n
<1>2. Proposed(u) = Proposed(t) /\ Proposed(t) \subseteq 1..Len(t)
  BY <1>1 DEF Proposed
<1>3. OrdersOf(u) = OrdersOf(t)
  <2>1. \A k \in 1..Len(u) : u[k].order \in OrdersOf(t)
    BY <1>1 DEF OrdersOf
  <2>2. \A k \in 1..Len(t) : k \in 1..Len(u) /\ u[k].order = t[k].order
    BY <1>1
  <2> QED
    BY <2>1, <2>2 DEF OrdersOf
<1>4. TracesAreOwn(u, m, l)
  BY <1>1, <1>2 DEF TracesAreOwn
<1>5. RunsApart(u, lg, cl)
  BY <1>1, <1>2 DEF RunsApart
<1> QED
  BY <1>1, <1>3, <1>4, <1>5 DEF u

LEMMA RecordDecisionKeeps ==
    ASSUME ToolCallsInv, RecordDecision
    PROVE  ToolCallsInv'
<1> DEFINE Traced == [event : AuditEvents, order : Nat, session : Session, id : SomeId,
                      conn : SomeConn, own : SomeId]
           last == Decision(IF page.outcome = "ok" THEN "order_submitted_to_storelink"
                                                  ELSE "order_submission_failed")
           T(t) == t \in Seq(Traced) /\ TracesAreOwn(t, minted, lastId) /\ RunsApart(t, ledger, closed)
                   /\ OrdersOf(t) = OrdersOf(trail)
<1>1. page.order \in OrdersOf(trail) /\ page.order \in Nat /\ T(trail)
  BY NumbersKnown DEF ToolCallsInv, TypeOK, PageKnowsOrder, RecordDecision
<1>2. UNCHANGED <<minted, lastId, closed, request, ledger, messages, clicks, restarts>> /\ page' = NoClick
  BY DEF RecordDecision
<1>3. ASSUME NEW event \in AuditEvents \ {"order_proposed"}
      PROVE  /\ Decision(event) \in Traced /\ Decision(event).session = None
             /\ Decision(event).event # "order_proposed" /\ Decision(event).order = page.order
  BY <1>1 DEF Decision, Session, SomeId, SomeConn
<1>4. ASSUME NEW event \in AuditEvents \ {"order_proposed"}, NEW t, T(t)
      PROVE  T(Append(t, Decision(event)))
  <2>1. /\ t \in Seq(Traced) /\ TracesAreOwn(t, minted, lastId) /\ RunsApart(t, ledger, closed)
        /\ OrdersOf(t) = OrdersOf(trail) /\ page.order \in OrdersOf(t)
    BY <1>1, <1>4
  <2>2. /\ Decision(event) \in Traced /\ Decision(event).event # "order_proposed"
        /\ Decision(event).session = None /\ Decision(event).order \in OrdersOf(t)
    BY <1>3, <2>1
  <2> HIDE DEF Traced
  <2> QED
    BY ONLY <2>1, <2>2, DecisionsAdded DEF T
<1>5. T(trail')
  <2>1. CASE page.pc = "rejected"
    <3>1. "order_rejected" \in AuditEvents \ {"order_proposed"}
      BY DEF AuditEvents
    <3>2. trail' = trail \o <<Decision("order_rejected")>>
      BY <2>1 DEF RecordDecision
    <3>3. trail' = Append(trail, Decision("order_rejected"))
      BY <1>1, <1>3, <3>1, <3>2, AddedOne
    <3> HIDE DEF T
    <3> QED
      BY <1>1, <1>4, <3>1, <3>3
  <2>2. CASE page.pc # "rejected"
    <3> DEFINE event == IF page.outcome = "ok" THEN "order_submitted_to_storelink"
                                               ELSE "order_submission_failed"
    <3>1. "order_approved" \in AuditEvents \ {"order_proposed"} /\ event \in AuditEvents \ {"order_proposed"}
      BY DEF AuditEvents
    <3> HIDE DEF event
    <3>2. trail' = trail \o <<Decision("order_approved"), Decision(event)>>
      BY <2>2 DEF RecordDecision, event
    <3>3. trail' = Append(Append(trail, Decision("order_approved")), Decision(event))
      BY <1>1, <1>3, <3>1, <3>2, AddedTwo
    <3> HIDE DEF T
    <3>4. T(Append(trail, Decision("order_approved")))
      BY <1>1, <1>4, <3>1
    <3> QED
      BY <1>4, <3>1, <3>3, <3>4
  <2> QED
    BY <2>1, <2>2
<1>6. StreamHolds(diag')
  <2>1. CASE page.outcome = "ok"
    BY <2>1, StreamIs DEF RecordDecision
  <2>2. CASE page.outcome # "ok"
    <3> DEFINE w == [NoRequest EXCEPT !.names = {page.order}]
               x == Line("approval_failed", w, "error")
    <3>1. w \in Request /\ w.conn = None /\ w.session = None /\ w.id = None /\ w.pc = "idle"
      BY <1>1, NoRequestIs DEF Request
    <3>2. diag' = Append(diag, x)
      BY <2>2 DEF RecordDecision
    <3> HIDE DEF w
    <3>3. /\ x \in Record /\ x.conn = None /\ x.session = None /\ x.id = None
          /\ x.event = "approval_failed" /\ ~x.failed
      BY <3>1, LineIs DEF Events
    <3> HIDE DEF x
    <3> QED
      BY <3>2, <3>3, StreamIs, PageLine
  <2> QED
    BY <2>1, <2>2
<1>7. TypeOK'
  BY <1>2, <1>5, <1>6 DEF ToolCallsInv, TypeOK, NoClick, SomeId, StreamHolds
<1>8. UpstreamIsOwn' /\ PageKnowsOrder'
  BY <1>2 DEF ToolCallsInv, UpstreamIsOwn, PageKnowsOrder, NoClick
<1>9. /\ IdsAreOwn(diag', request', minted', lastId') /\ Pairs(diag', request')
      /\ CallsAddUp(diag', request', closed')
      /\ FailsLogged(diag', request') /\ FailuresAreErrors(diag')
  BY <1>2, <1>6 DEF StreamHolds
<1> QED
  BY <1>2, <1>5, <1>7, <1>8, <1>9 DEF ToolCallsInv

\* The process ends: nothing of its requests, its orders or its page is left, and
\* the connections it had are closed.
LEMMA RestartKeeps ==
    ASSUME ToolCallsInv, Restart
    PROVE  ToolCallsInv'
<1>1. /\ UNCHANGED <<minted, lastId, diag, trail, messages, clicks>>
      /\ request' = [s \in Slots |-> NoRequest] /\ ledger' = <<>> /\ page' = NoClick
      /\ closed' = {c \in Connections : lastId[c] # 0} /\ restarts' \in 0..MaxRestarts
  BY DEF Restart, ToolCallsInv, TypeOK
<1>2. diag \in Seq(Record) /\ lastId \in [Connections -> Nat]
  BY DEF ToolCallsInv, TypeOK
<1>3. \A s \in Slots : request'[s] = NoRequest /\ ~Busy(request'[s])
  BY <1>1, NoRequestIs
<1>4. TypeOK'
  <2>1. request' \in [Slots -> Request] /\ \A s \in Slots : Len(request'[s].calls) <= UpstreamCap + 1
    BY <1>1, NoRequestIs, ShownEmpty
  <2>2. page' \in [pc : {"idle", "submitted", "rejected"}, order : SomeId, outcome : {None, "ok", "error"}]
    BY <1>1 DEF NoClick, SomeId
  <2>3. closed' \subseteq Connections /\ ledger' \in Seq({"pending_approval", "submitted", "rejected"})
    BY <1>1, EmptySeq
  <2> QED
    BY <1>1, <2>1, <2>2, <2>3 DEF ToolCallsInv, TypeOK
<1>5. IdsAreOwn(diag', request', minted', lastId')
  BY <1>1, <1>3 DEF ToolCallsInv, IdsAreOwn
<1>6. Pairs(diag', request')
  BY <1>1, <1>3 DEF ToolCallsInv, Pairs, RequestsApart, ServedHasStart, EndedIsOver
<1>7. UpstreamIsOwn'
  <2>1. \A s \in Slots : request'[s].calls = Shown(request'[s].made)
    BY <1>3, NoRequestIs, ShownEmpty
  <2> QED
    BY <2>1 DEF UpstreamIsOwn, Shown
<1>8. FailsLogged(diag', request') /\ FailuresAreErrors(diag')
  BY <1>1, <1>3 DEF ToolCallsInv, FailsLogged
\* A connection that has sent nothing has made no call.
<1>9. CallsAddUp(diag', request', closed')
  <2> SUFFICES ASSUME NEW c \in Connections
               PROVE  /\ Cardinality(EndsOf(diag, c)) + Cardinality(ServedOf(request', c))
                            <= Cardinality(StartsOf(diag, c))
                      /\ c \notin closed'
                            => Cardinality(EndsOf(diag, c)) + Cardinality(ServedOf(request', c))
                                  = Cardinality(StartsOf(diag, c))
    BY <1>1 DEF CallsAddUp
  <2>1. ServedOf(request', c) = {} /\ Cardinality({}) = 0
    BY <1>3, NoRequestIs, FS_EmptySet DEF ServedOf
  <2>2. Cardinality(EndsOf(diag, c)) <= Cardinality(StartsOf(diag, c))
    <3>1. Cardinality(EndsOf(diag, c)) + Cardinality(ServedOf(request, c)) <= Cardinality(StartsOf(diag, c))
      BY DEF ToolCallsInv, CallsAddUp
    <3> QED
      BY <1>2, <3>1, OfFinite, ServedFinite
  <2>3. ASSUME c \notin closed' PROVE EndsOf(diag, c) = {} /\ StartsOf(diag, c) = {}
    <3>1. 1..lastId[c] = {}
      BY <1>1, <2>3
    <3>2. \A k \in 1..Len(diag) : diag[k].conn # c
      BY <3>1 DEF ToolCallsInv, IdsAreOwn, HoldsIds
    <3> QED
      BY <3>2 DEF EndsOf, StartsOf
  <2>4. Cardinality(ServedOf(request', c)) = 0
    BY <2>1
  <2>5. Cardinality(EndsOf(diag, c)) \in Nat /\ Cardinality(StartsOf(diag, c)) \in Nat
    BY <1>2, OfFinite
  <2>6. c \notin closed' => Cardinality(EndsOf(diag, c)) = Cardinality(StartsOf(diag, c))
    BY <2>3
  <2> QED
    BY <2>2, <2>4, <2>5, <2>6
\* Every proposal is of a connection that is closed now.
<1>10. RunsApart(trail', ledger', closed')
  <2> SUFFICES ASSUME NEW p \in Proposed(trail) PROVE trail[p].conn \in closed'
    BY <1>1 DEF RunsApart
  <2>1. trail[p].conn # None /\ HoldsIds(trail[p], minted, lastId)
    BY DEF ToolCallsInv, TracesAreOwn
  <2>2. trail[p].conn \in Connections /\ trail[p].id \in 1..lastId[trail[p].conn]
    BY <2>1 DEF HoldsIds
  <2> QED
    BY <1>1, <1>2, <2>2
<1>11. PageKnowsOrder'
  BY <1>1 DEF PageKnowsOrder, NoClick
<1> QED
  BY <1>1, <1>4, <1>5, <1>6, <1>7, <1>8, <1>9, <1>10, <1>11 DEF ToolCallsInv

----------------------------------------------------------------------------
(* The theorems. *)

\* However requests, connections, the approvals page and restarts interleave: a record
\* carries the ids of its own connection and message, every call started is
\* served or has ended once, each failed call under it has its line, and the
\* trace of a proposal is that of the request that made it.
THEOREM ToolCallsInvariant == Spec => []ToolCallsInv
<1>1. ToolCallsInv /\ [Next]_vars => ToolCallsInv'
  <2> SUFFICES ASSUME ToolCallsInv, [Next]_vars PROVE ToolCallsInv'
    OBVIOUS
  <2>1. CASE UNCHANGED vars
    BY <2>1 DEF vars, ToolCallsInv, TypeOK, UpstreamIsOwn, PageKnowsOrder
  <2>2. ASSUME NEW c \in Connections, NEW o \in {"ok", "error"}, LogPlain(c, o)
        PROVE  ToolCallsInv'
    BY <2>2, LogPlainKeeps
  <2>3. ASSUME NEW s \in Slots, NEW c \in Connections, NEW tool \in Tools, NEW names \in Asks(tool),
               StartCall(s, c, tool, names)
        PROVE  ToolCallsInv'
    BY <2>3, StartCallKeeps
  <2>4. ASSUME NEW s \in Slots,
               CallSucceeds(s) \/ CallFails(s) \/ OuterCallFails(s) \/ BodyFails(s)
               \/ Finish(s) \/ FinishRaised(s)
        PROVE  ToolCallsInv'
    BY <2>4, CallSucceedsKeeps, CallFailsKeeps, BodyFailsKeeps, EndsKeep
  <2>5. ASSUME NEW s \in Slots, NEW listed \in SUBSET Orders, BodyReturns(s, listed) \/ Propose(s, listed)
        PROVE  ToolCallsInv'
    BY <2>5, BodyReturnsKeeps, ProposeKeeps
  <2>6. ASSUME NEW o \in Numbers,
               (\E outcomes \in SubmitCalls : Submit(o, outcomes)) \/ Reject(o) \/ Ignore(o)
        PROVE  ToolCallsInv'
    BY <2>6, ClicksKeep
  <2>7. CASE RecordDecision
    BY <2>7, RecordDecisionKeeps
  <2>8. CASE Restart
    BY <2>8, RestartKeeps
  <2> QED
    BY <2>1, <2>2, <2>3, <2>4, <2>5, <2>6, <2>7, <2>8 DEF Next
<1> QED
  BY InitHolds, <1>1, PTL DEF Spec

\* A tool_call record carries at most UpstreamCap calls and one note.
THEOREM StreamTypeCorrect == Spec => []TypeOK
<1>1. ToolCallsInv => TypeOK
  BY DEF ToolCallsInv
<1> QED
  BY <1>1, ToolCallsInvariant, PTL

\* Two records carry the same session id exactly when they are of one
\* connection, whether its transport names it or the id is minted.
THEOREM SessionsTellConnections == Spec => []SessionsAreConnections
<1>1. ToolCallsInv => SessionsAreConnections
  <2> SUFFICES ASSUME ToolCallsInv, NEW i \in 1..Len(diag), NEW j \in 1..Len(diag)
               PROVE  diag[i].session = diag[j].session <=> diag[i].conn = diag[j].conn
    BY DEF SessionsAreConnections
  <2>1. HoldsIds(diag[i], minted, lastId) /\ HoldsIds(diag[j], minted, lastId)
    BY DEF ToolCallsInv, IdsAreOwn
  <2>2. messages \in Nat /\ SessionsApart(minted, messages)
    BY DEF ToolCallsInv, TypeOK
  <2> QED
    BY <2>1, <2>2, IdsIdentify
<1> QED
  BY <1>1, ToolCallsInvariant, PTL

\* Records of one request are those with its session_id and request_id.
LEMMA RecordsIdentify ==
    ASSUME ToolCallsInv
    PROVE  /\ \A i, j \in 1..Len(diag) : SameRequest(diag[i], diag[j]) <=> SameCall(diag[i], diag[j])
           /\ \A i \in 1..Len(diag) : \A s \in Slots :
                 Busy(request[s]) => (SameRequest(diag[i], request[s]) <=> SameCall(diag[i], request[s]))
<1>1. messages \in Nat /\ SessionsApart(minted, messages)
  BY DEF ToolCallsInv, TypeOK
<1>2. \A i \in 1..Len(diag) : HoldsIds(diag[i], minted, lastId)
  BY DEF ToolCallsInv, IdsAreOwn
<1>3. \A s \in Slots : Busy(request[s]) => HoldsIds(request[s], minted, lastId)
  BY DEF ToolCallsInv, IdsAreOwn
<1> QED
  BY <1>1, <1>2, <1>3, IdsIdentify

\* session_id and request_id are a key: a tool_call has one start, before it,
\* of the same tool, and no request ends twice.
THEOREM CallsPaired == Spec => []CallsArePaired
<1>1. ToolCallsInv => CallsArePaired
  <2> SUFFICES ASSUME ToolCallsInv, NEW k \in 1..Len(diag), diag[k].event = "tool_call"
               PROVE  /\ \A j \in 1..Len(diag) :
                            diag[j].event = "tool_call" /\ SameRequest(diag[j], diag[k]) => j = k
                      /\ \E i \in 1..(k - 1) :
                            /\ diag[i].event = "tool_call_started"
                            /\ SameRequest(diag[i], diag[k]) /\ diag[i].tool = diag[k].tool
                            /\ \A j \in 1..Len(diag) :
                                  diag[j].event = "tool_call_started" /\ SameRequest(diag[j], diag[k])
                                      => j = i
    BY DEF CallsArePaired
  <2>1. k \in Ends(diag)
    BY DEF Ends
  <2>2. \A j \in 1..Len(diag) : SameRequest(diag[j], diag[k]) <=> SameCall(diag[j], diag[k])
    BY RecordsIdentify
  <2>3. \A j \in 1..Len(diag) : diag[j].event = "tool_call" /\ SameRequest(diag[j], diag[k]) => j = k
    BY <2>1, <2>2 DEF ToolCallsInv, Pairs, EndsApart, Ends
  <2>4. PICK i \in Starts(diag) : i < k /\ SameCall(diag[i], diag[k]) /\ diag[i].tool = diag[k].tool
    BY <2>1 DEF ToolCallsInv, Pairs, EndHasStart
  <2>5. i \in 1..(k - 1) /\ i \in 1..Len(diag) /\ diag[i].event = "tool_call_started"
    BY <2>4 DEF Starts
  <2>6. ASSUME NEW j \in 1..Len(diag), diag[j].event = "tool_call_started", SameRequest(diag[j], diag[k])
        PROVE  j = i
    <3>1. j \in Starts(diag) /\ SameCall(diag[j], diag[i])
      BY <2>2, <2>4, <2>6 DEF Starts, SameCall
    <3> QED
      BY <2>4, <3>1 DEF ToolCallsInv, Pairs, StartsApart
  <2> QED
    BY <2>2, <2>3, <2>4, <2>5, <2>6
<1> QED
  BY <1>1, ToolCallsInvariant, PTL

\* A request's list is its own StoreLink calls in order, up to the cap.
THEOREM UpstreamOwn == Spec => []UpstreamIsOwn
<1>1. ToolCallsInv => UpstreamIsOwn
  BY DEF ToolCallsInv
<1> QED
  BY <1>1, ToolCallsInvariant, PTL

\* logquery errors finds every StoreLink failure before the request returns, and
\* a call that failed although the protocol exchange succeeded.
THEOREM ErrorsFound == Spec => []ErrorsAreFound
<1>1. ToolCallsInv => ErrorsAreFound
  <2> SUFFICES ASSUME ToolCallsInv PROVE ErrorsAreFound
    OBVIOUS
  <2>1. ASSUME NEW s \in Slots, request[s].pc # "idle"
        PROVE  Cardinality(FailuresFound(s)) = Cardinality(Failed(request[s].made))
    <3>1. Busy(request[s])
      BY <2>1 DEF Busy
    <3>2. ASSUME NEW k \in FailLines(diag, request[s])
          PROVE  k \in FailuresFound(s)
      <4>1. k \in 1..Len(diag) /\ diag[k].event = "upstream_call" /\ SameRequest(diag[k], request[s])
        BY <3>2 DEF FailLines
      <4>2. diag[k].conn # None
        BY <3>1, <4>1, RecordsIdentify DEF SameCall, ToolCallsInv, IdsAreOwn
      <4>3. diag[k].outcome = "error"
        BY <4>1, <4>2 DEF ToolCallsInv, FailuresAreErrors
      <4> QED
        BY <4>1, <4>3 DEF FailuresFound, Errors, Matches, SameRequest
    <3>3. request[s].session # None /\ request[s].id # None
      <4>1. request[s].conn # None /\ HoldsIds(request[s], minted, lastId)
        BY <3>1 DEF ToolCallsInv, IdsAreOwn
      <4>2. request[s].conn \in Connections /\ Met(request[s].conn, minted)
            /\ request[s].session = SessionId(request[s].conn, minted)
            /\ request[s].id \in 1..lastId[request[s].conn]
        BY <4>1 DEF HoldsIds
      <4>3. request[s].session # None
        BY <4>2 DEF Met, SessionId
      <4> QED
        BY <4>2, <4>3
    <3>4. FailuresFound(s) = FailLines(diag, request[s])
      BY <3>2, <3>3 DEF FailuresFound, FailLines, Errors, Matches, SameRequest
    <3> QED
      BY <3>1, <3>4 DEF ToolCallsInv, FailsLogged, Failed, Fails
  <2>2. \A k \in 1..Len(diag) : diag[k].failed => k \in Errors(diag[k].session, diag[k].id, diag[k].tool)
    BY DEF ToolCallsInv, FailuresAreErrors, Errors, Matches
  <2> QED
    BY <2>1, <2>2 DEF ErrorsAreFound
<1> QED
  BY <1>1, ToolCallsInvariant, PTL

\* sessions has one row for each connection seen; the calls it counts and
\* those still served are the calls that were made, but for those that a restart
\* ended.
THEOREM SessionRowsAddUp == Spec => []SessionsAddUp
<1>1. ToolCallsInv => SessionsAddUp
  <2> SUFFICES ASSUME ToolCallsInv PROVE SessionsAddUp
    OBVIOUS
  <2> DEFINE seen == {r.conn : r \in ToSet(diag)} \ {None}
             Id(c) == SessionId(c, minted)
  <2>1. diag \in Seq(Record) /\ messages \in Nat /\ SessionsApart(minted, messages)
    BY DEF ToolCallsInv, TypeOK
  <2>2. \A r \in ToSet(diag) : \E k \in 1..Len(diag) : diag[k] = r
    BY <2>1 DEF ToSet
  <2>3. \A k \in 1..Len(diag) : diag[k] \in ToSet(diag)
    BY <2>1 DEF ToSet
  <2>4. \A r \in ToSet(diag) : HoldsIds(r, minted, lastId)
    BY <2>2 DEF ToolCallsInv, IdsAreOwn
  <2>5. \A r \in ToSet(diag) : \A c \in seen : c \in Connections /\ (r.session = Id(c) <=> r.conn = c)
    <3> SUFFICES ASSUME NEW r \in ToSet(diag), NEW c \in seen
                 PROVE  c \in Connections /\ (r.session = Id(c) <=> r.conn = c)
      OBVIOUS
    <3>1. PICK x \in ToSet(diag) : x.conn = c /\ c # None
      OBVIOUS
    <3>2. HoldsIds(x, minted, lastId) /\ HoldsIds(r, minted, lastId)
      BY <2>4
    <3>3. c \in Connections /\ x.session = Id(c)
      BY <3>1, <3>2 DEF HoldsIds
    <3>4. r.session = x.session <=> r.conn = x.conn
      BY <2>1, <3>2, IdsIdentify
    <3> QED
      BY <3>1, <3>3, <3>4
  <2>6. \A r \in ToSet(diag) : r.conn = None <=> r.session = None
    BY <2>1, <2>4, IdsIdentify
\* One session id for each connection.
  <2>7. Cardinality(Sessions) = Cardinality(seen)
    <3> DEFINE f == [c \in seen |-> Id(c)]
               all == {diag[k].conn : k \in 1..Len(diag)}
               g == [k \in 1..Len(diag) |-> diag[k].conn]
    <3>1. IsFiniteSet(seen)
      <4>1. g \in Surjection(1..Len(diag), all)
        BY DEF Surjection
      <4>2. IsFiniteSet(1..Len(diag))
        BY <2>1, PositionsFinite
      <4>3. IsFiniteSet(all)
        BY <4>1, <4>2, FS_Surjection
      <4>4. seen \in SUBSET all
        BY <2>2
      <4> QED
        BY <4>3, <4>4, FS_Subset
    <3>2. \A c \in seen : \E r \in ToSet(diag) : r.conn = c /\ r.session = Id(c) /\ r.session # None
      BY <2>5, <2>6
    <3>3. \A i \in Sessions : \E c \in seen : Id(c) = i
      <4> SUFFICES ASSUME NEW i \in Sessions PROVE \E c \in seen : Id(c) = i
        OBVIOUS
      <4>1. PICK r \in ToSet(diag) : r.session = i /\ i # None
        BY DEF Sessions
      <4>2. r.conn \in seen
        BY <2>6, <4>1
      <4> QED
        BY <2>5, <4>1, <4>2
    <3>4. \A c, e \in seen : Id(c) = Id(e) => c = e
      BY <2>5, <3>2
    <3>5. \A c \in seen : Id(c) \in Sessions
      BY <3>2 DEF Sessions
    <3> HIDE DEF seen, Id
    <3>6. f \in [seen -> Sessions]
      BY <3>5
    <3>7. f \in Injection(seen, Sessions)
      BY <3>4, <3>6 DEF Injection, IsInjective
    <3>8. f \in Surjection(seen, Sessions)
      BY <3>3, <3>6 DEF Surjection
    <3>9. ExistsBijection(seen, Sessions)
      BY <3>7, <3>8 DEF ExistsBijection, Bijection
    <3> QED
      BY <3>1, <3>9, FS_Bijection
\* Each row counts the records of its connection.
  <2>8. ASSUME NEW c \in seen
        PROVE  LET session == (CHOOSE r \in ToSet(diag) : r.conn = c).session
                   row     == Row(session)
                   started == Cardinality(Of(c, "tool_call_started"))
               IN  /\ row.calls <= started
                   /\ c \notin closed
                         => row.calls + Cardinality({s \in Slots : request[s].conn = c}) = started
                   /\ row.errors >= Cardinality({k \in Of(c, "tool_call") : diag[k].failed})
    <3> DEFINE session == (CHOOSE r \in ToSet(diag) : r.conn = c).session
               done == {k \in 1..Len(diag) : diag[k].session = session /\ IsCall(diag[k])}
               failed == {k \in Of(c, "tool_call") : diag[k].failed}
               wrong == {k \in done : diag[k].outcome = "error"}
    <3>1. session = Id(c) /\ c \in Connections
      <4>1. \E r \in ToSet(diag) : r.conn = c
        OBVIOUS
      <4> QED
        BY <2>5, <4>1
    <3>2. Row(session) = [calls |-> Cardinality(done), errors |-> Cardinality(wrong)]
      BY DEF Row
    <3> HIDE DEF session
    <3>3. \A k \in 1..Len(diag) : diag[k].session = session <=> diag[k].conn = c
      BY <2>3, <2>5, <3>1
    <3>4. done = EndsOf(diag, c) /\ Of(c, "tool_call") = EndsOf(diag, c)
      BY <3>3 DEF EndsOf, IsCall, Of
    <3>5. Of(c, "tool_call_started") = StartsOf(diag, c)
      BY DEF StartsOf, Of
    <3>6. {s \in Slots : request[s].conn = c} = ServedOf(request, c)
      BY DEF ServedOf
    <3>7. /\ Cardinality(done) <= Cardinality(StartsOf(diag, c))
          /\ c \notin closed
                => Cardinality(done) + Cardinality(ServedOf(request, c)) = Cardinality(StartsOf(diag, c))
      <4>1. /\ Cardinality(done) + Cardinality(ServedOf(request, c)) <= Cardinality(StartsOf(diag, c))
            /\ c \notin closed
                  => Cardinality(done) + Cardinality(ServedOf(request, c)) = Cardinality(StartsOf(diag, c))
        BY <3>1, <3>4 DEF ToolCallsInv, CallsAddUp
      <4>2. Cardinality(done) \in Nat
        BY <2>1, <3>4, OfFinite
      <4> HIDE DEF done
      <4> QED
        BY <2>1, <4>1, <4>2, OfFinite, ServedFinite
    <3>8. Cardinality(wrong) >= Cardinality(failed)
      <4>1. failed \in SUBSET wrong
        BY <3>4 DEF ToolCallsInv, FailuresAreErrors, Of
      <4>2. IsFiniteSet(wrong) /\ Cardinality(wrong) \in Nat
        <5>1. wrong \in SUBSET (1..Len(diag))
          OBVIOUS
        <5> QED
          BY <2>1, <5>1, PositionsFinite
      <4>3. IsFiniteSet(failed) /\ Cardinality(failed) <= Cardinality(wrong)
        BY <4>1, <4>2, FS_Subset
      <4>4. Cardinality(failed) \in Nat
        BY <4>3, FS_CardinalityType
      <4> QED
        BY <4>2, <4>3, <4>4
    <3> HIDE DEF done, wrong, failed
    <3>9. Row(session).calls = Cardinality(done) /\ Row(session).errors = Cardinality(wrong)
      BY <3>2
    <3> QED
      BY <3>5, <3>6, <3>7, <3>8, <3>9 DEF session, failed
  <2> QED
    BY <2>7, <2>8 DEF SessionsAddUp
<1> QED
  BY <1>1, ToolCallsInvariant, PTL

\* logquery trace shows, of an order number, every record that names it and
\* everything logged by the requests that proposed it, one in each run of the
\* server at most, and nothing of another request.
THEOREM OrderReplayExact == Spec => []OrderReplayIsExact
<1>1. ToolCallsInv => OrderReplayIsExact
  <2> SUFFICES ASSUME ToolCallsInv, NEW o \in Numbers
               PROVE  /\ TraceOrder(o) = Mentioning(o) \cup UNION {LoggedUnder(p) : p \in Proposals(o)}
                      /\ \A p, q \in Proposals(o) :
                            p = q \/ trail[p].conn \in closed \/ trail[q].conn \in closed
    BY DEF OrderReplayIsExact
  <2>1. /\ DOMAIN trail = 1..Len(trail)
        /\ messages \in Nat /\ SessionsApart(minted, messages)
    BY DEF ToolCallsInv, TypeOK
  <2>2. Proposals(o) = {p \in Proposed(trail) : trail[p].order = o}
    BY DEF Proposals, Proposed
  <2>3. ASSUME NEW p \in Proposals(o)
        PROVE  /\ p \in 1..Len(trail) /\ trail[p].order = o /\ trail[p].own = trail[p].id
               /\ trail[p].session # None /\ HoldsIds(trail[p], minted, lastId)
    <3>1. trail[p].conn # None /\ trail[p].own = trail[p].id /\ HoldsIds(trail[p], minted, lastId)
      BY <2>2 DEF ToolCallsInv, TracesAreOwn
    <3>2. trail[p].session # None
      BY <2>1, <3>1, IdsIdentify
    <3> QED
      BY <3>1, <3>2 DEF Proposals
\* The traces among the order's records are those of its proposals.
  <2>4. OrderRequests(o) = {<<trail[p].session, trail[p].id>> : p \in Proposals(o)}
    <3>1. ASSUME NEW p \in Proposals(o)
          PROVE  trail[p] \in {e \in Entries(o) : e.session # None}
      BY <2>1, <2>3 DEF Entries, ToSet
    <3>2. ASSUME NEW e \in Entries(o), e.session # None
          PROVE  \E p \in Proposals(o) : trail[p] = e
      <4>1. PICK p \in 1..Len(trail) : trail[p] = e /\ e.order = o
        BY <2>1 DEF Entries, ToSet
      <4>2. p \in Proposed(trail)
        BY <3>2, <4>1 DEF ToolCallsInv, TracesAreOwn
      <4> QED
        BY <2>2, <4>1, <4>2
    <3>3. \A p \in Proposals(o) : <<trail[p].session, trail[p].id>> \in OrderRequests(o)
      BY <3>1 DEF OrderRequests
    <3>4. \A pair \in OrderRequests(o) : \E p \in Proposals(o) : pair = <<trail[p].session, trail[p].id>>
      <4> SUFFICES ASSUME NEW e \in Entries(o), e.session # None
                   PROVE  \E p \in Proposals(o) : <<e.session, e.id>> = <<trail[p].session, trail[p].id>>
        BY DEF OrderRequests
      <4> QED
        BY <3>2
    <3> QED
      BY <3>3, <3>4
  <2>5. ASSUME NEW k \in 1..Len(diag), NEW p \in Proposals(o)
        PROVE  diag[k].session = trail[p].session /\ diag[k].id = trail[p].id <=> k \in LoggedUnder(p)
    <3>1. HoldsIds(diag[k], minted, lastId)
      BY DEF ToolCallsInv, IdsAreOwn
    <3>2. SameRequest(diag[k], trail[p]) <=> SameCall(diag[k], trail[p])
      BY <2>1, <2>3, <3>1, IdsIdentify
    <3> QED
      BY <2>3, <3>2 DEF SameRequest, SameCall, LoggedUnder
  <2>6. ASSUME NEW k \in 1..Len(diag)
        PROVE  <<diag[k].session, diag[k].id>> \in OrderRequests(o)
                   <=> k \in UNION {LoggedUnder(p) : p \in Proposals(o)}
    <3>1. <<diag[k].session, diag[k].id>> \in OrderRequests(o)
              <=> \E p \in Proposals(o) :
                      diag[k].session = trail[p].session /\ diag[k].id = trail[p].id
      BY <2>4
    <3> QED
      BY <2>5, <3>1
  <2>7. TraceOrder(o) = {k \in 1..Len(diag) : k \in Mentioning(o) \/ <<diag[k].session, diag[k].id>> \in OrderRequests(o)}
    BY DEF TraceOrder, BelongsToOrder, Mentioning
  <2>8. Mentioning(o) \subseteq 1..Len(diag) /\ \A p \in Proposals(o) : LoggedUnder(p) \subseteq 1..Len(diag)
    BY DEF Mentioning, LoggedUnder
  <2>9. TraceOrder(o) = Mentioning(o) \cup UNION {LoggedUnder(p) : p \in Proposals(o)}
    BY <2>6, <2>7, <2>8
  <2>10. \A p, q \in Proposals(o) : p = q \/ trail[p].conn \in closed \/ trail[q].conn \in closed
    BY <2>2, <2>3 DEF ToolCallsInv, RunsApart
  <2> QED
    BY <2>9, <2>10
<1> QED
  BY <1>1, ToolCallsInvariant, PTL
=============================================================================
