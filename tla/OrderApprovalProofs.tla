------------------------ MODULE OrderApprovalProofs ------------------------
(***************************************************************************)
(* The approval gate of orders.py implements the promise of OrderApproval, *)
(* for any number of tabs, tool calls, orders and restarts: every step of  *)
(* OrderLedger proposes, sends, declines or forgets orders as the promise  *)
(* allows, or changes nothing that it speaks of.                           *)
(***************************************************************************)
EXTENDS OrderLedgerProofs

\* A step that keeps the run, the ledger and StoreLink is a stutter.
LEMMA Stutters ==
    ASSUME UNCHANGED <<run, orders, placed>>
    PROVE  UNCHANGED Approval!vars
<1>1. Sent' = Sent
  BY DEF Sent
<1>2. Waiting' = Waiting /\ Declined' = Declined
  BY <1>1 DEF Waiting, Declined, Inc
<1> QED
  BY <1>1, <1>2 DEF Approval!vars

\* Creating an order proposes it.
LEMMA CreateProposes ==
    ASSUME LedgerInv, NEW t \in Tools, Create(t)
    PROVE  Approval!Next
<1> DEFINE n == Len(orders) + 1
<1>1. /\ DOMAIN orders' = 1..n /\ DOMAIN orders = 1..(n - 1) /\ n \in Nat
      /\ \A o \in DOMAIN orders : orders'[o] = orders[o]
      /\ orders'[n] = NewOrder(call[t].gap)
  BY DEF Create, LedgerInv, TypeOK
<1>2. Sent' = Sent /\ run' = run
  BY DEF Create, Sent
<1>3. Inc(n) \notin Sent
  BY NextIsNew
<1>4. Inc(n) \notin Waiting \cup Declined
  <2>1. n \notin DOMAIN orders
    BY <1>1
  <2> QED
    BY <2>1 DEF Waiting, Declined, Inc
<1>5. \A o \in 1..n : o # n => o \in DOMAIN orders
  BY <1>1
<1>6. Waiting' = Waiting \cup {Inc(n)}
  <2>1. \A o \in DOMAIN orders : o \in 1..n /\ o # n
    BY <1>1
  <2>2. n \in 1..n /\ orders'[n].status = PENDING
    BY <1>1 DEF NewOrder
  <2>3. ASSUME NEW o \in 1..n PROVE o # n => orders'[o] = orders[o]
    BY <1>1, <1>5
  <2>4. Waiting' = {<<run, o>> : o \in {p \in 1..n : orders'[p].status = PENDING /\ <<run, p>> \notin Sent}}
    BY <1>1, <1>2 DEF Waiting, Inc
  <2> QED
    BY <1>3, <1>5, <2>1, <2>2, <2>3, <2>4 DEF Waiting, Inc
<1>7. Declined' = Declined
  BY <1>1, <1>2, <1>5 DEF Declined, Inc, NewOrder, PENDING, REJECTED
<1>8. Approval!Propose(Inc(n))
  BY <1>2, <1>3, <1>4, <1>6, <1>7 DEF Approval!Propose, Inc
<1> QED
  BY <1>4, <1>6, <1>8 DEF Approval!Next

\* An order that waits is sent when StoreLink accepts it.
LEMMA SubmitSends ==
    ASSUME LedgerInv, NEW a \in Tabs, Submit(a)
    PROVE  Approval!Next
<1> DEFINE o == Target(a)
<1>1. o \in DOMAIN orders /\ orders[o].status = PENDING /\ Inc(o) \notin Sent
  BY DEF Submit, LedgerInv, OwnerKnowsOrder, KnowsOrder, Critical
<1>2. /\ Len(placed) \in Nat /\ Len(placed') = Len(placed) + 1
      /\ \A k \in 1..Len(placed) : placed'[k] = placed[k]
      /\ placed'[Len(placed) + 1].inc = Inc(o)
  BY DEF Submit, LedgerInv, TypeOK
<1>3. Sent' = Sent \cup {Inc(o)} /\ run' = run /\ orders' = orders
  BY <1>2 DEF Submit, Sent
<1>4. Inc(o) \in Waiting
  BY <1>1 DEF Waiting
<1>5. Waiting' = Waiting \ {Inc(o)}
  BY <1>3 DEF Waiting, Inc
<1>6. Declined' = Declined
  BY <1>3 DEF Declined, Inc
<1>7. Approval!Send(Inc(o))
  BY <1>3, <1>4, <1>5, <1>6 DEF Approval!Send
<1> QED
  BY <1>4, <1>7 DEF Approval!Next

\* Marking it submitted changes nothing: it was sent already.
LEMMA MarkStutters ==
    ASSUME LedgerInv, NEW a \in Tabs, MarkSubmitted(a)
    PROVE  UNCHANGED Approval!vars
<1> DEFINE o == Target(a)
<1>1. /\ o \in DOMAIN orders /\ orders[o].status = PENDING
      /\ job[a].sl \in 1..Len(placed) /\ placed[job[a].sl].inc = Inc(o)
  BY DEF MarkSubmitted, LedgerInv, OwnerKnowsOrder, KnowsOrder, Critical
<1>2. /\ DOMAIN orders' = DOMAIN orders /\ orders'[o].status = SUBMITTED
      /\ \A p \in DOMAIN orders \ {o} : orders'[p] = orders[p]
  BY <1>1, Decides DEF MarkSubmitted, LedgerInv, TypeOK
<1>3. Sent' = Sent /\ Inc(o) \in Sent /\ run' = run
  BY <1>1 DEF MarkSubmitted, Sent
<1>4. Waiting' = Waiting
  BY <1>2, <1>3 DEF Waiting, Inc, PENDING, SUBMITTED
<1>5. Declined' = Declined
  BY <1>1, <1>2, <1>3 DEF Declined, Inc, PENDING, SUBMITTED, REJECTED
<1> QED
  BY <1>3, <1>4, <1>5 DEF Approval!vars

\* Storing its StoreLink id changes nothing either.
LEMMA StoreStutters ==
    ASSUME LedgerInv, NEW a \in Tabs, StoreDelivery(a)
    PROVE  UNCHANGED Approval!vars
<1>1. Target(a) \in DOMAIN orders /\ job[a].sl \in Nat \cup {None}
  BY DEF StoreDelivery, LedgerInv, OwnerKnowsOrder, KnowsOrder, Critical, TypeOK, Job
<1>2. /\ DOMAIN orders' = DOMAIN orders
      /\ \A p \in DOMAIN orders : orders'[p].status = orders[p].status
  BY <1>1, StoresId DEF StoreDelivery, LedgerInv, TypeOK
<1>3. Sent' = Sent /\ run' = run
  BY DEF StoreDelivery, Sent
<1>4. Waiting' = Waiting /\ Declined' = Declined
  BY <1>2, <1>3 DEF Waiting, Declined, Inc
<1> QED
  BY <1>3, <1>4 DEF Approval!vars

\* A rejection declines an order that waits: the lock is free, so StoreLink
\* does not hold it.
LEMMA RejectDeclines ==
    ASSUME LedgerInv, NEW a \in Tabs, Reject(a)
    PROVE  Approval!Next
<1> DEFINE o == Target(a)
<1>1. o \in DOMAIN orders /\ orders[o].status = PENDING
  BY DEF Reject, IsPending
<1>2. Inc(o) \notin Sent
  <2>1. ~BeingStored(o)
    <3>1. \A b \in Tabs : lock # b
      BY ConstantsAssumption DEF Reject
    <3> QED
      BY <3>1 DEF BeingStored
  <2> QED
    BY <1>1, <2>1 DEF LedgerInv, LedgerMatchesStoreLink, Matches, PENDING, SUBMITTED
<1>3. /\ DOMAIN orders' = DOMAIN orders /\ orders'[o].status = REJECTED
      /\ \A p \in DOMAIN orders \ {o} : orders'[p] = orders[p]
  BY <1>1, Decides DEF Reject, LedgerInv, TypeOK
<1>4. Sent' = Sent /\ run' = run
  BY DEF Reject, Sent
<1>5. Inc(o) \in Waiting
  BY <1>1, <1>2 DEF Waiting
<1>6. Waiting' = Waiting \ {Inc(o)}
  <2>1. PENDING # REJECTED
    BY DEF PENDING, REJECTED
  <2>2. Waiting' = {<<run, p>> : p \in {q \in DOMAIN orders :
                                         orders'[q].status = PENDING /\ <<run, q>> \notin Sent}}
    BY <1>3, <1>4 DEF Waiting, Inc
  <2>3. \A p \in DOMAIN orders : orders'[p].status = PENDING <=> orders[p].status = PENDING /\ p # o
    BY <1>3, <2>1
  <2>4. Waiting' = {<<run, p>> : p \in {q \in DOMAIN orders :
                           orders[q].status = PENDING /\ q # o /\ <<run, q>> \notin Sent}}
    BY <2>2, <2>3
  <2>5. \A q : <<run, q>> = Inc(o) <=> q = o
    BY DEF Inc
  <2> QED
    BY <2>4, <2>5 DEF Waiting, Inc
<1>7. Declined' = Declined \cup {Inc(o)}
  BY <1>1, <1>3, <1>4 DEF Declined, Inc
<1>8. Approval!Decline(Inc(o))
  BY <1>4, <1>5, <1>6, <1>7 DEF Approval!Decline
<1> QED
  BY <1>5, <1>8 DEF Approval!Next

\* A restart forgets.
LEMMA RestartForgets ==
    ASSUME Restart
    PROVE  Approval!Next
<1>1. DOMAIN orders' = {} /\ Sent' = Sent /\ run' = run + 1
  BY DEF Restart, Sent
<1>2. Waiting' = {} /\ Declined' = {}
  BY <1>1 DEF Waiting, Declined
<1> QED
  BY <1>1, <1>2 DEF Approval!Next, Approval!Forget

\* Every step of the ledger is a step of the abstract gate, or none.
LEMMA ApprovalStep == LedgerInv /\ [Next]_vars => [Approval!Next]_(Approval!vars)
<1> SUFFICES ASSUME LedgerInv, [Next]_vars PROVE Approval!Next \/ UNCHANGED Approval!vars
  OBVIOUS
<1>1. ASSUME NEW t \in Tools, Create(t) PROVE Approval!Next
  BY <1>1, CreateProposes
<1>2. ASSUME NEW t \in Tools,
             (\E g \in Gaps : ProposeOrder(t, g)) \/ ListOpen(t) \/ RecordProposed(t)
      PROVE  UNCHANGED Approval!vars
  BY <1>2, Stutters DEF ProposeOrder, ListOpen, RecordProposed
<1>3. ASSUME NEW a \in Tabs,
             \/ Render(a)
             \/ \E seen \in view[a], d \in {"approve", "reject"} : Click(a, seen, d)
             \/ BeginApproval(a) \/ IgnoreDecision(a) \/ Refuse(a) \/ RecordRefusedApproval(a)
             \/ RecordSubmissionFailed(a) \/ RecordApproved(a) \/ RecordSubmitted(a) \/ RecordRejected(a)
      PROVE  UNCHANGED Approval!vars
  BY <1>3, Stutters DEF Render, Click, BeginApproval, IgnoreDecision, Refuse, RecordRefusedApproval,
         RecordSubmissionFailed, RecordApproved, RecordSubmitted, RecordRejected
<1>4. ASSUME NEW a \in Tabs, Submit(a) PROVE Approval!Next
  BY <1>4, SubmitSends
<1>5. ASSUME NEW a \in Tabs, MarkSubmitted(a) PROVE UNCHANGED Approval!vars
  BY <1>5, MarkStutters
<1>6. ASSUME NEW a \in Tabs, StoreDelivery(a) PROVE UNCHANGED Approval!vars
  BY <1>6, StoreStutters
<1>7. ASSUME NEW a \in Tabs, Reject(a) PROVE Approval!Next
  BY <1>7, RejectDeclines
<1>8. CASE Restart
  BY <1>8, RestartForgets
<1>9. CASE UNCHANGED vars
  BY <1>9, Stutters DEF vars
<1> QED
  BY <1>1, <1>2, <1>3, <1>4, <1>5, <1>6, <1>7, <1>8, <1>9 DEF Next, ToolStep, TabStep

\* The ledger starts where the abstract gate starts.
LEMMA ApprovalInit == Init => Approval!Init
<1> SUFFICES ASSUME Init PROVE Approval!Init
  OBVIOUS
<1>1. Sent = {} /\ DOMAIN orders = {}
  BY DEF Init, Sent
<1> QED
  BY <1>1 DEF Init, Approval!Init, Waiting, Declined

\* The gate implements its promise: an order waits, is sent at most once and
\* only while it waits, or is declined; a restart forgets it but never takes
\* back what was sent.
THEOREM GateImplementsApproval == Spec => ImplementsApproval
  BY ApprovalInit, ApprovalStep, LedgerInvariant, PTL DEF Spec, ImplementsApproval, Approval!Spec
=============================================================================
