------------------------- MODULE OrderTrailProofs --------------------------
(***************************************************************************)
(* The audit trail of OrderLedger, and what single steps promise, for      *)
(* every value of the constants.  A record is true of StoreLink when it is *)
(* written; decisions stand; a submitted order shows its delivery; after a *)
(* final record nothing more is said of the order (TrailInv); on a disk    *)
(* that works the records of an order add up to what happened to it        *)
(* (Stories), and on one that does not they stay true; the warning of a    *)
(* duplicate misses only orders inserted while the call was running.       *)
(***************************************************************************)
EXTENDS OrderLedgerProofs, FiniteSetTheorems

USE ConstantsAssumption

----------------------------------------------------------------------------
(* The records. *)

\* Emit adds at most the record it was given.
LEMMA EmitAdds ==
    ASSUME TypeOK, NEW r, Emit(r), NEW k \in Len(audit) + 1 .. Len(audit')
    PROVE  audit'[k] = r
  BY DEF Emit, TypeOK

\* Every record a step adds is true after the step.
LEMMA TrailStep ==
    LedgerInv /\ [Next]_vars => \A k \in Len(audit) + 1 .. Len(audit') : RecordIsTrue(audit'[k])
<1> SUFFICES ASSUME LedgerInv, [Next]_vars, NEW k \in Len(audit) + 1 .. Len(audit')
             PROVE  RecordIsTrue(audit'[k])
  OBVIOUS
<1> USE DEF Record, RecordIsTrue
<1>0. TypeOK
  BY DEF LedgerInv
<1>1. ASSUME audit' = audit PROVE FALSE
  BY <1>0, <1>1 DEF TypeOK
<1>2. ASSUME NEW t \in Tools, RecordProposed(t) PROVE RecordIsTrue(audit'[k])
  <2>1. audit'[k] = Record(Inc(call[t].order), "order_proposed", None, None)
    BY <1>0, <1>2, EmitAdds DEF RecordProposed
  <2> QED
    BY <2>1
<1>3. ASSUME NEW a \in Tabs, RecordRefusedApproval(a) \/ RecordApproved(a)
      PROVE  RecordIsTrue(audit'[k])
  <2>1. audit'[k] = Record(Inc(Target(a)), "order_approved", a, None)
    BY <1>0, <1>3, EmitAdds DEF RecordRefusedApproval, RecordApproved
  <2> QED
    BY <2>1
<1>4. ASSUME NEW a \in Tabs, RecordSubmissionFailed(a) PROVE RecordIsTrue(audit'[k])
  <2>1. audit'[k] = Record(Inc(Target(a)), "order_submission_failed", a, None)
    BY <1>0, <1>4, EmitAdds DEF RecordSubmissionFailed
  <2>2. Inc(Target(a)) \notin Sent
    BY <1>0, <1>4 DEF RecordSubmissionFailed, LedgerInv, OwnerKnowsOrder, KnowsOrder, Critical
  <2> QED
    BY <2>1, <2>2
<1>5. ASSUME NEW a \in Tabs, RecordSubmitted(a) PROVE RecordIsTrue(audit'[k])
  <2>1. audit'[k] = Record(Inc(Target(a)), "order_submitted_to_storelink", a, orders[Target(a)].sl)
    BY <1>0, <1>5, EmitAdds DEF RecordSubmitted
  <2>2. placed[orders[Target(a)].sl].inc = Inc(Target(a))
    BY <1>5 DEF RecordSubmitted, LedgerInv, DecisionKnown, LedgerMatchesStoreLink, Matches
  <2> QED
    BY <2>1, <2>2
<1>6. ASSUME NEW a \in Tabs, RecordRejected(a) PROVE RecordIsTrue(audit'[k])
  <2>1. audit'[k] = Record(Inc(Target(a)), "order_rejected", a, None)
    BY <1>0, <1>6, EmitAdds DEF RecordRejected
  <2>2. Target(a) \in DOMAIN orders /\ orders[Target(a)].status = REJECTED
    BY <1>6 DEF RecordRejected, LedgerInv, DecisionKnown
  <2>3. ~BeingStored(Target(a))
    <3> SUFFICES ASSUME NEW b \in Tabs, job[b].pc = "placed", Target(b) = Target(a) PROVE FALSE
      BY DEF BeingStored
    <3> QED
      BY <1>0, <2>2 DEF LedgerInv, OwnerKnowsOrder, KnowsOrder, Critical, PENDING, REJECTED
  <2>4. Inc(Target(a)) \notin Sent
    BY <1>0, <2>2, <2>3 DEF LedgerInv, LedgerMatchesStoreLink, Matches, SUBMITTED, REJECTED
  <2> QED
    BY <2>1, <2>4
<1>7. ASSUME NEW t \in Tools, (\E g \in Gaps : ProposeOrder(t, g)) \/ ListOpen(t) \/ Create(t)
      PROVE  audit' = audit
  BY <1>7 DEF ProposeOrder, ListOpen, Create
<1>8. ASSUME NEW a \in Tabs,
             \/ Render(a)
             \/ \E seen \in view[a], d \in {"approve", "reject"} : Click(a, seen, d)
             \/ BeginApproval(a) \/ IgnoreDecision(a) \/ Submit(a) \/ Refuse(a)
             \/ MarkSubmitted(a) \/ StoreDelivery(a) \/ Reject(a)
      PROVE  audit' = audit
  BY <1>8 DEF Render, Click, BeginApproval, IgnoreDecision, Submit, Refuse, MarkSubmitted,
         StoreDelivery, Reject
<1>9. Restart \/ UNCHANGED vars => audit' = audit
  BY DEF Restart, vars
<1> QED
  BY <1>1, <1>2, <1>3, <1>4, <1>5, <1>6, <1>7, <1>8, <1>9 DEF Next, ToolStep, TabStep

\* The trail only ever receives true records: "Sent to StoreLink as" names the
\* order's own StoreLink id, "NOT placed" and "Nothing was sent" are never
\* written of an order StoreLink holds.
THEOREM TrailIsTrue == Spec => TrailIsTrueWhenWritten
<1>1. LedgerInv /\ [Next]_vars =>
          [\A k \in Len(audit) + 1 .. Len(audit') : RecordIsTrue(audit'[k])]_vars
  BY TrailStep
<1> QED
  BY <1>1, LedgerInvariant, PTL DEF Spec, TrailIsTrueWhenWritten

----------------------------------------------------------------------------
(* Decisions stand. *)

\* No step but a restart undoes what the ledger holds.
LEMMA StandsStep ==
    LedgerInv /\ [Next]_vars /\ run' = run => \A o \in DOMAIN orders : Stands(o)
<1> SUFFICES ASSUME LedgerInv, [Next]_vars, run' = run, NEW o \in DOMAIN orders PROVE Stands(o)
  OBVIOUS
<1> USE DEF Stands
<1>0. TypeOK /\ orders \in Seq(Order) /\ orders[o] \in Order
  BY DEF LedgerInv, TypeOK
<1>1. ASSUME NEW t \in Tools, Create(t) PROVE Stands(o)
  BY <1>0, <1>1 DEF Create
<1>2. ASSUME NEW a \in Tabs, MarkSubmitted(a) PROVE Stands(o)
  <2>1. Target(a) \in DOMAIN orders /\ orders[Target(a)].status = PENDING
    BY <1>2 DEF MarkSubmitted, LedgerInv, OwnerKnowsOrder, KnowsOrder, Critical
  <2> QED
    BY <1>0, <1>2, <2>1 DEF MarkSubmitted, Order
<1>3. ASSUME NEW a \in Tabs, Reject(a) PROVE Stands(o)
  BY <1>0, <1>3 DEF Reject, IsPending, Order
<1>4. ASSUME NEW a \in Tabs, StoreDelivery(a) PROVE Stands(o)
  <2>1. /\ Target(a) \in DOMAIN orders
        /\ job[a].sl \in 1..Len(placed) /\ placed[job[a].sl].inc = Inc(Target(a))
    BY <1>4 DEF StoreDelivery, LedgerInv, OwnerKnowsOrder, KnowsOrder, Critical
  <2>2. orders[Target(a)].sl # None => orders[Target(a)].sl = job[a].sl
    BY <2>1 DEF LedgerInv, LedgerMatchesStoreLink, Matches, PlacedOnce
  <2> QED
    BY <1>0, <1>4, <2>1, <2>2 DEF StoreDelivery, Order
<1>5. ASSUME NEW t \in Tools,
             (\E g \in Gaps : ProposeOrder(t, g)) \/ ListOpen(t) \/ RecordProposed(t)
      PROVE  orders' = orders
  BY <1>5 DEF ProposeOrder, ListOpen, RecordProposed
<1>6. ASSUME NEW a \in Tabs,
             \/ Render(a)
             \/ \E seen \in view[a], d \in {"approve", "reject"} : Click(a, seen, d)
             \/ BeginApproval(a) \/ IgnoreDecision(a) \/ Submit(a) \/ Refuse(a)
             \/ RecordRefusedApproval(a) \/ RecordSubmissionFailed(a)
             \/ RecordApproved(a) \/ RecordSubmitted(a) \/ RecordRejected(a)
      PROVE  orders' = orders
  BY <1>6 DEF Render, Click, BeginApproval, IgnoreDecision, Submit, Refuse, RecordRefusedApproval,
         RecordSubmissionFailed, RecordApproved, RecordSubmitted, RecordRejected
<1>7. ~Restart
  BY <1>0 DEF Restart, TypeOK
<1>8. UNCHANGED vars => orders' = orders
  BY DEF vars
<1>9. orders' = orders => Stands(o)
  OBVIOUS
<1> QED
  BY <1>1, <1>2, <1>3, <1>4, <1>5, <1>6, <1>7, <1>8, <1>9 DEF Next, ToolStep, TabStep

\* Within a run an order never disappears and a decision is never undone,
\* changed or attributed to somebody else.
THEOREM DecisionsAreFinal == Spec => DecisionsStand
<1>1. LedgerInv /\ [Next]_vars =>
          [run' = run => \A o \in DOMAIN orders : Stands(o)]_vars
  BY StandsStep
<1> QED
  BY <1>1, LedgerInvariant, PTL DEF Spec, DecisionsStand

----------------------------------------------------------------------------
(* What a poll may see. *)

\* No other step leaves a submitted order without its delivery.
LEMMA DeliveryStep ==
    LedgerInv /\ SubmittedShowsDelivery /\ [Next]_vars => SubmittedShowsDelivery'
<1> SUFFICES ASSUME LedgerInv, SubmittedShowsDelivery, [Next]_vars,
                    NEW o \in DOMAIN orders', orders'[o].status = SUBMITTED, orders'[o].sl = None
             PROVE  StoringDelivery(o)'
  BY DEF SubmittedShowsDelivery
<1> USE DEF Target
<1>0. /\ TypeOK /\ OwnerHoldsLock /\ OwnerKnowsOrder
      /\ orders \in Seq(Order) /\ job \in [Tabs -> Job] /\ None \notin Tabs
  BY DEF LedgerInv, TypeOK
\* An order that was submitted without its delivery has its approval at work,
\* which holds the lock.
<1>1. ASSUME o \in DOMAIN orders, orders[o] = orders'[o]
      PROVE  \E b \in Tabs : lock = b /\ job[b].pc = "marked" /\ job[b].seen[2] = o /\ orders[o].by = b
  BY <1>1 DEF SubmittedShowsDelivery, StoringDelivery
<1>2. ASSUME NEW t \in Tools, Create(t) PROVE StoringDelivery(o)'
  <2>1. o \in DOMAIN orders /\ orders[o] = orders'[o]
    BY <1>0, <1>2 DEF Create, NewOrder, PENDING, SUBMITTED
  <2> QED
    BY <1>0, <1>1, <1>2, <2>1 DEF Create
<1>3. ASSUME NEW a \in Tabs, MarkSubmitted(a) PROVE StoringDelivery(o)'
  <2>1. lock = a /\ o \in DOMAIN orders
    BY <1>0, <1>3 DEF MarkSubmitted, OwnerHoldsLock, Critical
  <2>2. CASE o = job[a].seen[2]
    <3>1. orders'[o].by = a
      BY <1>0, <1>3, <2>1, <2>2, Decides DEF MarkSubmitted
    <3>2. lock' = a /\ job'[a].pc = "marked" /\ job'[a].seen = job[a].seen
      BY <1>0, <1>3, <2>1, JobMoves DEF MarkSubmitted, JobPCs, Critical, LedgerInv
    <3> QED
      BY <2>2, <3>1, <3>2 DEF StoringDelivery
  <2>3. CASE o # job[a].seen[2]
    <3>1. orders[o] = orders'[o]
      BY <1>0, <1>3, <2>1, <2>3 DEF MarkSubmitted
    <3> QED
      BY <1>1, <1>3, <2>1, <3>1 DEF MarkSubmitted
  <2> QED
    BY <2>2, <2>3
<1>4. ASSUME NEW a \in Tabs, StoreDelivery(a) PROVE StoringDelivery(o)'
  <2>1. /\ lock = a /\ o \in DOMAIN orders
        /\ job[a].sl \in 1..Len(placed)
    BY <1>0, <1>4 DEF StoreDelivery, OwnerHoldsLock, OwnerKnowsOrder, KnowsOrder, Critical
  <2>2. o # job[a].seen[2]
    BY <1>0, <1>4, <2>1 DEF StoreDelivery, Order, TypeOK
  <2>3. orders[o] = orders'[o]
    BY <1>0, <1>4, <2>1, <2>2 DEF StoreDelivery
  <2> QED
    BY <1>1, <2>1, <2>2, <2>3
<1>5. ASSUME NEW a \in Tabs, Reject(a) PROVE StoringDelivery(o)'
  <2>1. o \in DOMAIN orders /\ o # job[a].seen[2]
    BY <1>0, <1>5 DEF Reject, Order, REJECTED, SUBMITTED
  <2>2. orders[o] = orders'[o]
    BY <1>0, <1>5, <2>1 DEF Reject
  <2> QED
    BY <1>0, <1>1, <1>5, <2>1, <2>2 DEF Reject
<1>6. ASSUME orders' = orders, NEW b \in Tabs, lock' = lock, job'[b] = job[b],
             lock = b, job[b].pc = "marked", job[b].seen[2] = o, orders[o].by = b
      PROVE  StoringDelivery(o)'
  BY <1>6 DEF StoringDelivery
<1>7. ASSUME NEW t \in Tools,
             (\E g \in Gaps : ProposeOrder(t, g)) \/ ListOpen(t) \/ RecordProposed(t)
      PROVE  StoringDelivery(o)'
  <2>1. UNCHANGED <<orders, lock, job>>
    BY <1>7 DEF ProposeOrder, ListOpen, RecordProposed
  <2> QED
    BY <1>1, <1>6, <2>1
<1>8. ASSUME NEW a \in Tabs,
             \/ Render(a)
             \/ \E seen \in view[a], d \in {"approve", "reject"} : Click(a, seen, d)
             \/ BeginApproval(a) \/ IgnoreDecision(a) \/ Submit(a) \/ Refuse(a)
             \/ RecordRefusedApproval(a) \/ RecordSubmissionFailed(a)
             \/ RecordApproved(a) \/ RecordSubmitted(a) \/ RecordRejected(a)
      PROVE  StoringDelivery(o)'
  <2>1. orders' = orders /\ job[a].pc # "marked" /\ \A b \in Tabs \ {a} : job'[b] = job[b]
    BY <1>0, <1>8 DEF Render, Click, BeginApproval, IgnoreDecision, Submit, Refuse,
           RecordRefusedApproval, RecordSubmissionFailed, RecordApproved, RecordSubmitted,
           RecordRejected
  <2>2. lock' = lock \/ lock \in {None, a}
    BY <1>0, <1>8 DEF Render, Click, BeginApproval, IgnoreDecision, Submit, Refuse,
           RecordRefusedApproval, RecordSubmissionFailed, RecordApproved, RecordSubmitted,
           RecordRejected, OwnerHoldsLock, Critical
  <2> QED
    BY <1>0, <1>1, <1>6, <2>1, <2>2
<1>9. ASSUME Restart PROVE FALSE
  BY <1>9 DEF Restart
<1>10. ASSUME UNCHANGED vars PROVE StoringDelivery(o)'
  BY <1>1, <1>6, <1>10 DEF vars
<1> QED
  BY <1>2, <1>3, <1>4, <1>5, <1>7, <1>8, <1>9, <1>10 DEF Next, ToolStep, TabStep

\* A submitted order is without its delivery only under the lock of the
\* approval that is about to store it.
THEOREM DeliveryIsShown == Spec => []SubmittedShowsDelivery
<1>1. Init => SubmittedShowsDelivery
  BY DEF Init, SubmittedShowsDelivery
<1> QED
  BY <1>1, DeliveryStep, LedgerInvariant, PTL DEF Spec

----------------------------------------------------------------------------
(* The end of an order's story: what the records say once it is decided. *)

Final == {"order_submitted_to_storelink", "order_rejected"}

\* A job that is past the check that its order is pending.
Deciding == JobPCs \ {"idle", "approve", "reject"}
At(o, pcs) == \E a \in Tabs : job[a].pc \in pcs /\ job[a].seen[2] = o

\* No two requests decide one order, also after the lock is released; neither
\* do two calls propose one.
OneDecider ==
    \A a, b \in Tabs :
        job[a].pc \in Deciding /\ job[b].pc \in Deciding /\ job[a].seen[2] = job[b].seen[2] => a = b

OneProposer ==
    \A t \in Tools : call[t].pc = "created" =>
        /\ call[t].order \in DOMAIN orders
        /\ \A u \in Tools : call[u].pc = "created" /\ call[u].order = call[t].order => u = t

\* A decision that is made is the tab's that is at work on it.
Decided == {"marked", "recording", "announcing", "rejected"}
DecisionIsOwn == \A a \in Tabs : job[a].pc \in Decided => orders[job[a].seen[2]].by = a

\* The trail tells of this run's orders or of an earlier run's.
RecordsAreKnown ==
    \A k \in 1..Len(audit) :
        \/ audit[k].inc[1] < run
        \/ audit[k].inc[1] = run /\ audit[k].inc[2] \in DOMAIN orders

\* When the last record of a decision is there nobody is at work on the order,
\* and nobody can be again.
FinalsAreOver ==
    \A k \in 1..Len(audit) :
        audit[k].event \in Final /\ audit[k].inc[1] = run =>
            orders[audit[k].inc[2]].status # PENDING /\ ~At(audit[k].inc[2], Deciding)

TrailInv ==
    OneDecider /\ OneProposer /\ DecisionIsOwn /\ RecordsAreKnown /\ FinalsAreOver /\ TrailIsFinal

\* While nobody holds the lock, nobody is at work on a pending order.
LEMMA PendingIsFree ==
    ASSUME LedgerInv, lock = None, NEW o, IsPending(o)
    PROVE  ~At(o, Deciding)
<1> SUFFICES ASSUME NEW a \in Tabs, job[a].pc \in Deciding, job[a].seen[2] = o PROVE FALSE
  BY DEF At
<1>1. None \notin Tabs /\ None \notin Nat /\ job[a] \in Job
  BY DEF LedgerInv, TypeOK
<1>2. job[a].pc \notin Critical
  BY <1>1 DEF LedgerInv, OwnerHoldsLock
<1>3. ASSUME job[a].pc \in {"recording", "announcing"} PROVE FALSE
  <2>1. orders[o].sl \in Nat /\ o \in DOMAIN orders
    BY <1>3 DEF LedgerInv, DecisionKnown, Target
  <2>2. Inc(o) \in Sent
    BY <1>1, <2>1 DEF LedgerInv, LedgerMatchesStoreLink, Matches, Sent
  <2>3. ~BeingStored(o)
    BY <1>1 DEF BeingStored
  <2> QED
    BY <2>1, <2>2, <2>3 DEF LedgerInv, LedgerMatchesStoreLink, Matches, IsPending, PENDING, SUBMITTED
<1>4. job[a].pc # "rejected"
  BY DEF LedgerInv, DecisionKnown, Target, IsPending, PENDING, REJECTED
<1> QED
  BY <1>1, <1>2, <1>3, <1>4 DEF Job, JobPCs, Deciding

\* The order of a decision that is made is decided in the ledger too.
LEMMA DecidedStatus ==
    ASSUME LedgerInv, OneDecider, NEW a \in Tabs, job[a].pc \in Decided
    PROVE  /\ job[a].seen[2] \in DOMAIN orders
           /\ orders[job[a].seen[2]].status = IF job[a].pc = "rejected" THEN REJECTED ELSE SUBMITTED
<1>1. CASE job[a].pc = "marked"
  BY <1>1 DEF LedgerInv, OwnerKnowsOrder, KnowsOrder, Critical, Target
<1>2. CASE job[a].pc = "rejected"
  BY <1>2 DEF LedgerInv, DecisionKnown, Target
<1>3. CASE job[a].pc \in {"recording", "announcing"}
  <2>1. orders[job[a].seen[2]].sl \in Nat /\ job[a].seen[2] \in DOMAIN orders
    BY <1>3 DEF LedgerInv, DecisionKnown, Target
  <2>2. Inc(job[a].seen[2]) \in Sent
    BY <2>1 DEF LedgerInv, LedgerMatchesStoreLink, Matches, Sent
  <2>3. ~BeingStored(job[a].seen[2])
    BY <1>3 DEF BeingStored, Target, OneDecider, Deciding, JobPCs, Critical
  <2> QED
    BY <1>3, <2>1, <2>2, <2>3 DEF LedgerInv, LedgerMatchesStoreLink, Matches
<1> QED
  BY <1>1, <1>2, <1>3 DEF Decided

\* A request is at work on its order from the check on, and never on another.
LEMMA DecidingMoves ==
    ASSUME LedgerInv, [Next]_vars, NEW b \in Tabs, job'[b].pc \in Deciding
    PROVE  /\ job'[b].seen = job[b].seen /\ run' = run
           /\ \/ job[b].pc \in Deciding
              \/ /\ lock = None /\ IsPending(job[b].seen[2])
                 /\ \A c \in Tabs \ {b} : job'[c] = job[c]
<1> USE DEF Deciding
<1>0. job \in [Tabs -> Job] /\ ClickNamesOrder
  BY DEF LedgerInv, TypeOK
<1>1. CASE UNCHANGED vars
  BY <1>1 DEF vars
<1>2. CASE Restart
  BY <1>2 DEF Restart, IdleJob
<1>3. ASSUME NEW t \in Tools, (\E g \in Gaps : ProposeOrder(t, g)) \/ ToolStep(t)
      PROVE  job' = job /\ run' = run
  BY <1>3 DEF ProposeOrder, ToolStep, ListOpen, Create, RecordProposed
<1>4. ASSUME NEW a \in Tabs, Render(a) PROVE job' = job /\ run' = run
  BY <1>4 DEF Render
<1>5. ASSUME NEW a \in Tabs, NEW seen \in view[a], NEW d \in {"approve", "reject"}, Click(a, seen, d)
      PROVE  job'[b] = job[b] /\ run' = run
  BY <1>0, <1>5 DEF Click, IdleJob
<1>6. ASSUME NEW a \in Tabs, BeginApproval(a) \/ Reject(a)
      PROVE  /\ run' = run /\ lock = None /\ IsPending(job[a].seen[2])
             /\ job'[a].seen = job[a].seen /\ \A c \in Tabs \ {a} : job'[c] = job[c]
  BY <1>0, <1>6, JobMoves DEF BeginApproval, Reject, JobPCs, Critical, Target
<1>7. ASSUME NEW a \in Tabs, Refuse(a) \/ RecordRefusedApproval(a) \/ MarkSubmitted(a)
                              \/ StoreDelivery(a) \/ RecordApproved(a)
      PROVE  /\ run' = run /\ job[a].pc \in Deciding
             /\ job'[a].seen = job[a].seen /\ \A c \in Tabs \ {a} : job'[c] = job[c]
  BY <1>0, <1>7, JobMoves
     DEF Refuse, RecordRefusedApproval, MarkSubmitted, StoreDelivery, RecordApproved, JobPCs, Critical
<1>8. ASSUME NEW a \in Tabs, Submit(a)
      PROVE  /\ run' = run /\ job[a].pc \in Deciding
             /\ job'[a].seen = job[a].seen /\ \A c \in Tabs \ {a} : job'[c] = job[c]
  BY <1>0, <1>8 DEF Submit, JobPCs, Critical, Job
<1>9. ASSUME NEW a \in Tabs, IgnoreDecision(a) \/ RecordSubmissionFailed(a)
                              \/ RecordSubmitted(a) \/ RecordRejected(a)
      PROVE  run' = run /\ job'[a].pc = "idle" /\ \A c \in Tabs \ {a} : job'[c] = job[c]
  BY <1>0, <1>9, JobEnds DEF IgnoreDecision, RecordSubmissionFailed, RecordSubmitted, RecordRejected
<1> QED
  BY <1>1, <1>2, <1>3, <1>4, <1>5, <1>6, <1>7, <1>8, <1>9 DEF Next, TabStep

\* A request that starts on an order finds nobody at work on it.
LEMMA OneDeciderStep == LedgerInv /\ OneDecider /\ [Next]_vars => OneDecider'
<1> SUFFICES ASSUME LedgerInv, OneDecider, [Next]_vars, NEW a \in Tabs, NEW b \in Tabs,
                    job'[a].pc \in Deciding, job'[b].pc \in Deciding,
                    job'[a].seen[2] = job'[b].seen[2], a # b
             PROVE  FALSE
  BY DEF OneDecider, Deciding
<1>1. CASE job[a].pc \in Deciding /\ job[b].pc \in Deciding
  BY <1>1, DecidingMoves DEF OneDecider
<1>2. ASSUME NEW c \in Tabs, NEW d \in Tabs, c # d, job'[c].pc \in Deciding, job'[d].pc \in Deciding,
             job'[c].seen[2] = job'[d].seen[2], job[c].pc \notin Deciding
      PROVE  FALSE
  <2>1. lock = None /\ IsPending(job[c].seen[2]) /\ job'[d] = job[d] /\ job'[c].seen = job[c].seen
    BY <1>2, DecidingMoves
  <2>2. At(job[c].seen[2], Deciding)
    BY <1>2, <2>1 DEF At
  <2> QED
    BY <2>1, <2>2, PendingIsFree
<1> QED
  BY <1>1, <1>2

\* A call that proposes inserted the order itself.
LEMMA OneProposerStep == LedgerInv /\ OneProposer /\ [Next]_vars => OneProposer'
<1> SUFFICES ASSUME LedgerInv, OneProposer, [Next]_vars PROVE OneProposer'
  OBVIOUS
<1>0. call \in [Tools -> Call] /\ orders \in Seq(Order)
  BY DEF LedgerInv, TypeOK
<1>1. ASSUME NEW t \in Tools, Create(t) PROVE OneProposer'
  <2>1. /\ DOMAIN orders' = 1..(Len(orders) + 1) /\ DOMAIN orders = 1..Len(orders)
        /\ Len(orders) \in Nat
    BY <1>0, <1>1 DEF Create
  <2>2. /\ call'[t].pc = "created" /\ call'[t].order = Len(orders) + 1
        /\ \A u \in Tools \ {t} : call'[u] = call[u]
    BY <1>0, <1>1 DEF Create, Call
  <2> QED
    BY <2>1, <2>2 DEF OneProposer
<1>2. ASSUME DOMAIN orders' = DOMAIN orders,
             \A u \in Tools : call'[u] = call[u] \/ call'[u].pc # "created"
      PROVE  OneProposer'
  BY <1>2 DEF OneProposer
<1>3. ASSUME NEW t \in Tools, (\E g \in Gaps : ProposeOrder(t, g)) \/ ListOpen(t) \/ RecordProposed(t)
      PROVE  OneProposer'
  <2>1. orders' = orders
    BY <1>3 DEF ProposeOrder, ListOpen, RecordProposed
  <2>2. CASE (\E g \in Gaps : ProposeOrder(t, g)) \/ RecordProposed(t)
    <3>1. call'[t].pc # "created" /\ \A u \in Tools \ {t} : call'[u] = call[u]
      <4>1. ASSUME NEW g \in Gaps, ProposeOrder(t, g)
            PROVE  call'[t].pc # "created" /\ \A u \in Tools \ {t} : call'[u] = call[u]
        BY <1>0, <4>1 DEF ProposeOrder, IdleCall
      <4>2. ASSUME RecordProposed(t)
            PROVE  call'[t].pc # "created" /\ \A u \in Tools \ {t} : call'[u] = call[u]
        BY <1>0, <4>2 DEF RecordProposed, IdleCall
      <4> QED
        BY <2>2, <4>1, <4>2
    <3> QED
      BY <1>2, <2>1, <3>1
  <2>3. CASE ListOpen(t)
    <3> DEFINE existing == open_for(call[t].gap)
    <3>1. call' = [call EXCEPT ![t].pc = "creating", ![t].listed = Len(orders), ![t].existing = existing]
      BY <2>3 DEF ListOpen
    <3> HIDE DEF existing
    <3>2. call'[t].pc # "created" /\ \A u \in Tools \ {t} : call'[u] = call[u]
      BY <1>0, <3>1 DEF Call
    <3> QED
      BY <1>2, <2>1, <3>2
  <2> QED
    BY <1>3, <2>2, <2>3
<1>4. CASE Restart
  BY <1>4 DEF Restart, IdleCall, OneProposer
<1>5. ASSUME call' = call, orders' = orders PROVE OneProposer'
  BY <1>2, <1>5
<1>6. ASSUME NEW a \in Tabs, MarkSubmitted(a) \/ StoreDelivery(a) \/ Reject(a) PROVE OneProposer'
  <2>1. call' = call /\ DOMAIN orders' = DOMAIN orders
    BY <1>0, <1>6 DEF MarkSubmitted, StoreDelivery, Reject
  <2> QED
    BY <1>2, <2>1
<1>7. ASSUME NEW a \in Tabs,
             \/ Render(a)
             \/ \E seen \in view[a], d \in {"approve", "reject"} : Click(a, seen, d)
             \/ BeginApproval(a) \/ IgnoreDecision(a) \/ Submit(a) \/ Refuse(a)
             \/ RecordRefusedApproval(a) \/ RecordSubmissionFailed(a)
             \/ RecordApproved(a) \/ RecordSubmitted(a) \/ RecordRejected(a)
      PROVE  call' = call /\ orders' = orders
  BY <1>7 DEF Render, Click, BeginApproval, IgnoreDecision, Submit, Refuse, RecordRefusedApproval,
         RecordSubmissionFailed, RecordApproved, RecordSubmitted, RecordRejected
<1>8. UNCHANGED vars => call' = call /\ orders' = orders
  BY DEF vars
<1> QED
  BY <1>1, <1>3, <1>4, <1>5, <1>6, <1>7, <1>8 DEF Next, ToolStep, TabStep

\* Who decided an order wrote it there, and the ledger keeps it.
LEMMA DecisionIsOwnStep ==
    LedgerInv /\ OneDecider /\ DecisionIsOwn /\ [Next]_vars => DecisionIsOwn'
<1> SUFFICES ASSUME LedgerInv, OneDecider, DecisionIsOwn, [Next]_vars,
                    NEW b \in Tabs, job'[b].pc \in Decided
             PROVE  orders'[job'[b].seen[2]].by = b
  BY DEF DecisionIsOwn
<1> USE DEF Decided
<1>0. job \in [Tabs -> Job] /\ ClickNamesOrder /\ orders \in Seq(Order)
  BY DEF LedgerInv, TypeOK
<1>1. job'[b].seen = job[b].seen /\ run' = run
  BY DecidingMoves DEF Deciding, JobPCs, Critical
<1>2. CASE job[b].pc \in Decided
  <2>1. orders[job[b].seen[2]].by = b
    BY <1>2 DEF DecisionIsOwn
  <2>2. job[b].seen[2] \in DOMAIN orders /\ orders[job[b].seen[2]].status # PENDING
    BY <1>2, DecidedStatus DEF PENDING, SUBMITTED, REJECTED
  <2> QED
    BY <1>1, <2>1, <2>2, StandsStep DEF Stands
<1>3. ASSUME NEW a \in Tabs, MarkSubmitted(a) PROVE job[b].pc \notin Decided => b = a
  BY <1>0, <1>3 DEF MarkSubmitted
<1>4. ASSUME MarkSubmitted(b) PROVE orders'[job[b].seen[2]].by = b
  <2>1. job[b].seen[2] \in DOMAIN orders
    BY <1>4 DEF MarkSubmitted, LedgerInv, OwnerKnowsOrder, KnowsOrder, Critical, Target
  <2> QED
    BY <1>0, <1>4, <2>1, Decides DEF MarkSubmitted, Target
<1>5. ASSUME NEW a \in Tabs, Reject(a) PROVE job[b].pc \notin Decided => b = a
  BY <1>0, <1>5 DEF Reject
<1>6. ASSUME Reject(b) PROVE orders'[job[b].seen[2]].by = b
  BY <1>0, <1>6, Decides DEF Reject, Target, IsPending
<1>7. ASSUME NEW t \in Tools, (\E g \in Gaps : ProposeOrder(t, g)) \/ ToolStep(t)
      PROVE  job[b].pc \in Decided
  BY <1>7 DEF ProposeOrder, ToolStep, ListOpen, Create, RecordProposed
<1>8. ASSUME NEW a \in Tabs, Render(a) \/ \E seen \in view[a], d \in {"approve", "reject"} : Click(a, seen, d)
      PROVE  job[b].pc \in Decided
  <2>1. CASE Render(a)
    BY <2>1 DEF Render
  <2>2. ASSUME NEW seen \in view[a], NEW d \in {"approve", "reject"}, Click(a, seen, d)
        PROVE  job[b].pc \in Decided
    <3>1. job'[a].pc = d /\ \A c \in Tabs \ {a} : job'[c] = job[c]
      BY <1>0, <2>2 DEF Click, IdleJob
    <3> QED
      BY <3>1
  <2> QED
    BY <1>8, <2>1, <2>2
<1>9. ASSUME NEW a \in Tabs, BeginApproval(a) \/ Refuse(a) \/ RecordRefusedApproval(a)
      PROVE  job[b].pc \in Decided
  <2>1. job'[a].pc \in {"submitting", "refused", "failing"} /\ \A c \in Tabs \ {a} : job'[c] = job[c]
    BY <1>0, <1>9, JobMoves DEF BeginApproval, Refuse, RecordRefusedApproval, JobPCs, Critical
  <2> QED
    BY <2>1
<1>10. ASSUME NEW a \in Tabs, Submit(a) PROVE job[b].pc \in Decided
  BY <1>0, <1>10 DEF Submit, Job
<1>11. ASSUME NEW a \in Tabs, StoreDelivery(a) \/ RecordApproved(a) PROVE job[b].pc \in Decided
  <2>1. job[a].pc \in Decided /\ \A c \in Tabs \ {a} : job'[c] = job[c]
    BY <1>0, <1>11 DEF StoreDelivery, RecordApproved
  <2> QED
    BY <2>1
<1>12. ASSUME NEW a \in Tabs, IgnoreDecision(a) \/ RecordSubmissionFailed(a)
                               \/ RecordSubmitted(a) \/ RecordRejected(a)
      PROVE  job[b].pc \in Decided
  <2>1. job'[a].pc = "idle" /\ \A c \in Tabs \ {a} : job'[c] = job[c]
    BY <1>0, <1>12, JobEnds DEF IgnoreDecision, RecordSubmissionFailed, RecordSubmitted, RecordRejected
  <2> QED
    BY <2>1
<1>13. CASE Restart
  BY <1>1, <1>13 DEF Restart, LedgerInv, TypeOK
<1>14. UNCHANGED vars => job[b].pc \in Decided
  BY DEF vars
<1> QED
  BY <1>1, <1>2, <1>3, <1>4, <1>5, <1>6, <1>7, <1>8, <1>9, <1>10, <1>11, <1>12, <1>13, <1>14
     DEF Next, TabStep

\* A record is a proposal, or is written by the request at work on its order;
\* a final one is the last thing that request does.
WrittenBy(r, a) ==
    /\ job[a].pc \in Deciding /\ job[a].seen[2] = r.inc[2]
    /\ r.event \in Final => job'[a].pc = "idle" /\ orders[r.inc[2]].status # PENDING

LEMMA RecordMoves ==
    ASSUME LedgerInv, OneDecider, OneProposer, [Next]_vars, audit' # audit
    PROVE  /\ run' = run /\ orders' = orders
           /\ \E r \in AuditRecord :
                 /\ audit' = Append(audit, r)
                 /\ r.inc[1] = run /\ r.inc[2] \in DOMAIN orders
                 /\ r.event = "order_proposed" \/ \E a \in Tabs : WrittenBy(r, a)
<1> DEFINE Goal == \E r \in AuditRecord :
                      /\ audit' = Append(audit, r)
                      /\ r.inc[1] = run /\ r.inc[2] \in DOMAIN orders
                      /\ r.event = "order_proposed" \/ \E a \in Tabs : WrittenBy(r, a)
<1>0. /\ job \in [Tabs -> Job] /\ ClickNamesOrder /\ orders \in Seq(Order) /\ run \in Nat
      /\ DOMAIN orders \subseteq Nat
  BY DEF LedgerInv, TypeOK
<1>1. ASSUME NEW o \in DOMAIN orders, NEW event \in Events, NEW by \in Tabs \cup {None},
             NEW sl \in Nat \cup {None}
      PROVE  /\ Record(Inc(o), event, by, sl) \in AuditRecord
             /\ Record(Inc(o), event, by, sl).inc[1] = run
             /\ Record(Inc(o), event, by, sl).inc[2] = o
             /\ Record(Inc(o), event, by, sl).event = event
  BY <1>0 DEF Record, AuditRecord, Inc, Incarnation
<1>2. ASSUME NEW t \in Tools, RecordProposed(t) PROVE Goal
  <2>1. call[t].order \in DOMAIN orders
    BY <1>2 DEF RecordProposed, OneProposer
  <2> PICK o \in DOMAIN orders : o = call[t].order
    BY <2>1
  <2> DEFINE r == Record(Inc(o), "order_proposed", None, None)
  <2>2. audit' = Append(audit, r)
    BY <1>2 DEF RecordProposed, Emit
  <2>3. r \in AuditRecord /\ r.inc[1] = run /\ r.inc[2] = o /\ r.event = "order_proposed"
    BY <1>0 DEF Record, AuditRecord, Inc, Incarnation, Events
  <2> HIDE DEF r
  <2> QED
    BY <2>2, <2>3
<1>3. ASSUME NEW a \in Tabs, job[a].pc \in Deciding, Target(a) \in DOMAIN orders,
             NEW event \in Events, NEW sl \in Nat \cup {None},
             Emit(Record(Inc(Target(a)), event, a, sl)),
             event \in Final => job'[a].pc = "idle" /\ orders[Target(a)].status # PENDING
      PROVE  Goal
  <2> DEFINE r == Record(Inc(Target(a)), event, a, sl)
  <2>1. audit' = Append(audit, r)
    BY <1>3 DEF Emit
  <2>2. r \in AuditRecord /\ r.inc[1] = run /\ r.inc[2] = Target(a) /\ r.event = event
    BY <1>1, <1>3
  <2> HIDE DEF r
  <2>3. WrittenBy(r, a)
    BY <1>3, <2>2 DEF WrittenBy, Target
  <2> QED
    BY <1>3, <2>1, <2>2, <2>3
<1>4. ASSUME NEW a \in Tabs, RecordRefusedApproval(a) \/ RecordSubmissionFailed(a) PROVE Goal
  <2>1. Target(a) \in DOMAIN orders
    BY <1>4 DEF RecordRefusedApproval, RecordSubmissionFailed, LedgerInv, OwnerKnowsOrder,
           KnowsOrder, Critical
  <2>2. /\ "order_approved" \in Events \ Final
        /\ "order_submission_failed" \in Events \ Final
    BY DEF Events, Final
  <2> HIDE DEF Goal
  <2> QED
    BY <1>3, <1>4, <2>1, <2>2
       DEF RecordRefusedApproval, RecordSubmissionFailed, Deciding, JobPCs, Critical
<1>5. ASSUME NEW a \in Tabs, RecordApproved(a) PROVE Goal
  <2>1. Target(a) \in DOMAIN orders
    BY <1>5 DEF RecordApproved, LedgerInv, DecisionKnown
  <2>2. "order_approved" \in Events \ Final
    BY DEF Events, Final
  <2> HIDE DEF Goal
  <2> QED
    BY <1>3, <1>5, <2>1, <2>2 DEF RecordApproved, Deciding, JobPCs
<1>6. ASSUME NEW a \in Tabs, RecordSubmitted(a) \/ RecordRejected(a) PROVE Goal
  <2>1. job[a].pc \in Decided /\ job[a].pc \in Deciding /\ job'[a].pc = "idle"
    BY <1>0, <1>6, JobEnds DEF RecordSubmitted, RecordRejected, Decided, Deciding, JobPCs
  <2>2. Target(a) \in DOMAIN orders /\ orders[Target(a)].status # PENDING
    BY <2>1, DecidedStatus DEF Target, PENDING, SUBMITTED, REJECTED
  <2>3. job[a].pc = "announcing" => orders[Target(a)].sl \in Nat
    BY DEF LedgerInv, DecisionKnown
  <2>4. Final \subseteq Events
    BY DEF Events, Final
  <2> HIDE DEF Goal
  <2> QED
    BY <1>3, <1>6, <2>1, <2>2, <2>3, <2>4 DEF RecordSubmitted, RecordRejected, Final
<1>7. ASSUME NEW t \in Tools, (\E g \in Gaps : ProposeOrder(t, g)) \/ ListOpen(t) \/ Create(t)
      PROVE  FALSE
  BY <1>7 DEF ProposeOrder, ListOpen, Create
<1>8. ASSUME NEW a \in Tabs,
             \/ Render(a)
             \/ \E seen \in view[a], d \in {"approve", "reject"} : Click(a, seen, d)
             \/ BeginApproval(a) \/ IgnoreDecision(a) \/ Submit(a) \/ Refuse(a)
             \/ MarkSubmitted(a) \/ StoreDelivery(a) \/ Reject(a)
      PROVE  FALSE
  BY <1>8 DEF Render, Click, BeginApproval, IgnoreDecision, Submit, Refuse, MarkSubmitted,
         StoreDelivery, Reject
<1>9. ~Restart /\ ~UNCHANGED vars
  BY DEF Restart, vars
<1>10. (\E t \in Tools : RecordProposed(t))
       \/ \E a \in Tabs : \/ RecordRefusedApproval(a) \/ RecordSubmissionFailed(a)
                          \/ RecordApproved(a) \/ RecordSubmitted(a) \/ RecordRejected(a)
  BY <1>7, <1>8, <1>9 DEF Next, ToolStep, TabStep
<1>11. run' = run /\ orders' = orders
  BY <1>10 DEF RecordProposed, RecordRefusedApproval, RecordSubmissionFailed, RecordApproved,
         RecordSubmitted, RecordRejected
<1>12. Goal
  <2> HIDE DEF Goal
  <2> QED
    BY <1>2, <1>4, <1>5, <1>6, <1>10
<1> QED
  BY <1>11, <1>12

\* Only a restart begins another run.
LEMMA RunMoves ==
    ASSUME [Next]_vars, run' # run
    PROVE  run' = run + 1
<1>1. ASSUME NEW t \in Tools, (\E g \in Gaps : ProposeOrder(t, g)) \/ ToolStep(t) PROVE run' = run
  BY <1>1 DEF ProposeOrder, ToolStep, ListOpen, Create, RecordProposed
<1>2. ASSUME NEW a \in Tabs,
             \/ Render(a)
             \/ \E seen \in view[a], d \in {"approve", "reject"} : Click(a, seen, d)
             \/ TabStep(a)
      PROVE  run' = run
  BY <1>2 DEF Render, Click, TabStep, BeginApproval, IgnoreDecision, Submit, Refuse,
         RecordRefusedApproval, RecordSubmissionFailed, MarkSubmitted, StoreDelivery,
         RecordApproved, RecordSubmitted, Reject, RecordRejected
<1>3. CASE Restart
  BY <1>3 DEF Restart
<1>4. UNCHANGED vars => run' = run
  BY DEF vars
<1> QED
  BY <1>1, <1>2, <1>3, <1>4 DEF Next

\* A record names its order by run and number.
LEMMA RecordType ==
    ASSUME audit \in Seq(AuditRecord), NEW k \in 1..Len(audit)
    PROVE  audit[k] \in AuditRecord /\ audit[k].inc[1] \in Nat /\ audit[k].inc[2] \in Nat
<1>1. audit[k] \in AuditRecord
  OBVIOUS
<1>2. audit[k].inc \in Nat \X Nat
  BY <1>1 DEF AuditRecord, Incarnation
<1> QED
  BY <1>1, <1>2

\* The order of a run's record stays in that run's ledger.
LEMMA RecordsKnownStep ==
    LedgerInv /\ OneDecider /\ OneProposer /\ RecordsAreKnown /\ [Next]_vars => RecordsAreKnown'
<1> SUFFICES ASSUME LedgerInv, OneDecider, OneProposer, RecordsAreKnown, [Next]_vars,
                    NEW k \in 1..Len(audit')
             PROVE  \/ audit'[k].inc[1] < run'
                    \/ audit'[k].inc[1] = run' /\ audit'[k].inc[2] \in DOMAIN orders'
  BY DEF RecordsAreKnown
<1>0. audit \in Seq(AuditRecord) /\ run \in Nat
  BY DEF LedgerInv, TypeOK
<1>1. CASE audit' = audit
  <2>1. /\ audit[k].inc[1] \in Nat
        /\ \/ audit[k].inc[1] < run
           \/ audit[k].inc[1] = run /\ audit[k].inc[2] \in DOMAIN orders
    BY <1>0, <1>1, RecordType DEF RecordsAreKnown
  <2>2. CASE run' = run
    BY <1>1, <2>1, <2>2, StandsStep DEF Stands
  <2>3. CASE run' # run
    <3>1. run' = run + 1
      BY <2>3, RunMoves
    <3> QED
      BY <1>0, <1>1, <2>1, <3>1
  <2> QED
    BY <2>2, <2>3
<1>2. CASE audit' # audit
  <2>1. run' = run /\ orders' = orders
    BY <1>2, RecordMoves
  <2>2. PICK r \in AuditRecord :
            audit' = Append(audit, r) /\ r.inc[1] = run /\ r.inc[2] \in DOMAIN orders
    BY <1>2, RecordMoves
  <2>3. audit'[k] = r \/ (k \in 1..Len(audit) /\ audit'[k] = audit[k])
    BY <1>0, <2>2
  <2> QED
    BY <2>1, <2>2, <2>3 DEF RecordsAreKnown
<1> QED
  BY <1>1, <1>2

\* Nobody is at work on an order after the step.
Left(o) == \A b \in Tabs : job'[b].pc \in Deciding => job'[b].seen[2] # o

\* Once a final record is there, its order stays decided and left alone.
LEMMA FinalsOverStep == LedgerInv /\ TrailInv /\ [Next]_vars => FinalsAreOver'
<1> SUFFICES ASSUME LedgerInv, TrailInv, [Next]_vars, NEW k \in 1..Len(audit'),
                    audit'[k].event \in Final, audit'[k].inc[1] = run'
             PROVE  /\ orders'[audit'[k].inc[2]].status # PENDING
                    /\ Left(audit'[k].inc[2])
  BY DEF FinalsAreOver, Final, Left, At, Deciding
<1> USE DEF TrailInv
<1>0. audit \in Seq(AuditRecord) /\ run \in Nat
  BY DEF LedgerInv, TypeOK
<1>1. ASSUME k \in 1..Len(audit), audit'[k] = audit[k]
      PROVE  /\ orders'[audit'[k].inc[2]].status # PENDING
             /\ Left(audit'[k].inc[2])
  <2>1. run' = run
    <3> SUFFICES ASSUME run' # run PROVE FALSE
      OBVIOUS
    <3>1. run' = run + 1
      BY RunMoves
    <3>2. audit[k].inc[1] \in Nat /\ audit[k].inc[1] <= run
      BY <1>0, <1>1, RecordType DEF RecordsAreKnown
    <3> QED
      BY <1>0, <1>1, <3>1, <3>2
  <2> DEFINE o == audit[k].inc[2]
  <2>2. o \in DOMAIN orders /\ orders[o].status # PENDING /\ ~At(o, Deciding)
    BY <1>0, <1>1, <2>1 DEF RecordsAreKnown, FinalsAreOver
  <2>3. orders'[o].status # PENDING
    BY <2>1, <2>2, StandsStep DEF Stands
  <2>4. ASSUME NEW b \in Tabs, job'[b].pc \in Deciding, job'[b].seen[2] = o PROVE FALSE
    BY <2>2, <2>4, DecidingMoves DEF At, IsPending
  <2> QED
    BY <1>1, <2>3, <2>4 DEF Left
<1>2. CASE audit' = audit
  BY <1>1, <1>2
<1>3. CASE audit' # audit
  <2>1. run' = run /\ orders' = orders
    BY <1>3, RecordMoves
  <2>2. PICK r \in AuditRecord :
            /\ audit' = Append(audit, r)
            /\ r.event = "order_proposed" \/ \E a \in Tabs : WrittenBy(r, a)
    BY <1>3, RecordMoves
  <2>3. audit'[k] = r \/ (k \in 1..Len(audit) /\ audit'[k] = audit[k])
    BY <1>0, <2>2
  <2>4. CASE audit'[k] = r
    <3>1. PICK a \in Tabs : WrittenBy(r, a)
      BY <2>2, <2>4 DEF Final
    <3>2. orders'[r.inc[2]].status # PENDING /\ job'[a].pc = "idle"
      BY <2>1, <2>4, <3>1 DEF WrittenBy
    <3>3. ASSUME NEW b \in Tabs, job'[b].pc \in Deciding, job'[b].seen[2] = r.inc[2] PROVE FALSE
      <4>1. b # a
        BY <3>2, <3>3 DEF Deciding
      <4>2. job[b].pc \in Deciding /\ job[b].seen[2] = r.inc[2]
        BY <2>1, <2>4, <3>2, <3>3, DecidingMoves DEF IsPending
      <4> QED
        BY <3>1, <4>1, <4>2 DEF WrittenBy, OneDecider
    <3> QED
      BY <2>4, <3>2, <3>3 DEF Left
  <2> QED
    BY <1>1, <2>3, <2>4
<1> QED
  BY <1>2, <1>3

\* So what is written after it can only be the late record of its proposal.
LEMMA FinalStep == LedgerInv /\ TrailInv /\ [Next]_vars => TrailIsFinal'
<1> SUFFICES ASSUME LedgerInv, TrailInv, [Next]_vars,
                    NEW i \in 1..Len(audit'), NEW k \in 1..Len(audit'), i < k,
                    audit'[i].inc = audit'[k].inc, audit'[i].event \in Final
             PROVE  audit'[k].event = "order_proposed"
  BY DEF TrailIsFinal, Final
<1> USE DEF TrailInv
<1>0. audit \in Seq(AuditRecord)
  BY DEF LedgerInv, TypeOK
<1>1. CASE audit' = audit
  BY <1>1 DEF TrailIsFinal, Final
<1>2. CASE audit' # audit
  <2>1. PICK r \in AuditRecord :
            /\ audit' = Append(audit, r) /\ r.inc[1] = run
            /\ r.event = "order_proposed" \/ \E a \in Tabs : WrittenBy(r, a)
    BY <1>2, RecordMoves
  <2>2. i \in 1..Len(audit) /\ audit'[i] = audit[i]
    BY <1>0, <2>1
  <2>3. CASE k \in 1..Len(audit)
    <3>1. audit'[k] = audit[k]
      BY <1>0, <2>1, <2>3
    <3> QED
      BY <2>2, <2>3, <3>1 DEF TrailIsFinal, Final
  <2>4. CASE audit'[k] = r
    <3>1. audit[i].inc[1] = run /\ audit[i].inc[2] = r.inc[2]
      BY <2>1, <2>2, <2>4
    <3>2. ~At(r.inc[2], Deciding)
      BY <2>2, <3>1 DEF FinalsAreOver
    <3> QED
      BY <2>1, <2>4, <3>2 DEF WrittenBy, At
  <2> QED
    BY <1>0, <2>1, <2>3, <2>4
<1> QED
  BY <1>1, <1>2

\* Every step keeps the trail in order.
LEMMA TrailInvariant == Spec => []TrailInv
<1>1. Init => TrailInv
  BY DEF Init, TrailInv, OneDecider, OneProposer, DecisionIsOwn, RecordsAreKnown, FinalsAreOver,
         TrailIsFinal, IdleJob, IdleCall, Deciding, Decided
<1>2. LedgerInv /\ TrailInv /\ [Next]_vars => TrailInv'
  BY OneDeciderStep, OneProposerStep, DecisionIsOwnStep, RecordsKnownStep, FinalsOverStep, FinalStep
     DEF TrailInv
<1> QED
  BY <1>1, <1>2, LedgerInvariant, PTL DEF Spec

\* Once the trail says that an order was sent or rejected, it says nothing more
\* of its fate, whoever clicks and whatever is lost or restarted.
THEOREM TrailStaysFinal == Spec => []TrailIsFinal
<1>1. TrailInv => TrailIsFinal
  BY DEF TrailInv
<1> QED
  BY <1>1, TrailInvariant, PTL

----------------------------------------------------------------------------
(* What the trail said of an order's end stays true, on any disk. *)

\* A final record a step adds agrees with ledger and StoreLink.
LEMMA FinalIsWritten ==
    ASSUME LedgerInv, OneDecider, DecisionIsOwn, [Next]_vars,
           NEW k \in Len(audit) + 1 .. Len(audit'), audit'[k].event \in Final
    PROVE  StoreLinkConfirms(audit'[k]) /\ LedgerConfirms(audit'[k]) /\ UNCHANGED <<run, orders, placed>>
<1> USE DEF Record, Final, Target
<1>0. TypeOK /\ orders \in Seq(Order)
  BY DEF LedgerInv, TypeOK
<1>1. ASSUME audit' = audit PROVE FALSE
  BY <1>0, <1>1 DEF TypeOK
<1>2. RecordIsTrue(audit'[k])
  BY TrailStep
<1>3. ASSUME NEW a \in Tabs, RecordSubmitted(a)
      PROVE  StoreLinkConfirms(audit'[k]) /\ LedgerConfirms(audit'[k]) /\ UNCHANGED <<run, orders, placed>>
  <2> PICK o : o = job[a].seen[2]
    OBVIOUS
  <2>1. audit'[k] = Record(Inc(o), "order_submitted_to_storelink", a, orders[o].sl)
    BY <1>0, <1>3, EmitAdds DEF RecordSubmitted
  <2>2. job[a].pc = "announcing"
    BY <1>3 DEF RecordSubmitted
  <2>3. o \in DOMAIN orders /\ orders[o].status = SUBMITTED /\ orders[o].by = a
    BY <2>2, DecidedStatus DEF Decided, DecisionIsOwn
  <2>4. orders[o].sl \in Nat
    BY <2>2 DEF LedgerInv, DecisionKnown
  <2>5. orders[o].sl \in 1..Len(placed)
    BY <2>3, <2>4 DEF LedgerInv, LedgerMatchesStoreLink, Matches
  <2>6. audit'[k].inc[2] = o /\ audit'[k].sl = orders[o].sl /\ audit'[k].by = a
        /\ audit'[k].event = "order_submitted_to_storelink"
    BY <2>1 DEF Inc
  <2> QED
    BY <1>2, <1>3, <2>3, <2>5, <2>6 DEF StoreLinkConfirms, LedgerConfirms, RecordIsTrue, RecordSubmitted
<1>4. ASSUME NEW a \in Tabs, RecordRejected(a)
      PROVE  StoreLinkConfirms(audit'[k]) /\ LedgerConfirms(audit'[k]) /\ UNCHANGED <<run, orders, placed>>
  <2> PICK o : o = job[a].seen[2]
    OBVIOUS
  <2>1. audit'[k] = Record(Inc(o), "order_rejected", a, None)
    BY <1>0, <1>4, EmitAdds DEF RecordRejected
  <2>2. job[a].pc = "rejected"
    BY <1>4 DEF RecordRejected
  <2>3. o \in DOMAIN orders /\ orders[o].status = REJECTED /\ orders[o].by = a
    BY <2>2, DecidedStatus DEF Decided, DecisionIsOwn
  <2>4. audit'[k].inc[2] = o /\ audit'[k].by = a /\ audit'[k].event = "order_rejected"
    BY <2>1 DEF Inc
  <2> QED
    BY <1>2, <1>4, <2>3, <2>4 DEF StoreLinkConfirms, LedgerConfirms, RecordIsTrue, RecordRejected
<1>5. ASSUME NEW t \in Tools, RecordProposed(t) PROVE FALSE
  <2>1. audit'[k] = Record(Inc(call[t].order), "order_proposed", None, None)
    BY <1>0, <1>5, EmitAdds DEF RecordProposed
  <2> QED
    BY <2>1
<1>6. ASSUME NEW a \in Tabs, RecordRefusedApproval(a) \/ RecordApproved(a) PROVE FALSE
  <2>1. audit'[k] = Record(Inc(job[a].seen[2]), "order_approved", a, None)
    BY <1>0, <1>6, EmitAdds DEF RecordRefusedApproval, RecordApproved
  <2> QED
    BY <2>1
<1>7. ASSUME NEW a \in Tabs, RecordSubmissionFailed(a) PROVE FALSE
  <2>1. audit'[k] = Record(Inc(job[a].seen[2]), "order_submission_failed", a, None)
    BY <1>0, <1>7, EmitAdds DEF RecordSubmissionFailed
  <2> QED
    BY <2>1
<1>8. ASSUME NEW t \in Tools, (\E g \in Gaps : ProposeOrder(t, g)) \/ ListOpen(t) \/ Create(t)
      PROVE  audit' = audit
  BY <1>8 DEF ProposeOrder, ListOpen, Create
<1>9. ASSUME NEW a \in Tabs,
             \/ Render(a)
             \/ \E seen \in view[a], d \in {"approve", "reject"} : Click(a, seen, d)
             \/ BeginApproval(a) \/ IgnoreDecision(a) \/ Submit(a) \/ Refuse(a)
             \/ MarkSubmitted(a) \/ StoreDelivery(a) \/ Reject(a)
      PROVE  audit' = audit
  BY <1>9 DEF Render, Click, BeginApproval, IgnoreDecision, Submit, Refuse, MarkSubmitted,
         StoreDelivery, Reject
<1>10. Restart \/ UNCHANGED vars => audit' = audit
  BY DEF Restart, vars
<1> QED
  BY <1>1, <1>3, <1>4, <1>5, <1>6, <1>7, <1>8, <1>9, <1>10 DEF Next, ToolStep, TabStep

\* What StoreLink accepts next is an order that is pending in this run.
LEMMA PlacedGrows ==
    ASSUME LedgerInv, [Next]_vars
    PROVE  \/ placed' = placed
           \/ \E o \in DOMAIN orders : \E seen :
                 /\ orders[o].status = PENDING
                 /\ placed' = Append(placed, [inc |-> Inc(o), seen |-> seen])
<1>1. ASSUME NEW a \in Tabs, Submit(a)
      PROVE  \E o \in DOMAIN orders : \E seen :
                 /\ orders[o].status = PENDING
                 /\ placed' = Append(placed, [inc |-> Inc(o), seen |-> seen])
  <2>1. Target(a) \in DOMAIN orders /\ orders[Target(a)].status = PENDING
    BY <1>1 DEF Submit, LedgerInv, OwnerKnowsOrder, KnowsOrder, Critical
  <2>2. placed' = Append(placed, [inc |-> Inc(Target(a)), seen |-> job[a].seen])
    BY <1>1 DEF Submit
  <2> QED
    BY <2>1, <2>2
<1>2. ASSUME NEW t \in Tools, (\E g \in Gaps : ProposeOrder(t, g)) \/ ToolStep(t)
      PROVE  placed' = placed
  BY <1>2 DEF ProposeOrder, ToolStep, ListOpen, Create, RecordProposed
<1>3. ASSUME NEW a \in Tabs, ~Submit(a),
             \/ Render(a)
             \/ \E seen \in view[a], d \in {"approve", "reject"} : Click(a, seen, d)
             \/ TabStep(a)
      PROVE  placed' = placed
  BY <1>3 DEF Render, Click, TabStep, BeginApproval, IgnoreDecision, Refuse,
         RecordRefusedApproval, RecordSubmissionFailed, MarkSubmitted, StoreDelivery,
         RecordApproved, RecordSubmitted, Reject, RecordRejected
<1>4. Restart \/ UNCHANGED vars => placed' = placed
  BY DEF Restart, vars
<1> QED
  BY <1>1, <1>2, <1>3, <1>4 DEF Next

\* No step makes a record of the trail untrue.
LEMMA StaysTrueStep == LedgerInv /\ TrailInv /\ TrailStaysTrue /\ [Next]_vars => TrailStaysTrue'
<1> SUFFICES ASSUME LedgerInv, TrailInv, TrailStaysTrue, [Next]_vars, NEW k \in 1..Len(audit'),
                    NEW r, r = audit'[k]
             PROVE  StoreLinkConfirms(r)' /\ (r.inc[1] = run' => LedgerConfirms(r)')
  BY DEF TrailStaysTrue, StoreLinkConfirms, LedgerConfirms, Sent
<1>0. /\ audit \in Seq(AuditRecord) /\ audit' \in Seq(AuditRecord) /\ run \in Nat
      /\ orders \in Seq(Order) /\ placed \in Seq(Placement)
      /\ OneDecider /\ OneProposer /\ DecisionIsOwn /\ RecordsAreKnown
  BY TypeStep DEF LedgerInv, TypeOK, TypeInv, TrailInv
<1>1. r.inc[1] \in Nat /\ (r.inc[1] = run' => r.inc[2] \in DOMAIN orders')
  <2>1. RecordsAreKnown' /\ run' \in Nat
    BY <1>0, RecordsKnownStep, TypeStep DEF TypeInv, TypeOK
  <2>2. r \in AuditRecord
    BY <1>0
  <2>3. r.inc[1] \in Nat
    BY <1>0, RecordType, <2>2 DEF AuditRecord, Incarnation
  <2> QED
    BY <2>1, <2>3 DEF RecordsAreKnown
<1>2. CASE k \in Len(audit) + 1 .. Len(audit')
  <2>1. CASE r.event \in Final
    <3>1. StoreLinkConfirms(r) /\ LedgerConfirms(r) /\ UNCHANGED <<run, orders, placed>>
      BY <1>0, <1>2, <2>1, FinalIsWritten
    <3> QED
      BY <3>1 DEF StoreLinkConfirms, LedgerConfirms, Sent
  <2>2. CASE r.event \notin Final
    BY <1>1, <2>2 DEF StoreLinkConfirms, LedgerConfirms, Final
  <2> QED
    BY <2>1, <2>2
<1>3. CASE k \in 1..Len(audit)
  <2>1. r = audit[k]
    <3>1. CASE audit' = audit
      BY <3>1
    <3>2. CASE audit' # audit
      <4> PICK x \in AuditRecord : audit' = Append(audit, x)
        BY <1>0, <3>2, RecordMoves
      <4> QED
        BY <1>0, <1>3
    <3> QED
      BY <3>1, <3>2
  <2>2. StoreLinkConfirms(r) /\ (r.inc[1] = run => LedgerConfirms(r))
    BY <1>3, <2>1 DEF TrailStaysTrue
  <2>3. r.inc[1] \in Nat /\ r.inc[1] <= run
    BY <1>0, <1>1, <1>3, <2>1 DEF RecordsAreKnown
  <2>4. StoreLinkConfirms(r)'
    <3>1. CASE placed' = placed
      BY <2>2, <3>1 DEF StoreLinkConfirms, Sent
    <3>2. ASSUME NEW o \in DOMAIN orders, NEW seen, orders[o].status = PENDING,
                 placed' = Append(placed, [inc |-> Inc(o), seen |-> seen])
          PROVE  StoreLinkConfirms(r)'
      <4> DEFINE p == [inc |-> Inc(o), seen |-> seen]
      <4>1. /\ Len(placed) \in Nat /\ Len(placed') = Len(placed) + 1
            /\ \A i \in 1..Len(placed) : placed'[i] = placed[i]
            /\ placed'[Len(placed) + 1] = p /\ p.inc = Inc(o)
        BY <1>0, <3>2
      <4> HIDE DEF p
      <4>2. r.event = "order_submitted_to_storelink" =>
                r.sl \in 1..Len(placed') /\ placed'[r.sl].inc = r.inc
        BY <2>2, <4>1 DEF StoreLinkConfirms
      <4>3. ASSUME r.event = "order_rejected", NEW i \in 1..Len(placed'), placed'[i].inc = r.inc
            PROVE  FALSE
        <5>1. i # Len(placed) + 1
          <6>1. r.inc = Inc(o) => r.inc[1] = run /\ r.inc[2] = o
            BY DEF Inc
          <6> QED
            BY <2>2, <3>2, <4>1, <4>3, <6>1 DEF LedgerConfirms, PENDING, REJECTED
        <5>2. i \in 1..Len(placed) /\ placed[i].inc = r.inc
          BY <4>1, <4>3, <5>1
        <5> QED
          BY <2>2, <4>3, <5>2 DEF StoreLinkConfirms, Sent
      <4> QED
        BY <4>2, <4>3 DEF StoreLinkConfirms, Sent
    <3> QED
      BY <3>1, <3>2, PlacedGrows
  <2>5. ASSUME r.inc[1] = run' PROVE LedgerConfirms(r)'
    <3>1. run' = run
      BY <1>0, <2>3, <2>5, RunMoves
    <3>2. LedgerConfirms(r)
      BY <2>2, <2>5, <3>1
    <3>3. Stands(r.inc[2])
      BY <3>1, <3>2, StandsStep DEF LedgerConfirms
    <3>4. r.event = "order_submitted_to_storelink" => r.sl # None
      BY <1>0, <2>2 DEF StoreLinkConfirms
    <3> QED
      BY <3>2, <3>3, <3>4 DEF LedgerConfirms, Stands, PENDING, SUBMITTED, REJECTED
  <2> QED
    BY <2>4, <2>5
<1> QED
  BY <1>0, <1>2, <1>3

\* Whatever records the disk loses and however often the process restarts: an
\* order the trail says was sent is at StoreLink under the id it names, one it
\* says was rejected never gets there, and this run's ledger says the same.
THEOREM LossyTrailStaysTrue == Spec => []TrailStaysTrue
<1>1. Init => TrailStaysTrue
  BY DEF Init, TrailStaysTrue
<1> QED
  BY <1>1, StaysTrueStep, LedgerInvariant, TrailInvariant, PTL DEF Spec

----------------------------------------------------------------------------
(* The whole story of an order, on a disk that works. *)

\* How far the requests of the page have come with an order; at most one has
\* begun.
Work(j, o) == {j[a].pc : a \in {b \in Tabs : j[b].pc \in Deciding /\ j[b].seen[2] = o}}

Proposing(o) == \E t \in Tools : call[t].pc = "created" /\ call[t].order = o

\* How many records of each kind an order has, by its status and the work on it.
AddsUp(proposed, rejected, submitted, approved, failed, proposing, status, work) ==
    /\ proposed = IF proposing THEN 0 ELSE 1
    /\ rejected = IF status = REJECTED /\ "rejected" \notin work THEN 1 ELSE 0
    /\ submitted =
          IF status = SUBMITTED /\ work \cap {"marked", "recording", "announcing"} = {} THEN 1 ELSE 0
    /\ approved = submitted + failed + (IF work \cap {"failing", "announcing"} = {} THEN 0 ELSE 1)

FinalsAgree(o) ==
    \A k \in 1..Len(audit) :
        audit[k].inc = Inc(o) /\ audit[k].event \in Final =>
            audit[k].by = orders[o].by /\ audit[k].sl = orders[o].sl

Story(o) ==
    /\ AddsUp(Count(o, "order_proposed"), Count(o, "order_rejected"),
              Count(o, "order_submitted_to_storelink"), Count(o, "order_approved"),
              Count(o, "order_submission_failed"), Proposing(o), orders[o].status, Work(job, o))
    /\ FinalsAgree(o)

Stories == \A o \in DOMAIN orders : Story(o)

\* A step of one tab moves the work on its order, and on no other.
LEMMA WorkMoves ==
    ASSUME OneDecider, NEW a \in Tabs, \A b \in Tabs \ {a} : job'[b] = job[b],
           job[a].pc \in Deciding \/ ~At(job[a].seen[2], Deciding),
           job'[a].pc \in Deciding => job'[a].seen = job[a].seen,
           NEW o
    PROVE  /\ o # job[a].seen[2] => Work(job', o) = Work(job, o)
           /\ o = job[a].seen[2] =>
                 /\ Work(job, o) = IF job[a].pc \in Deciding THEN {job[a].pc} ELSE {}
                 /\ Work(job', o) = IF job'[a].pc \in Deciding THEN {job'[a].pc} ELSE {}
<1>1. ASSUME o # job[a].seen[2] PROVE Work(job', o) = Work(job, o)
  <2>1. \A b \in Tabs : \/ job'[b] = job[b]
                        \/ /\ ~(job[b].pc \in Deciding /\ job[b].seen[2] = o)
                           /\ ~(job'[b].pc \in Deciding /\ job'[b].seen[2] = o)
    BY <1>1
  <2> QED
    BY <2>1 DEF Work
<1>2. ASSUME o = job[a].seen[2]
      PROVE  /\ Work(job, o) = IF job[a].pc \in Deciding THEN {job[a].pc} ELSE {}
             /\ Work(job', o) = IF job'[a].pc \in Deciding THEN {job'[a].pc} ELSE {}
  <2>1. \A b \in Tabs \ {a} : /\ ~(job[b].pc \in Deciding /\ job[b].seen[2] = o)
                              /\ job'[b] = job[b]
    BY <1>2 DEF OneDecider, At
  <2>2. Work(job, o) = IF job[a].pc \in Deciding THEN {job[a].pc} ELSE {}
    BY <1>2, <2>1 DEF Work
  <2>3. Work(job', o) = IF job'[a].pc \in Deciding THEN {job'[a].pc} ELSE {}
    BY <1>2, <2>1 DEF Work
  <2> QED
    BY <2>2, <2>3
<1> QED
  BY <1>1, <1>2

\* The positions of an order's records of one kind: Count is their number.
Places(s, inc, event) == {k \in 1..Len(s) : s[k].inc = inc /\ s[k].event = event}

LEMMA CountPlaces ==
    ASSUME NEW o, NEW event
    PROVE  /\ Count(o, event) = Cardinality(Places(audit, Inc(o), event))
           /\ Count(o, event)' = Cardinality(Places(audit', Inc(o)', event))
  BY DEF Count, Places

LEMMA PlacesFinite ==
    ASSUME NEW s \in Seq(AuditRecord), NEW inc, NEW event
    PROVE  IsFiniteSet(Places(s, inc, event)) /\ Cardinality(Places(s, inc, event)) \in Nat
<1>1. Len(s) \in Nat
  OBVIOUS
<1>2. IsFiniteSet(1..Len(s))
  BY <1>1, FS_Interval
<1>3. Places(s, inc, event) \in SUBSET (1..Len(s))
  BY DEF Places
<1>4. IsFiniteSet(Places(s, inc, event))
  BY <1>2, <1>3, FS_Subset
<1> QED
  BY <1>4, FS_CardinalityType

\* A record that is appended is counted where it belongs and nowhere else.
LEMMA PlacesAppend ==
    ASSUME NEW s \in Seq(AuditRecord), NEW r \in AuditRecord, NEW inc, NEW event
    PROVE  Cardinality(Places(Append(s, r), inc, event)) =
              Cardinality(Places(s, inc, event)) + (IF r.inc = inc /\ r.event = event THEN 1 ELSE 0)
<1> DEFINE e == Append(s, r)
           n == Len(s) + 1
<1>1. /\ 1..Len(e) = 1..Len(s) \cup {n} /\ n \notin 1..Len(s)
      /\ \A k \in 1..Len(s) : e[k] = s[k]
      /\ e[n] = r
  OBVIOUS
<1>2. IsFiniteSet(Places(s, inc, event)) /\ Cardinality(Places(s, inc, event)) \in Nat
  BY PlacesFinite
<1> HIDE DEF e, n
<1>3. CASE r.inc = inc /\ r.event = event
  <2>1. Places(e, inc, event) = Places(s, inc, event) \cup {n} /\ n \notin Places(s, inc, event)
    BY <1>1, <1>3 DEF Places
  <2>2. Cardinality(Places(s, inc, event) \cup {n}) = Cardinality(Places(s, inc, event)) + 1
    BY <1>2, <2>1, FS_AddElement
  <2> QED
    BY <1>3, <2>1, <2>2 DEF e
<1>4. CASE ~(r.inc = inc /\ r.event = event)
  <2>1. Places(e, inc, event) = Places(s, inc, event)
    BY <1>1, <1>4 DEF Places
  <2> QED
    BY <1>2, <1>4, <2>1 DEF e
<1> QED
  BY <1>3, <1>4

\* What a step does to the counts of a run.
LEMMA CountStays ==
    ASSUME TypeOK, run' = run, audit' = audit, NEW o, NEW event
    PROVE  Count(o, event) \in Nat /\ Count(o, event)' = Count(o, event)
<1>1. Inc(o)' = Inc(o)
  BY DEF Inc
<1> QED
  BY <1>1, CountPlaces, PlacesFinite DEF TypeOK

LEMMA CountGrows ==
    ASSUME TypeOK, run' = run, NEW r \in AuditRecord, audit' = Append(audit, r), NEW o, NEW event
    PROVE  /\ Count(o, event) \in Nat
           /\ Count(o, event)' =
                 Count(o, event) + (IF r.inc = Inc(o) /\ r.event = event THEN 1 ELSE 0)
<1>1. Inc(o)' = Inc(o)
  BY DEF Inc
<1>2. audit \in Seq(AuditRecord)
  BY DEF TypeOK
<1>3. Cardinality(Places(Append(audit, r), Inc(o), event)) =
         Cardinality(Places(audit, Inc(o), event)) + (IF r.inc = Inc(o) /\ r.event = event THEN 1 ELSE 0)
  BY <1>2, PlacesAppend
<1> QED
  BY <1>1, <1>2, <1>3, CountPlaces, PlacesFinite

\* An order whose records and whose work do not change.
LEMMA StoryStays ==
    ASSUME TypeOK, run' = run, NEW o \in DOMAIN orders, Story(o), orders'[o] = orders[o],
           Work(job', o) = Work(job, o), Proposing(o)' <=> Proposing(o),
           \/ audit' = audit
           \/ \E r \in AuditRecord : audit' = Append(audit, r) /\ r.inc # Inc(o)
    PROVE  Story(o)'
<1>0. Inc(o)' = Inc(o) /\ audit \in Seq(AuditRecord)
  BY DEF Inc, TypeOK
<1>1. \A event : Count(o, event)' = Count(o, event)
  <2>1. ASSUME NEW event, audit' = audit PROVE Count(o, event)' = Count(o, event)
    BY <2>1, CountStays
  <2>2. ASSUME NEW event, NEW r \in AuditRecord, audit' = Append(audit, r), r.inc # Inc(o)
        PROVE  Count(o, event)' = Count(o, event)
    <3>1. /\ Count(o, event) \in Nat
          /\ Count(o, event)' =
                 Count(o, event) + (IF r.inc = Inc(o) /\ r.event = event THEN 1 ELSE 0)
      BY <2>2, CountGrows
    <3> QED
      BY <2>2, <3>1
  <2> QED
    BY <2>1, <2>2
<1>2. FinalsAgree(o)'
  <2>1. ASSUME NEW k \in 1..Len(audit'), audit'[k].inc = Inc(o)
        PROVE  k \in 1..Len(audit) /\ audit'[k] = audit[k]
    BY <1>0, <2>1
  <2> QED
    BY <1>0, <2>1 DEF Story, FinalsAgree
<1>3. /\ Count(o, "order_proposed")' = Count(o, "order_proposed")
      /\ Count(o, "order_rejected")' = Count(o, "order_rejected")
      /\ Count(o, "order_submitted_to_storelink")' = Count(o, "order_submitted_to_storelink")
      /\ Count(o, "order_approved")' = Count(o, "order_approved")
      /\ Count(o, "order_submission_failed")' = Count(o, "order_submission_failed")
  BY <1>1
<1> QED
  BY <1>2, <1>3 DEF Story, AddsUp

\* An order whose work moves on: no record, or one.
LEMMA StoryMoves ==
    ASSUME TypeOK, run' = run, audit' = audit, NEW o \in DOMAIN orders, Story(o),
           Proposing(o)' <=> Proposing(o), FinalsAgree(o)',
           \A p, r, s, c, f \in Nat :
               AddsUp(p, r, s, c, f, Proposing(o), orders[o].status, Work(job, o)) =>
                   AddsUp(p, r, s, c, f, Proposing(o), orders'[o].status, Work(job', o))
    PROVE  Story(o)'
<1>1. /\ Count(o, "order_proposed")' = Count(o, "order_proposed")
      /\ Count(o, "order_rejected")' = Count(o, "order_rejected")
      /\ Count(o, "order_submitted_to_storelink")' = Count(o, "order_submitted_to_storelink")
      /\ Count(o, "order_approved")' = Count(o, "order_approved")
      /\ Count(o, "order_submission_failed")' = Count(o, "order_submission_failed")
  BY CountStays
<1>2. /\ Count(o, "order_proposed") \in Nat
      /\ Count(o, "order_rejected") \in Nat
      /\ Count(o, "order_submitted_to_storelink") \in Nat
      /\ Count(o, "order_approved") \in Nat
      /\ Count(o, "order_submission_failed") \in Nat
  BY CountStays
<1>3. AddsUp(Count(o, "order_proposed"), Count(o, "order_rejected"),
             Count(o, "order_submitted_to_storelink"), Count(o, "order_approved"),
             Count(o, "order_submission_failed"), Proposing(o), orders'[o].status, Work(job', o))
  BY <1>2 DEF Story
<1> QED
  BY <1>1, <1>3 DEF Story, AddsUp

One(condition) == IF condition THEN 1 ELSE 0

LEMMA StoryTold ==
    ASSUME TypeOK, run' = run, NEW o \in DOMAIN orders, Story(o), orders'[o] = orders[o],
           NEW x \in AuditRecord, audit' = Append(audit, x), x.inc = Inc(o),
           x.event \in Final => x.by = orders[o].by /\ x.sl = orders[o].sl,
           \A p, r, s, c, f \in Nat :
               AddsUp(p, r, s, c, f, Proposing(o), orders[o].status, Work(job, o)) =>
                   AddsUp(p + One(x.event = "order_proposed"), r + One(x.event = "order_rejected"),
                          s + One(x.event = "order_submitted_to_storelink"),
                          c + One(x.event = "order_approved"),
                          f + One(x.event = "order_submission_failed"),
                          Proposing(o)', orders[o].status, Work(job', o))
    PROVE  Story(o)'
<1>0. Inc(o)' = Inc(o) /\ audit \in Seq(AuditRecord)
  BY DEF Inc, TypeOK
<1>1. \A event : /\ Count(o, event) \in Nat
                 /\ Count(o, event)' = Count(o, event) + One(x.event = event)
  <2> SUFFICES ASSUME NEW event
               PROVE  /\ Count(o, event) \in Nat
                      /\ Count(o, event)' = Count(o, event) + One(x.event = event)
    OBVIOUS
  <2>1. /\ Count(o, event) \in Nat
        /\ Count(o, event)' =
              Count(o, event) + (IF x.inc = Inc(o) /\ x.event = event THEN 1 ELSE 0)
    BY CountGrows
  <2> QED
    BY <2>1 DEF One
<1>2. FinalsAgree(o)'
  <2>1. ASSUME NEW k \in 1..Len(audit')
        PROVE  (k \in 1..Len(audit) /\ audit'[k] = audit[k]) \/ audit'[k] = x
    BY <1>0, <2>1
  <2> QED
    BY <1>0, <2>1 DEF Story, FinalsAgree
<1>3. /\ Count(o, "order_proposed")' =
            Count(o, "order_proposed") + One(x.event = "order_proposed")
      /\ Count(o, "order_rejected")' =
            Count(o, "order_rejected") + One(x.event = "order_rejected")
      /\ Count(o, "order_submitted_to_storelink")' =
            Count(o, "order_submitted_to_storelink") + One(x.event = "order_submitted_to_storelink")
      /\ Count(o, "order_approved")' =
            Count(o, "order_approved") + One(x.event = "order_approved")
      /\ Count(o, "order_submission_failed")' =
            Count(o, "order_submission_failed") + One(x.event = "order_submission_failed")
  BY <1>1
<1>4. /\ Count(o, "order_proposed") \in Nat
      /\ Count(o, "order_rejected") \in Nat
      /\ Count(o, "order_submitted_to_storelink") \in Nat
      /\ Count(o, "order_approved") \in Nat
      /\ Count(o, "order_submission_failed") \in Nat
  BY <1>1
<1>5. AddsUp(Count(o, "order_proposed") + One(x.event = "order_proposed"),
             Count(o, "order_rejected") + One(x.event = "order_rejected"),
             Count(o, "order_submitted_to_storelink") + One(x.event = "order_submitted_to_storelink"),
             Count(o, "order_approved") + One(x.event = "order_approved"),
             Count(o, "order_submission_failed") + One(x.event = "order_submission_failed"),
             Proposing(o)', orders[o].status, Work(job', o))
  BY <1>4 DEF Story
<1> QED
  BY <1>2, <1>3, <1>5 DEF Story, AddsUp

\* An order somebody is at work on, or that is pending, has no final record.
LEMMA NoFinals ==
    ASSUME LedgerInv, TrailInv, NEW o \in DOMAIN orders,
           orders[o].status = PENDING \/ At(o, Deciding),
           NEW k \in 1..Len(audit), audit[k].inc = Inc(o)
    PROVE  audit[k].event \notin Final
<1>1. audit[k].inc[1] = run /\ audit[k].inc[2] = o
  BY DEF Inc
<1> QED
  BY <1>1 DEF TrailInv, FinalsAreOver

\* What a tab does concerns its own order only.
LEMMA TabStory ==
    ASSUME LedgerInv, TrailInv, Stories, NEW a \in Tabs, NEW o \in DOMAIN orders,
           o = job[a].seen[2], run' = run, call' = call,
           \A b \in Tabs \ {a} : job'[b] = job[b],
           job[a].pc \in Deciding \/ ~At(o, Deciding),
           job'[a].pc \in Deciding => job'[a].seen = job[a].seen,
           DOMAIN orders' = DOMAIN orders, \A p \in DOMAIN orders \ {o} : orders'[p] = orders[p],
           \/ audit' = audit
           \/ \E r \in AuditRecord : audit' = Append(audit, r) /\ r.inc = Inc(o),
           Story(o)'
    PROVE  Stories'
<1> SUFFICES ASSUME NEW p \in DOMAIN orders, p # o PROVE Story(p)'
  BY DEF Stories
<1>1. Work(job', p) = Work(job, p)
  BY WorkMoves DEF TrailInv
<1>2. Proposing(p)' <=> Proposing(p)
  BY DEF Proposing
<1>3. Inc(p) # Inc(o)
  BY DEF Inc
<1>4. Story(p) /\ TypeOK
  BY DEF Stories, LedgerInv
<1> QED
  BY <1>1, <1>2, <1>3, <1>4, StoryStays

\* A step that touches neither orders nor records, and no work.
LEMMA IdleStory ==
    ASSUME LedgerInv, Stories, run' = run, orders' = orders, audit' = audit,
           \A b \in Tabs : \/ job'[b] = job[b]
                           \/ job[b].pc \notin Deciding /\ job'[b].pc \notin Deciding,
           \A u \in Tools : \/ call'[u] = call[u]
                            \/ call[u].pc # "created" /\ call'[u].pc # "created"
    PROVE  Stories'
<1> SUFFICES ASSUME NEW o \in DOMAIN orders PROVE Story(o)'
  BY DEF Stories
<1>1. Work(job', o) = Work(job, o)
  BY DEF Work
<1>2. Proposing(o)' <=> Proposing(o)
  BY DEF Proposing
<1>3. Story(o) /\ TypeOK
  BY DEF Stories, LedgerInv
<1> QED
  BY <1>1, <1>2, <1>3, StoryStays

\* The requests at work on an order that are known when a tab takes a step.
LEMMA WorkingOrder ==
    ASSUME LedgerInv, TrailInv, NEW a \in Tabs, job[a].pc \in Deciding
    PROVE  /\ job[a].seen[2] \in DOMAIN orders
           /\ At(job[a].seen[2], Deciding)
           /\ job[a].pc \in Critical \ {"marked"} => orders[job[a].seen[2]].status = PENDING
           /\ job[a].pc \in {"marked", "recording", "announcing"} =>
                 orders[job[a].seen[2]].status = SUBMITTED
           /\ job[a].pc = "rejected" => orders[job[a].seen[2]].status = REJECTED
<1>1. CASE job[a].pc \in Critical
  BY <1>1 DEF LedgerInv, OwnerKnowsOrder, KnowsOrder, Target, At, Critical
<1>2. CASE job[a].pc \in Decided
  BY <1>2, DecidedStatus DEF TrailInv, At, Critical, Decided
<1> QED
  BY <1>1, <1>2 DEF Deciding, JobPCs, Decided

\* Inserting an order: nothing is told of it yet.
LEMMA CreateStory ==
    ASSUME LedgerInv, TrailInv, Stories, NEW t \in Tools, Create(t)
    PROVE  Stories'
<1>0. /\ TypeOK /\ orders \in Seq(Order) /\ call \in [Tools -> Call] /\ None \notin Nat
      /\ run' = run /\ audit' = audit /\ job' = job
  BY DEF LedgerInv, TypeOK, Create
<1> PICK n \in Nat : n = Len(orders) + 1
  BY <1>0
<1>1. /\ DOMAIN orders' = DOMAIN orders \cup {n} /\ n \notin DOMAIN orders /\ n \in Nat
      /\ \A o \in DOMAIN orders : orders'[o] = orders[o]
      /\ orders'[n].status = PENDING
  BY <1>0 DEF Create, NewOrder
<1>2. /\ call'[t].pc = "created" /\ call'[t].order = n /\ call[t].pc = "creating"
      /\ \A u \in Tools \ {t} : call'[u] = call[u]
  BY <1>0 DEF Create, Call
<1>3. ASSUME NEW o \in DOMAIN orders PROVE Story(o)'
  <2>1. Proposing(o)' <=> Proposing(o)
    BY <1>1, <1>2 DEF Proposing
  <2> QED
    BY <1>0, <1>1, <2>1, StoryStays DEF Stories
<1>4. Story(n)'
  <2>1. \A k \in 1..Len(audit) : audit[k].inc # Inc(n)
    BY <1>0, <1>1 DEF TrailInv, RecordsAreKnown, Inc, TypeOK
  <2>2. Inc(n)' = Inc(n)
    BY <1>0 DEF Inc
  <2>3. ASSUME NEW event PROVE Count(n, event)' = 0
    <3>1. Places(audit', Inc(n)', event) = {}
      BY <1>0, <2>1, <2>2 DEF Places
    <3>2. Cardinality({}) = 0
      BY FS_EmptySet
    <3> QED
      BY <3>1, <3>2, CountPlaces
  <2>4. Work(job', n) = {}
    BY <1>0, <1>1, WorkingOrder DEF Work
  <2>5. Proposing(n)'
    BY <1>2 DEF Proposing
  <2>6. FinalsAgree(n)'
    BY <1>0, <2>1, <2>2 DEF FinalsAgree
  <2>7. /\ Count(n, "order_proposed")' = 0 /\ Count(n, "order_rejected")' = 0
        /\ Count(n, "order_submitted_to_storelink")' = 0 /\ Count(n, "order_approved")' = 0
        /\ Count(n, "order_submission_failed")' = 0
    BY <2>3
  <2> QED
    BY <1>1, <2>4, <2>5, <2>6, <2>7 DEF Story, AddsUp, PENDING, REJECTED, SUBMITTED
<1> QED
  BY <1>1, <1>3, <1>4 DEF Stories

\* The record of a proposal, on a disk that works.
LEMMA ProposedStory ==
    ASSUME LossyDisk = FALSE, LedgerInv, TrailInv, Stories, NEW t \in Tools, RecordProposed(t)
    PROVE  Stories'
<1>0. /\ TypeOK /\ call \in [Tools -> Call] /\ run \in Nat /\ orders \in Seq(Order)
      /\ run' = run /\ orders' = orders /\ job' = job
      /\ call' = [call EXCEPT ![t] = IdleCall] /\ call[t].pc = "created"
  BY DEF LedgerInv, TypeOK, RecordProposed
<1> PICK n \in DOMAIN orders : n = call[t].order
  BY <1>0 DEF TrailInv, OneProposer
<1> DEFINE x == Record(Inc(n), "order_proposed", None, None)
<1>1. audit' = Append(audit, x)
  BY DEF RecordProposed, Emit
<1>2. x \in AuditRecord /\ x.inc = Inc(n) /\ x.event = "order_proposed"
  BY <1>0 DEF Record, AuditRecord, Inc, Incarnation, Events
<1> HIDE DEF x
<1>3. call'[t].pc = "idle" /\ \A u \in Tools \ {t} : call'[u] = call[u]
  BY <1>0 DEF IdleCall
<1>4. ASSUME NEW o \in DOMAIN orders, o # n PROVE Story(o)'
  <2>1. Proposing(o)' <=> Proposing(o)
    BY <1>3, <1>4 DEF Proposing
  <2>2. Inc(o) # Inc(n)
    BY <1>4 DEF Inc
  <2> QED
    BY <1>0, <1>1, <1>2, <2>1, <2>2, StoryStays DEF Stories
<1>5. Story(n)'
  <2>1. Proposing(n) /\ ~Proposing(n)'
    BY <1>0, <1>3 DEF Proposing, TrailInv, OneProposer
  <2>2. /\ One(x.event = "order_proposed") = 1 /\ One(x.event = "order_rejected") = 0
        /\ One(x.event = "order_submitted_to_storelink") = 0
        /\ One(x.event = "order_approved") = 0 /\ One(x.event = "order_submission_failed") = 0
    BY <1>2 DEF One
  <2>3. \A p, r, s, c, f \in Nat :
            AddsUp(p, r, s, c, f, Proposing(n), orders[n].status, Work(job, n)) =>
                AddsUp(p + 1, r + 0, s + 0, c + 0, f + 0, Proposing(n)', orders[n].status, Work(job', n))
    BY <1>0, <2>1 DEF AddsUp
  <2>4. x.event \notin Final /\ orders'[n] = orders[n] /\ Story(n)
    BY <1>0, <1>2 DEF Final, Stories
  <2> QED
    BY <1>0, <1>1, <1>2, <2>2, <2>3, <2>4, StoryTold
<1> QED
  BY <1>0, <1>4, <1>5 DEF Stories

\* The work on an order that a tab in state pc is at.
WorkOf(pc) == IF pc \in Deciding THEN {pc} ELSE {}

\* What AddsUp asks of the work.
LEMMA WorkTold ==
    ASSUME NEW pc
    PROVE  /\ "rejected" \in WorkOf(pc) <=> pc = "rejected"
           /\ WorkOf(pc) \cap {"marked", "recording", "announcing"} = {}
                 <=> pc \notin {"marked", "recording", "announcing"}
           /\ WorkOf(pc) \cap {"failing", "announcing"} = {} <=> pc \notin {"failing", "announcing"}
  BY DEF WorkOf, Deciding, JobPCs, Critical

\* A tab moves on with an order and tells nothing.
LEMMA QuietStory ==
    ASSUME LedgerInv, TrailInv, Stories, NEW a \in Tabs, NEW o \in DOMAIN orders,
           o = job[a].seen[2], run' = run, call' = call, audit' = audit,
           \A b \in Tabs \ {a} : job'[b] = job[b],
           job[a].pc \in Deciding \/ (lock = None /\ IsPending(o)),
           job'[a].pc \in Deciding, job'[a].seen = job[a].seen,
           DOMAIN orders' = DOMAIN orders, \A p \in DOMAIN orders \ {o} : orders'[p] = orders[p],
           \A p, r, s, c, f \in Nat :
               AddsUp(p, r, s, c, f, Proposing(o), orders[o].status, WorkOf(job[a].pc)) =>
                   AddsUp(p, r, s, c, f, Proposing(o), orders'[o].status, WorkOf(job'[a].pc))
    PROVE  Stories'
<1>1. job[a].pc \in Deciding \/ ~At(o, Deciding)
  BY PendingIsFree
<1>2. Work(job, o) = WorkOf(job[a].pc) /\ Work(job', o) = WorkOf(job'[a].pc)
  BY <1>1, WorkMoves DEF TrailInv, WorkOf
<1>3. FinalsAgree(o)'
  <2>1. orders[o].status = PENDING \/ At(o, Deciding)
    BY DEF IsPending, At
  <2>2. Inc(o)' = Inc(o)
    BY DEF Inc
  <2> QED
    BY <2>1, <2>2, NoFinals DEF FinalsAgree, Final
<1>4. Proposing(o)' <=> Proposing(o)
  BY DEF Proposing
<1>5. TypeOK /\ Story(o)
  BY DEF LedgerInv, Stories
<1>6. \A p, r, s, c, f \in Nat :
          AddsUp(p, r, s, c, f, Proposing(o), orders[o].status, Work(job, o)) =>
              AddsUp(p, r, s, c, f, Proposing(o), orders'[o].status, Work(job', o))
  BY <1>2
<1>7. Story(o)'
  BY <1>3, <1>4, <1>5, <1>6, StoryMoves
<1> QED
  BY <1>1, <1>7, TabStory

\* Telling event keeps the sums of order o, when the work on it moves from one state to another.
KeepsSums(o, event, from, to) ==
    \A p, r, s, c, f \in Nat :
        AddsUp(p, r, s, c, f, Proposing(o), orders[o].status, WorkOf(from)) =>
            AddsUp(p, r + One(event = "order_rejected"),
                   s + One(event = "order_submitted_to_storelink"),
                   c + One(event = "order_approved"),
                   f + One(event = "order_submission_failed"),
                   Proposing(o), orders[o].status, WorkOf(to))

\* A tab moves on with an order and tells of it.
LEMMA ToldStory ==
    ASSUME LedgerInv, TrailInv, Stories, NEW a \in Tabs, NEW o \in DOMAIN orders,
           o = job[a].seen[2], run' = run, call' = call, orders' = orders,
           \A b \in Tabs \ {a} : job'[b] = job[b],
           job[a].pc \in Deciding, job'[a].pc \in Deciding => job'[a].seen = job[a].seen,
           NEW x \in AuditRecord, audit' = Append(audit, x), x.inc = Inc(o),
           x.event # "order_proposed",
           x.event \in Final => x.by = orders[o].by /\ x.sl = orders[o].sl,
           KeepsSums(o, x.event, job[a].pc, job'[a].pc)
    PROVE  Stories'
<1>1. Work(job, o) = WorkOf(job[a].pc) /\ Work(job', o) = WorkOf(job'[a].pc)
  BY WorkMoves DEF TrailInv, WorkOf
<1>2. Proposing(o)' <=> Proposing(o)
  BY DEF Proposing
<1>3. TypeOK /\ Story(o)
  BY DEF LedgerInv, Stories
<1>4. \A p, r, s, c, f \in Nat :
          AddsUp(p, r, s, c, f, Proposing(o), orders[o].status, Work(job, o)) =>
              AddsUp(p + One(x.event = "order_proposed"), r + One(x.event = "order_rejected"),
                     s + One(x.event = "order_submitted_to_storelink"),
                     c + One(x.event = "order_approved"),
                     f + One(x.event = "order_submission_failed"),
                     Proposing(o)', orders[o].status, Work(job', o))
  <2> SUFFICES ASSUME NEW p \in Nat, NEW r \in Nat, NEW s \in Nat, NEW c \in Nat, NEW f \in Nat,
                      AddsUp(p, r, s, c, f, Proposing(o), orders[o].status, Work(job, o))
               PROVE  AddsUp(p + One(x.event = "order_proposed"), r + One(x.event = "order_rejected"),
                             s + One(x.event = "order_submitted_to_storelink"),
                             c + One(x.event = "order_approved"),
                             f + One(x.event = "order_submission_failed"),
                             Proposing(o)', orders[o].status, Work(job', o))
    OBVIOUS
  <2>1. p + One(x.event = "order_proposed") = p
    BY DEF One
  <2>2. AddsUp(p, r, s, c, f, Proposing(o), orders[o].status, WorkOf(job[a].pc))
    BY <1>1
  <2>3. AddsUp(p, r + One(x.event = "order_rejected"),
               s + One(x.event = "order_submitted_to_storelink"),
               c + One(x.event = "order_approved"),
               f + One(x.event = "order_submission_failed"),
               Proposing(o), orders[o].status, WorkOf(job'[a].pc))
    BY <2>2 DEF KeepsSums
  <2> QED
    BY <1>1, <1>2, <2>1, <2>3 DEF AddsUp
<1>5. orders'[o] = orders[o]
  OBVIOUS
<1>6. Story(o)'
  BY ONLY <1>3, <1>4, <1>5, run' = run, o \in DOMAIN orders, x \in AuditRecord, audit' = Append(audit, x),
     x.inc = Inc(o), x.event \in Final => x.by = orders[o].by /\ x.sl = orders[o].sl, StoryTold
<1> QED
  BY <1>6, TabStory

\* What the ledger knows of a decision is what its final record says.
LEMMA OwnDecision ==
    ASSUME LedgerInv, TrailInv, NEW a \in Tabs, job[a].pc \in {"announcing", "rejected"}
    PROVE  /\ orders[job[a].seen[2]].by = a
           /\ job[a].pc = "announcing" => orders[job[a].seen[2]].sl \in Nat
           /\ job[a].pc = "rejected" => orders[job[a].seen[2]].sl = None
<1>1. orders[job[a].seen[2]].by = a
  BY DEF TrailInv, DecisionIsOwn, Decided
<1>2. job[a].pc = "announcing" => orders[job[a].seen[2]].sl \in Nat
  BY DEF LedgerInv, DecisionKnown, Target
<1>3. ASSUME job[a].pc = "rejected", orders[job[a].seen[2]].sl # None PROVE FALSE
  <2> PICK o \in DOMAIN orders : o = job[a].seen[2]
    BY <1>3, WorkingOrder DEF Deciding, JobPCs
  <2>1. orders[o].status = REJECTED
    BY <1>3, WorkingOrder DEF Deciding, JobPCs
  <2>2. Inc(o) \in Sent
    BY <1>3 DEF LedgerInv, LedgerMatchesStoreLink, Matches, Sent
  <2>3. ~BeingStored(o)
    BY <2>1 DEF BeingStored, LedgerInv, OwnerKnowsOrder, KnowsOrder, Critical, PENDING, REJECTED
  <2> QED
    BY <2>1, <2>2, <2>3 DEF LedgerInv, LedgerMatchesStoreLink, Matches, SUBMITTED, REJECTED
<1> QED
  BY <1>1, <1>2, <1>3

\* The records of a decision, on a disk that works.
LEMMA TellingStep ==
    ASSUME LossyDisk = FALSE, LedgerInv, TrailInv, Stories, NEW a \in Tabs,
           RecordRefusedApproval(a) \/ RecordSubmissionFailed(a)
              \/ RecordApproved(a) \/ RecordSubmitted(a) \/ RecordRejected(a)
    PROVE  Stories'
<1> USE DEF Target
<1>0. /\ TypeOK /\ job \in [Tabs -> Job] /\ ClickNamesOrder /\ run \in Nat /\ orders \in Seq(Order)
      /\ run' = run /\ call' = call /\ orders' = orders
  BY DEF LedgerInv, TypeOK, RecordRefusedApproval, RecordSubmissionFailed, RecordApproved,
         RecordSubmitted, RecordRejected
<1>1. job[a].pc \in Deciding
  BY DEF RecordRefusedApproval, RecordSubmissionFailed, RecordApproved, RecordSubmitted,
         RecordRejected, Deciding, JobPCs, Critical
<1> PICK o \in DOMAIN orders : o = job[a].seen[2]
  BY <1>1, WorkingOrder
<1>2. ASSUME NEW event \in Events, NEW sl \in Nat \cup {None}
      PROVE  /\ Record(Inc(o), event, a, sl) \in AuditRecord
             /\ Record(Inc(o), event, a, sl).inc = Inc(o)
             /\ Record(Inc(o), event, a, sl).event = event
             /\ Record(Inc(o), event, a, sl).by = a /\ Record(Inc(o), event, a, sl).sl = sl
  BY <1>0 DEF Record, AuditRecord, Inc, Incarnation
\* What is left to show for each record: it was written, and the sums stay right.
<1>3. ASSUME NEW event \in Events, NEW sl \in Nat \cup {None}, event # "order_proposed",
             Emit(Record(Inc(o), event, a, sl)),
             \A b \in Tabs \ {a} : job'[b] = job[b],
             job'[a].pc \in Deciding => job'[a].seen = job[a].seen,
             event \in Final => a = orders[o].by /\ sl = orders[o].sl,
             KeepsSums(o, event, job[a].pc, job'[a].pc)
      PROVE  Stories'
  <2> DEFINE x == Record(Inc(o), event, a, sl)
  <2>1. audit' = Append(audit, x)
    BY <1>3 DEF Emit
  <2>2. x \in AuditRecord /\ x.inc = Inc(o) /\ x.event = event /\ x.by = a /\ x.sl = sl
    BY <1>2
  <2> HIDE DEF x
  <2>3. x.event \in Final => x.by = orders[o].by /\ x.sl = orders[o].sl
    BY <1>3, <2>2
  <2>4. KeepsSums(o, x.event, job[a].pc, job'[a].pc)
    BY <1>3, <2>2
  <2>5. /\ x.event # "order_proposed" /\ \A b \in Tabs \ {a} : job'[b] = job[b]
        /\ job'[a].pc \in Deciding => job'[a].seen = job[a].seen
    BY <1>3, <2>2
  <2>6. x.event # "order_proposed"
    BY <2>5
  <2>7. run' = run /\ call' = call /\ orders' = orders
    BY <1>0
  <2> QED
    BY ONLY <1>1, <2>1, <2>2, <2>3, <2>4, <2>5, <2>6, <2>7, LedgerInv, TrailInv, Stories, a \in Tabs,
       o \in DOMAIN orders, o = job[a].seen[2], ToldStory
<1>4. \A pc : /\ "rejected" \in WorkOf(pc) <=> pc = "rejected"
              /\ WorkOf(pc) \cap {"marked", "recording", "announcing"} = {}
                    <=> pc \notin {"marked", "recording", "announcing"}
              /\ WorkOf(pc) \cap {"failing", "announcing"} = {} <=> pc \notin {"failing", "announcing"}
  BY WorkTold
<1> USE DEF AddsUp, One, KeepsSums
<1>5. CASE RecordRefusedApproval(a)
  <2>1. /\ job[a].pc = "refused" /\ job'[a].pc = "failing" /\ job'[a].seen = job[a].seen
        /\ \A b \in Tabs \ {a} : job'[b] = job[b]
        /\ Emit(Record(Inc(o), "order_approved", a, None))
    BY <1>0, <1>5, JobMoves DEF RecordRefusedApproval, JobPCs, Critical
  <2> PICK event \in Events : event = "order_approved"
    BY DEF Events
  <2>2. KeepsSums(o, event, job[a].pc, job'[a].pc)
    BY <1>4, <2>1
  <2> HIDE DEF AddsUp, One, KeepsSums
  <2> QED
    BY <1>3, <2>1, <2>2 DEF Final
<1>6. CASE RecordSubmissionFailed(a)
  <2>1. /\ job[a].pc = "failing" /\ job'[a].pc = "idle"
        /\ \A b \in Tabs \ {a} : job'[b] = job[b]
        /\ Emit(Record(Inc(o), "order_submission_failed", a, None))
    BY <1>0, <1>6, JobEnds DEF RecordSubmissionFailed
  <2> PICK event \in Events : event = "order_submission_failed"
    BY DEF Events
  <2>2. KeepsSums(o, event, job[a].pc, job'[a].pc)
    BY <1>4, <2>1
  <2> HIDE DEF AddsUp, One, KeepsSums
  <2> QED
    BY <1>3, <2>1, <2>2 DEF Final, Deciding
<1>7. CASE RecordApproved(a)
  <2>1. /\ job[a].pc = "recording" /\ job'[a].pc = "announcing" /\ job'[a].seen = job[a].seen
        /\ \A b \in Tabs \ {a} : job'[b] = job[b]
        /\ Emit(Record(Inc(o), "order_approved", a, None))
    BY <1>0, <1>7, JobMoves DEF RecordApproved, JobPCs
  <2> PICK event \in Events : event = "order_approved"
    BY DEF Events
  <2>2. KeepsSums(o, event, job[a].pc, job'[a].pc)
    BY <1>4, <2>1
  <2> HIDE DEF AddsUp, One, KeepsSums
  <2> QED
    BY <1>3, <2>1, <2>2 DEF Final
<1>8. CASE RecordSubmitted(a)
  <2> PICK sl \in Nat : sl = orders[o].sl
    BY <1>8, OwnDecision DEF RecordSubmitted
  <2>1. /\ job[a].pc = "announcing" /\ job'[a].pc = "idle"
        /\ \A b \in Tabs \ {a} : job'[b] = job[b]
        /\ Emit(Record(Inc(o), "order_submitted_to_storelink", a, sl))
        /\ orders[o].status = SUBMITTED /\ orders[o].by = a
    BY <1>0, <1>1, <1>8, JobEnds, OwnDecision, WorkingOrder DEF RecordSubmitted
  <2> PICK event \in Events : event = "order_submitted_to_storelink"
    BY DEF Events
  <2>2. KeepsSums(o, event, job[a].pc, job'[a].pc)
    BY <1>4, <2>1 DEF SUBMITTED, REJECTED
  <2> HIDE DEF AddsUp, One, KeepsSums
  <2> QED
    BY <1>3, <2>1, <2>2 DEF Deciding
<1>9. CASE RecordRejected(a)
  <2>1. /\ job[a].pc = "rejected" /\ job'[a].pc = "idle"
        /\ \A b \in Tabs \ {a} : job'[b] = job[b]
        /\ Emit(Record(Inc(o), "order_rejected", a, None))
        /\ orders[o].status = REJECTED /\ orders[o].by = a /\ orders[o].sl = None
    BY <1>0, <1>1, <1>9, JobEnds, OwnDecision, WorkingOrder DEF RecordRejected
  <2> PICK event \in Events : event = "order_rejected"
    BY DEF Events
  <2>2. KeepsSums(o, event, job[a].pc, job'[a].pc)
    BY <1>4, <2>1 DEF SUBMITTED, REJECTED
  <2> HIDE DEF AddsUp, One, KeepsSums
  <2> QED
    BY <1>3, <2>1, <2>2 DEF Deciding
<1> QED
  BY <1>5, <1>6, <1>7, <1>8, <1>9

\* Every step keeps the stories, on a disk that works.
LEMMA StoriesStep ==
    LossyDisk = FALSE /\ LedgerInv /\ TrailInv /\ Stories /\ [Next]_vars => Stories'
<1> SUFFICES ASSUME LossyDisk = FALSE, LedgerInv, TrailInv, Stories, [Next]_vars PROVE Stories'
  OBVIOUS
<1> USE DEF Target
<1>0. /\ TypeOK /\ job \in [Tabs -> Job] /\ ClickNamesOrder /\ orders \in Seq(Order) /\ run \in Nat
      /\ call \in [Tools -> Call] /\ DOMAIN orders \subseteq Nat
  BY DEF LedgerInv, TypeOK
<1>0a. \A pc : /\ "rejected" \in WorkOf(pc) <=> pc = "rejected"
               /\ WorkOf(pc) \cap {"marked", "recording", "announcing"} = {}
                     <=> pc \notin {"marked", "recording", "announcing"}
               /\ WorkOf(pc) \cap {"failing", "announcing"} = {} <=> pc \notin {"failing", "announcing"}
  BY WorkTold
<1>1. ASSUME NEW t \in Tools, (\E g \in Gaps : ProposeOrder(t, g)) \/ ListOpen(t) PROVE Stories'
  <2>1. /\ run' = run /\ orders' = orders /\ audit' = audit /\ job' = job
        /\ call[t].pc # "created"
    BY <1>1 DEF ProposeOrder, ListOpen
  <2>2. call'[t].pc # "created" /\ \A u \in Tools \ {t} : call'[u] = call[u]
    <3>1. ASSUME NEW g \in Gaps, ProposeOrder(t, g)
          PROVE  call'[t].pc # "created" /\ \A u \in Tools \ {t} : call'[u] = call[u]
      BY <1>0, <3>1 DEF ProposeOrder, IdleCall
    <3>2. ASSUME ListOpen(t)
          PROVE  call'[t].pc # "created" /\ \A u \in Tools \ {t} : call'[u] = call[u]
      <4> DEFINE existing == open_for(call[t].gap)
      <4>1. call' = [call EXCEPT ![t].pc = "creating", ![t].listed = Len(orders),
                                 ![t].existing = existing]
        BY <3>2 DEF ListOpen
      <4> HIDE DEF existing
      <4> QED
        BY <1>0, <4>1 DEF Call
    <3> QED
      BY <1>1, <3>1, <3>2
  <2> QED
    BY <2>1, <2>2, IdleStory
<1>2. ASSUME NEW a \in Tabs,
             \/ Render(a)
             \/ \E seen \in view[a], d \in {"approve", "reject"} : Click(a, seen, d)
             \/ IgnoreDecision(a)
      PROVE  Stories'
  <2>1. run' = run /\ orders' = orders /\ audit' = audit /\ call' = call
    BY <1>2 DEF Render, Click, IgnoreDecision
  <2>2. \A b \in Tabs : \/ job'[b] = job[b]
                        \/ job[b].pc \notin Deciding /\ job'[b].pc \notin Deciding
    <3>1. ASSUME NEW seen \in view[a], NEW d \in {"approve", "reject"}, Click(a, seen, d)
          PROVE  job[a].pc = "idle" /\ job'[a].pc = d /\ \A b \in Tabs \ {a} : job'[b] = job[b]
      BY <1>0, <3>1 DEF Click, IdleJob
    <3>2. ASSUME IgnoreDecision(a)
          PROVE  /\ job[a].pc \in {"approve", "reject"} /\ job'[a].pc = "idle"
                 /\ \A b \in Tabs \ {a} : job'[b] = job[b]
      BY <1>0, <3>2, JobEnds DEF IgnoreDecision
    <3>3. Render(a) => job' = job
      BY DEF Render
    <3> QED
      BY <1>2, <3>1, <3>2, <3>3 DEF Deciding
  <2> QED
    BY <2>1, <2>2, IdleStory
<1>3. ASSUME NEW a \in Tabs, BeginApproval(a) PROVE Stories'
  <2> PICK o \in DOMAIN orders : o = job[a].seen[2]
    BY <1>3 DEF BeginApproval, IsPending
  <2>1. /\ job[a].pc = "approve" /\ job'[a].pc = "submitting" /\ job'[a].seen = job[a].seen
        /\ \A b \in Tabs \ {a} : job'[b] = job[b]
    BY <1>0, <1>3, JobMoves DEF BeginApproval, JobPCs, Critical
  <2>2. job'[a].pc \in Deciding
    BY <2>1 DEF Deciding, JobPCs, Critical
  <2>3. \A p, r, s, c, f \in Nat :
            AddsUp(p, r, s, c, f, Proposing(o), orders[o].status, WorkOf(job[a].pc)) =>
                AddsUp(p, r, s, c, f, Proposing(o), orders'[o].status, WorkOf(job'[a].pc))
    BY <1>3, <2>1, <1>0a DEF BeginApproval, AddsUp
  <2> QED
    BY <1>3, <2>1, <2>2, <2>3, QuietStory DEF BeginApproval
<1>4. ASSUME NEW a \in Tabs, Submit(a) \/ Refuse(a) PROVE Stories'
  <2>1. /\ job[a].pc = "submitting" /\ job'[a].pc \in {"placed", "refused"}
        /\ job'[a].seen = job[a].seen /\ \A b \in Tabs \ {a} : job'[b] = job[b]
    BY <1>0, <1>4 DEF Submit, Refuse, Job
  <2>2. /\ job[a].pc \in Deciding /\ job'[a].pc \in Deciding
    BY <2>1 DEF Deciding, JobPCs, Critical
  <2> PICK o \in DOMAIN orders : o = job[a].seen[2]
    BY <2>2, WorkingOrder
  <2>3. \A p, r, s, c, f \in Nat :
            AddsUp(p, r, s, c, f, Proposing(o), orders[o].status, WorkOf(job[a].pc)) =>
                AddsUp(p, r, s, c, f, Proposing(o), orders'[o].status, WorkOf(job'[a].pc))
    BY <1>4, <2>1, <1>0a DEF Submit, Refuse, AddsUp
  <2> QED
    BY <1>4, <2>1, <2>2, <2>3, QuietStory DEF Submit, Refuse
<1>5. ASSUME NEW a \in Tabs, MarkSubmitted(a) PROVE Stories'
  <2>1. /\ job[a].pc = "placed" /\ job'[a].pc = "marked"
        /\ job'[a].seen = job[a].seen /\ \A b \in Tabs \ {a} : job'[b] = job[b]
    BY <1>0, <1>5, JobMoves DEF MarkSubmitted, JobPCs, Critical
  <2>2. /\ job[a].pc \in Deciding /\ job'[a].pc \in Deciding
    BY <2>1 DEF Deciding, JobPCs, Critical
  <2> PICK o \in DOMAIN orders : o = job[a].seen[2]
    BY <2>2, WorkingOrder
  <2>3. /\ orders[o].status = PENDING /\ orders'[o].status = SUBMITTED /\ DOMAIN orders' = DOMAIN orders
        /\ \A p \in DOMAIN orders \ {o} : orders'[p] = orders[p]
    BY <1>0, <1>5, <2>1, <2>2, WorkingOrder, Decides DEF MarkSubmitted, Critical
  <2>4. \A p, r, s, c, f \in Nat :
            AddsUp(p, r, s, c, f, Proposing(o), orders[o].status, WorkOf(job[a].pc)) =>
                AddsUp(p, r, s, c, f, Proposing(o), orders'[o].status, WorkOf(job'[a].pc))
    BY <2>1, <2>3, <1>0a DEF AddsUp, PENDING, SUBMITTED, REJECTED
  <2> QED
    BY <1>5, <2>1, <2>2, <2>3, <2>4, QuietStory DEF MarkSubmitted
<1>6. ASSUME NEW a \in Tabs, StoreDelivery(a) PROVE Stories'
  <2>1. /\ job[a].pc = "marked" /\ job'[a].pc = "recording"
        /\ job'[a].seen = job[a].seen /\ \A b \in Tabs \ {a} : job'[b] = job[b]
    BY <1>0, <1>6, JobMoves DEF StoreDelivery, JobPCs, Critical
  <2>2. /\ job[a].pc \in Deciding /\ job'[a].pc \in Deciding
    BY <2>1 DEF Deciding, JobPCs, Critical
  <2> PICK o \in DOMAIN orders : o = job[a].seen[2]
    BY <2>2, WorkingOrder
  <2>3. job[a].sl \in Nat
    BY <2>1 DEF LedgerInv, OwnerKnowsOrder, KnowsOrder, Critical
  <2>4. /\ orders'[o].status = orders[o].status /\ DOMAIN orders' = DOMAIN orders
        /\ \A p \in DOMAIN orders \ {o} : orders'[p] = orders[p]
    BY <1>0, <1>6, <2>3, StoresId DEF StoreDelivery
  <2>5. \A p, r, s, c, f \in Nat :
            AddsUp(p, r, s, c, f, Proposing(o), orders[o].status, WorkOf(job[a].pc)) =>
                AddsUp(p, r, s, c, f, Proposing(o), orders'[o].status, WorkOf(job'[a].pc))
    BY <2>1, <2>4, <1>0a DEF AddsUp
  <2> QED
    BY <1>6, <2>1, <2>2, <2>4, <2>5, QuietStory DEF StoreDelivery
<1>7. ASSUME NEW a \in Tabs, Reject(a) PROVE Stories'
  <2> PICK o \in DOMAIN orders : o = job[a].seen[2]
    BY <1>7 DEF Reject, IsPending
  <2>1. /\ job[a].pc = "reject" /\ job'[a].pc = "rejected" /\ job'[a].seen = job[a].seen
        /\ \A b \in Tabs \ {a} : job'[b] = job[b]
    BY <1>0, <1>7, JobMoves DEF Reject, JobPCs
  <2>2. job'[a].pc \in Deciding
    BY <2>1 DEF Deciding, JobPCs, Critical
  <2>3. /\ orders[o].status = PENDING /\ orders'[o].status = REJECTED /\ DOMAIN orders' = DOMAIN orders
        /\ \A p \in DOMAIN orders \ {o} : orders'[p] = orders[p]
    BY <1>0, <1>7, Decides DEF Reject, IsPending
  <2>4. \A p, r, s, c, f \in Nat :
            AddsUp(p, r, s, c, f, Proposing(o), orders[o].status, WorkOf(job[a].pc)) =>
                AddsUp(p, r, s, c, f, Proposing(o), orders'[o].status, WorkOf(job'[a].pc))
    BY <2>1, <2>3, <1>0a DEF AddsUp, PENDING, SUBMITTED, REJECTED
  <2> QED
    BY <1>7, <2>1, <2>2, <2>3, <2>4, QuietStory DEF Reject
<1>8. CASE Restart
  BY <1>8 DEF Restart, Stories
<1>9. CASE UNCHANGED vars
  BY <1>9, IdleStory DEF vars
<1>10. ASSUME NEW a \in Tabs, RecordRefusedApproval(a) \/ RecordSubmissionFailed(a)
                               \/ RecordApproved(a) \/ RecordSubmitted(a) \/ RecordRejected(a)
       PROVE  Stories'
  BY <1>10, TellingStep
<1> QED
  BY <1>1, <1>2, <1>3, <1>4, <1>5, <1>6, <1>7, <1>8, <1>9, <1>10, CreateStory, ProposedStory
     DEF Next, ToolStep, TabStep

\* With a disk that works, and however often the process restarts, an order
\* that nobody is busy with has exactly the records of what happened to it.
THEOREM TrailTellsAll == ASSUME LossyDisk = FALSE PROVE Spec => []TrailIsComplete
<1>1. Init => Stories
  BY DEF Init, Stories
<1>2. LedgerInv /\ TrailInv /\ Stories /\ [Next]_vars => Stories'
  BY StoriesStep
<1>3. LedgerInv /\ Stories => TrailIsComplete
  <2> SUFFICES ASSUME LedgerInv, Stories PROVE TrailIsComplete
    OBVIOUS
  <2>1. ASSUME NEW o \in DOMAIN orders, ~Busy(o)
        PROVE  Story(o) /\ ~Proposing(o) /\ Work(job, o) = {}
    <3>1. Work(job, o) = {}
      BY <2>1 DEF Busy, Work, Deciding, Target
    <3> QED
      BY <2>1, <3>1 DEF Stories, Busy, Proposing
  <2>2. \A o \in DOMAIN orders :
            Story(o) /\ ~Proposing(o) /\ Work(job, o) = {} =>
                /\ Count(o, "order_proposed") = 1
                /\ Count(o, "order_approved") =
                      Count(o, "order_submitted_to_storelink") + Count(o, "order_submission_failed") + 0
                /\ Count(o, "order_submitted_to_storelink") = (IF orders[o].status = SUBMITTED THEN 1 ELSE 0)
                /\ Count(o, "order_rejected") = (IF orders[o].status = REJECTED THEN 1 ELSE 0)
                /\ FinalsAgree(o)
    BY DEF Story, AddsUp
  <2>3. \A o, event : Count(o, event) \in Nat
    BY CountPlaces, PlacesFinite DEF LedgerInv, TypeOK
  <2> QED
    BY <2>1, <2>2, <2>3 DEF TrailIsComplete, FinalsAgree, Final
<1> QED
  BY <1>1, <1>2, <1>3, LedgerInvariant, TrailInvariant, PTL DEF Spec

----------------------------------------------------------------------------
(* The warning. *)

\* A call about to insert its order has listed every order that was there for
\* the gap then and is still open.
ListsOpen ==
    \A t \in Tools : call[t].pc = "creating" =>
        /\ call[t].listed \in 0..Len(orders)
        /\ open_for(call[t].gap) \cap (1..call[t].listed) \subseteq call[t].existing

\* An order is not opened again: only a new one can add to the open ones.
LEMMA OpenShrinks ==
    ASSUME LedgerInv, [Next]_vars, run' = run, NEW g, NEW o \in DOMAIN orders, o \in open_for(g)'
    PROVE  o \in open_for(g)
<1>1. o \in DOMAIN orders' /\ orders'[o].gap = g /\ orders'[o].status \in OPEN_STATUSES
  BY DEF open_for
<1>2. Stands(o)
  BY StandsStep
<1>3. orders[o].gap = g
  BY <1>1, <1>2 DEF Stands
<1>4. orders[o].status \in {PENDING, SUBMITTED, REJECTED}
  <2>1. orders \in Seq(Order) /\ orders[o] \in Order
    BY DEF LedgerInv, TypeOK
  <2> QED
    BY <2>1 DEF Order
<1>5. orders[o].status # REJECTED
  BY <1>1, <1>2 DEF Stands, OPEN_STATUSES, PENDING, SUBMITTED, REJECTED
<1> QED
  BY <1>3, <1>4, <1>5 DEF open_for, OPEN_STATUSES

\* Nobody but the call itself touches what it has listed.
LEMMA CallKeeps ==
    ASSUME LedgerInv, [Next]_vars, NEW t \in Tools, ~ListOpen(t), call'[t].pc = "creating"
    PROVE  call'[t] = call[t] /\ run' = run
<1>0. call \in [Tools -> Call]
  BY DEF LedgerInv, TypeOK
<1>1. ASSUME NEW u \in Tools, (\E h \in Gaps : ProposeOrder(u, h)) \/ ToolStep(u)
      PROVE  call'[t] = call[t] /\ run' = run
  <2>1. run' = run
    BY <1>1 DEF ProposeOrder, ToolStep, ListOpen, Create, RecordProposed
  <2>2. ASSUME NEW h \in Gaps, ProposeOrder(u, h) PROVE call'[t] = call[t]
    BY <1>0, <2>2 DEF ProposeOrder, IdleCall
  <2>3. ASSUME ListOpen(u) PROVE call'[t] = call[t]
    <3> DEFINE existing == open_for(call[u].gap)
    <3>1. call' = [call EXCEPT ![u].pc = "creating", ![u].listed = Len(orders), ![u].existing = existing]
      BY <2>3 DEF ListOpen
    <3> HIDE DEF existing
    <3>2. u # t
      BY <2>3
    <3> QED
      BY <1>0, <3>1, <3>2
  <2>4. ASSUME Create(u) PROVE call'[t] = call[t]
    BY <1>0, <2>4 DEF Create, Call
  <2>5. ASSUME RecordProposed(u) PROVE call'[t] = call[t]
    BY <1>0, <2>5 DEF RecordProposed, IdleCall
  <2> QED
    BY <1>1, <2>1, <2>2, <2>3, <2>4, <2>5 DEF ToolStep
<1>2. ASSUME NEW a \in Tabs,
             \/ Render(a)
             \/ \E seen \in view[a], d \in {"approve", "reject"} : Click(a, seen, d)
             \/ TabStep(a)
      PROVE  call' = call /\ run' = run
  BY <1>2 DEF Render, Click, TabStep, BeginApproval, IgnoreDecision, Submit, Refuse,
         RecordRefusedApproval, RecordSubmissionFailed, MarkSubmitted, StoreDelivery,
         RecordApproved, RecordSubmitted, Reject, RecordRejected
<1>3. ~Restart
  BY DEF Restart, IdleCall
<1>4. UNCHANGED vars => call' = call /\ run' = run
  BY DEF vars
<1> QED
  BY <1>1, <1>2, <1>3, <1>4 DEF Next

\* The list stays good, whatever the others do, until the order is inserted.
LEMMA ListsOpenStep == LedgerInv /\ ListsOpen /\ [Next]_vars => ListsOpen'
<1> SUFFICES ASSUME LedgerInv, ListsOpen, [Next]_vars,
                    NEW t \in Tools, call'[t].pc = "creating", NEW g, g = call'[t].gap
             PROVE  /\ call'[t].listed \in 0..Len(orders')
                    /\ open_for(g)' \cap (1..call'[t].listed) \subseteq call'[t].existing
  BY DEF ListsOpen, open_for
<1>0. call \in [Tools -> Call] /\ orders \in Seq(Order) /\ orders' \in Seq(Order)
  BY TypeStep DEF LedgerInv, TypeOK, TypeInv
<1>1. CASE ListOpen(t)
  <2> DEFINE existing == open_for(call[t].gap)
  <2>1. /\ call' = [call EXCEPT ![t].pc = "creating", ![t].listed = Len(orders),
                                ![t].existing = existing]
        /\ orders' = orders
    BY <1>1 DEF ListOpen
  <2> HIDE DEF existing
  <2>2. /\ call'[t].existing = existing /\ call'[t].gap = call[t].gap
        /\ call'[t].listed = Len(orders)
    BY <1>0, <2>1 DEF Call
  <2>3. Len(orders) \in 0..Len(orders)
    BY <1>0
  <2> QED
    BY <2>1, <2>2, <2>3 DEF existing, open_for
<1>2. CASE ~ListOpen(t)
  <2>1. call'[t] = call[t] /\ run' = run
    BY <1>2, CallKeeps
  <2>2. /\ call[t].listed \in 0..Len(orders)
        /\ open_for(call[t].gap) \cap (1..call[t].listed) \subseteq call[t].existing
    BY <2>1 DEF ListsOpen
  <2>3. Len(orders) <= Len(orders')
    <3>1. CASE Len(orders) = 0
      BY <1>0, <3>1
    <3>2. CASE Len(orders) # 0
      <4>1. Len(orders) \in DOMAIN orders
        BY <1>0, <3>2
      <4>2. Len(orders) \in DOMAIN orders'
        BY <2>1, <4>1, StandsStep DEF Stands
      <4> QED
        BY <1>0, <4>2
    <3> QED
      BY <3>1, <3>2
  <2>4. ASSUME NEW o \in open_for(g)' \cap (1..call'[t].listed)
        PROVE  o \in call'[t].existing
    <3>1. o \in DOMAIN orders /\ o \in 1..call[t].listed
      BY <1>0, <2>1, <2>2
    <3>2. o \in open_for(g)
      BY <2>1, <2>4, <3>1, OpenShrinks
    <3> QED
      BY <2>1, <2>2, <3>1, <3>2
  <2>5. call'[t].listed \in 0..Len(orders')
    BY <1>0, <2>1, <2>2, <2>3
  <2> QED
    BY <2>4, <2>5
<1> QED
  BY <1>1, <1>2

\* However many tool calls run at once: an open order that the warning of a
\* new one does not name was inserted after the call had listed the open ones.
THEOREM WarningsMissOnlyNewer == Spec => WarningMissesOnlyNewer
<1>1. Init => ListsOpen
  BY DEF Init, ListsOpen, IdleCall
<1>2. LedgerInv /\ ListsOpen /\ [Next]_vars => ListsOpen'
  BY ListsOpenStep
<1>3. ListsOpen =>
          [\A t \in Tools : Create(t) =>
              open_for(call[t].gap) \cap (1..call[t].listed) \subseteq call[t].existing]_vars
  BY DEF ListsOpen, Create
<1> QED
  BY <1>1, <1>2, <1>3, LedgerInvariant, PTL DEF Spec, WarningMissesOnlyNewer
=============================================================================
