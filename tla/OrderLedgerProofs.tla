------------------------- MODULE OrderLedgerProofs -------------------------
(***************************************************************************)
(* For any number of tool calls, tabs, orders, refusals and restarts, with *)
(* or without lost audit records: the ledger is well typed, StoreLink      *)
(* receives an order at most once, and ledger and StoreLink agree.         *)
(***************************************************************************)
EXTENDS OrderLedger, TLAPS

USE ConstantsAssumption

----------------------------------------------------------------------------
(* The shapes of a step: what every action does to the variables it changes. *)

\* A request moves on to another point of its handler.
LEMMA JobMoves ==
    ASSUME job \in [Tabs -> Job], ClickNamesOrder,
           NEW a \in Tabs, NEW pc \in JobPCs, job[a].pc # "idle",
           job' = [job EXCEPT ![a].pc = pc]
    PROVE  /\ job' \in [Tabs -> Job]
           /\ ClickNamesOrder'
           /\ job'[a].pc = pc /\ job'[a].seen = job[a].seen /\ job'[a].sl = job[a].sl
           /\ \A b \in Tabs \ {a} : job'[b] = job[b]
  BY DEF Job, ClickNamesOrder

\* A request is answered.
LEMMA JobEnds ==
    ASSUME job \in [Tabs -> Job], ClickNamesOrder,
           NEW a \in Tabs, job' = [job EXCEPT ![a] = IdleJob]
    PROVE  /\ job' \in [Tabs -> Job]
           /\ ClickNamesOrder'
           /\ job'[a].pc = "idle"
           /\ \A b \in Tabs \ {a} : job'[b] = job[b]
  BY DEF Job, ClickNamesOrder, IdleJob, JobPCs

\* The job of a tab that is not idle names an order number.
LEMMA TargetType ==
    ASSUME ClickNamesOrder, run \in Nat \ {0}, NEW a \in Tabs, job[a].pc # "idle"
    PROVE  Target(a) \in Nat /\ Inc(Target(a)) \in Incarnation
  BY DEF ClickNamesOrder, Target, Inc, Incarnation

\* Two fields of a record change together.
LEMMA FieldsType ==
    /\ \A c \in Call, n \in Nat, e \in SUBSET Nat :
          [c EXCEPT !.pc = "creating", !.listed = n, !.existing = e] \in Call
    /\ \A c \in Call, o \in Nat : [c EXCEPT !.pc = "created", !.order = o] \in Call
    /\ \A j \in Job, k \in Nat : [j EXCEPT !.pc = "placed", !.sl = k] \in Job
<1>1. ASSUME NEW c \in Call, NEW n \in Nat, NEW e \in SUBSET Nat
      PROVE  [c EXCEPT !.pc = "creating", !.listed = n, !.existing = e] \in Call
  BY DEF Call, CallPCs
<1>2. ASSUME NEW c \in Call, NEW o \in Nat
      PROVE  [c EXCEPT !.pc = "created", !.order = o] \in Call
  BY DEF Call, CallPCs
<1>3. ASSUME NEW j \in Job, NEW k \in Nat
      PROVE  [j EXCEPT !.pc = "placed", !.sl = k] \in Job
  BY DEF Job, JobPCs, Critical
<1> QED
  BY <1>1, <1>2, <1>3

\* Appending one record, or losing it, keeps the audit trail well formed.
LEMMA EmitType ==
    ASSUME audit \in Seq(AuditRecord), NEW inc \in Incarnation, NEW event \in Events,
           NEW by \in Tabs \cup {None}, NEW sl \in Nat \cup {None},
           Emit(Record(inc, event, by, sl))
    PROVE  audit' \in Seq(AuditRecord)
<1>1. Record(inc, event, by, sl) \in AuditRecord
  BY DEF Record, AuditRecord
<1> QED
  BY <1>1 DEF Emit

\* A decision changes the fields of one order and nothing else of the ledger.
LEMMA Decides ==
    ASSUME orders \in Seq(Order), NEW o \in DOMAIN orders, NEW a \in Tabs,
           NEW s \in {PENDING, SUBMITTED, REJECTED},
           orders' = [orders EXCEPT ![o].status = s, ![o].by = a]
    PROVE  /\ orders' \in Seq(Order)
           /\ DOMAIN orders' = DOMAIN orders
           /\ orders'[o].status = s /\ orders'[o].by = a /\ orders'[o].sl = orders[o].sl
           /\ \A p \in DOMAIN orders \ {o} : orders'[p] = orders[p]
<1>1. orders[o] \in Order
  OBVIOUS
<1>2. orders' = [orders EXCEPT ![o] = [orders[o] EXCEPT !.status = s, !.by = a]]
  OBVIOUS
<1> DEFINE r == [orders[o] EXCEPT !.status = s, !.by = a]
<1>3. r \in Order /\ r.status = s /\ r.by = a /\ r.sl = orders[o].sl
  BY <1>1 DEF Order
<1>4. orders' = [orders EXCEPT ![o] = r]
  BY <1>2
<1> HIDE DEF r
<1>5. orders'[o] = r
  BY ONLY <1>4, orders \in Seq(Order), o \in DOMAIN orders
<1>6. ASSUME NEW p \in DOMAIN orders \ {o} PROVE orders'[p] = orders[p]
  BY ONLY <1>4, orders \in Seq(Order), p \in DOMAIN orders \ {o}
<1>7. orders' \in Seq(Order) /\ DOMAIN orders' = DOMAIN orders
  BY ONLY <1>3, <1>4, orders \in Seq(Order), o \in DOMAIN orders
<1> QED
  BY <1>3, <1>5, <1>6, <1>7

\* Storing the StoreLink id does too.
LEMMA StoresId ==
    ASSUME orders \in Seq(Order), NEW o \in DOMAIN orders, NEW sl \in Nat \cup {None},
           orders' = [orders EXCEPT ![o].sl = sl]
    PROVE  /\ orders' \in Seq(Order)
           /\ DOMAIN orders' = DOMAIN orders
           /\ orders'[o].status = orders[o].status /\ orders'[o].sl = sl
           /\ \A p \in DOMAIN orders \ {o} : orders'[p] = orders[p]
<1>1. orders[o] \in Order
  OBVIOUS
<1>2. orders' = [orders EXCEPT ![o] = [orders[o] EXCEPT !.sl = sl]]
  OBVIOUS
<1>3. [orders[o] EXCEPT !.sl = sl] \in Order
  BY <1>1 DEF Order
<1> QED
  BY <1>1, <1>2, <1>3 DEF Order

----------------------------------------------------------------------------
(* What a request knows of its decision once it has left the lock. *)

\* Steps that undo no rejection and no StoreLink id, and bring no job past its
\* decision, keep what decided jobs know.
LEMMA KnownFrame ==
    ASSUME DecisionKnown,
           \A o \in DOMAIN orders :
               /\ o \in DOMAIN orders'
               /\ orders[o].status = REJECTED => orders'[o].status = REJECTED
               /\ orders[o].sl \in Nat => orders'[o].sl \in Nat,
           \A b \in Tabs :
              \/ job'[b] = job[b]
              \/ job'[b].pc \notin {"recording", "announcing", "rejected"}
              \/ /\ job[b].pc = "recording" /\ job'[b].pc = "announcing"
                 /\ job'[b].seen = job[b].seen
    PROVE  DecisionKnown'
  BY DEF DecisionKnown, Target

\* Every step keeps it, because a decided order never changes again.
LEMMA KnownStep == LedgerInv /\ [Next]_vars => DecisionKnown'
<1> SUFFICES ASSUME LedgerInv, [Next]_vars PROVE DecisionKnown'
  OBVIOUS
<1>0. DecisionKnown /\ job \in [Tabs -> Job] /\ ClickNamesOrder /\ orders \in Seq(Order)
  BY DEF LedgerInv, TypeOK
<1>1. ASSUME NEW t \in Tools, Create(t) PROVE DecisionKnown'
  <2>1. \A o \in DOMAIN orders : o \in DOMAIN orders' /\ orders'[o] = orders[o]
    BY <1>0, <1>1 DEF Create
  <2> QED
    BY <1>0, <1>1, <2>1, KnownFrame DEF Create
<1>2. ASSUME orders' = orders, job' = job PROVE DecisionKnown'
  BY <1>0, <1>2, KnownFrame
<1>3. ASSUME NEW t \in Tools,
             (\E g \in Gaps : ProposeOrder(t, g)) \/ ListOpen(t) \/ RecordProposed(t)
      PROVE  orders' = orders /\ job' = job
  BY <1>3 DEF ProposeOrder, ListOpen, RecordProposed
<1>4. ASSUME NEW a \in Tabs, Render(a) PROVE orders' = orders /\ job' = job
  BY <1>4 DEF Render
<1>5. ASSUME NEW a \in Tabs, NEW seen \in view[a], NEW d \in {"approve", "reject"}, Click(a, seen, d)
      PROVE DecisionKnown'
  <2>1. job'[a].pc \in {"approve", "reject"} /\ \A b \in Tabs \ {a} : job'[b] = job[b]
    BY <1>0, <1>5 DEF Click, IdleJob
  <2> QED
    BY <1>0, <1>5, <2>1, KnownFrame DEF Click
<1>6. ASSUME NEW a \in Tabs, BeginApproval(a) \/ Refuse(a) \/ RecordRefusedApproval(a)
      PROVE  DecisionKnown'
  <2>1. job'[a].pc \in {"submitting", "refused", "failing"} /\ \A b \in Tabs \ {a} : job'[b] = job[b]
    BY <1>0, <1>6, JobMoves DEF BeginApproval, Refuse, RecordRefusedApproval, JobPCs, Critical
  <2> QED
    BY <1>0, <1>6, <2>1, KnownFrame DEF BeginApproval, Refuse, RecordRefusedApproval
<1>7. ASSUME NEW a \in Tabs, IgnoreDecision(a) \/ RecordSubmissionFailed(a)
                              \/ RecordSubmitted(a) \/ RecordRejected(a)
      PROVE  DecisionKnown'
  <2>1. job'[a].pc = "idle" /\ \A b \in Tabs \ {a} : job'[b] = job[b]
    BY <1>0, <1>7, JobEnds
       DEF IgnoreDecision, RecordSubmissionFailed, RecordSubmitted, RecordRejected
  <2> QED
    BY <1>0, <1>7, <2>1, KnownFrame
       DEF IgnoreDecision, RecordSubmissionFailed, RecordSubmitted, RecordRejected
<1>8. ASSUME NEW a \in Tabs, Submit(a) PROVE DecisionKnown'
  <2>1. job'[a].pc = "placed" /\ \A b \in Tabs \ {a} : job'[b] = job[b]
    BY <1>0, <1>8 DEF Submit, Job
  <2> QED
    BY <1>0, <1>8, <2>1, KnownFrame DEF Submit
<1>9. ASSUME NEW a \in Tabs, MarkSubmitted(a) PROVE DecisionKnown'
  <2>1. Target(a) \in DOMAIN orders /\ orders[Target(a)].status = PENDING
    BY <1>9 DEF MarkSubmitted, LedgerInv, OwnerKnowsOrder, KnowsOrder, Critical
  <2>2. \A o \in DOMAIN orders :
            /\ o \in DOMAIN orders' /\ orders'[o].sl = orders[o].sl
            /\ o # Target(a) => orders'[o] = orders[o]
    BY <1>0, <1>9, <2>1, Decides DEF MarkSubmitted
  <2>3. job'[a].pc = "marked" /\ \A b \in Tabs \ {a} : job'[b] = job[b]
    BY <1>0, <1>9, JobMoves DEF MarkSubmitted, JobPCs, Critical
  <2> QED
    BY <1>0, <2>1, <2>2, <2>3, KnownFrame DEF PENDING, REJECTED
<1>10. ASSUME NEW a \in Tabs, StoreDelivery(a) PROVE DecisionKnown'
  <2>1. Target(a) \in DOMAIN orders /\ job[a].sl \in Nat
    BY <1>10 DEF StoreDelivery, LedgerInv, OwnerKnowsOrder, KnowsOrder, Critical
  <2>2. /\ DOMAIN orders' = DOMAIN orders /\ orders'[Target(a)].sl \in Nat
        /\ \A o \in DOMAIN orders : orders'[o].status = orders[o].status
        /\ \A o \in DOMAIN orders \ {Target(a)} : orders'[o] = orders[o]
    BY <1>0, <1>10, <2>1, StoresId DEF StoreDelivery
  <2>3. /\ job'[a].pc = "recording" /\ job'[a].seen = job[a].seen
        /\ \A b \in Tabs \ {a} : job'[b] = job[b]
    BY <1>0, <1>10, JobMoves DEF StoreDelivery, JobPCs
  <2> SUFFICES ASSUME NEW b \in Tabs
               PROVE  /\ job'[b].pc \in {"recording", "announcing"} =>
                            job'[b].seen[2] \in DOMAIN orders' /\ orders'[job'[b].seen[2]].sl \in Nat
                      /\ job'[b].pc = "rejected" =>
                            job'[b].seen[2] \in DOMAIN orders' /\ orders'[job'[b].seen[2]].status = REJECTED
    BY DEF DecisionKnown, Target
  <2>4. CASE b = a
    BY <2>1, <2>2, <2>3, <2>4 DEF Target
  <2>5. CASE b # a
    <3>1. job'[b] = job[b]
      BY <2>3, <2>5
    <3>2. \A o \in DOMAIN orders : orders[o].sl \in Nat => orders'[o].sl \in Nat
      BY <2>2
    <3> QED
      BY <1>0, <2>2, <3>1, <3>2 DEF DecisionKnown, Target
  <2> QED
    BY <2>4, <2>5
<1>11. ASSUME NEW a \in Tabs, RecordApproved(a) PROVE DecisionKnown'
  <2>1. /\ job[a].pc = "recording" /\ job'[a].pc = "announcing"
        /\ job'[a].seen = job[a].seen
        /\ \A b \in Tabs \ {a} : job'[b] = job[b]
    BY <1>0, <1>11, JobMoves DEF RecordApproved, JobPCs
  <2> QED
    BY <1>0, <1>11, <2>1, KnownFrame DEF RecordApproved
<1>12. ASSUME NEW a \in Tabs, Reject(a) PROVE DecisionKnown'
  <2>1. /\ Target(a) \in DOMAIN orders
        /\ DOMAIN orders' = DOMAIN orders /\ orders'[Target(a)].status = REJECTED
        /\ \A o \in DOMAIN orders : orders'[o].sl = orders[o].sl
        /\ \A o \in DOMAIN orders \ {Target(a)} : orders'[o] = orders[o]
    BY <1>0, <1>12, Decides DEF Reject, IsPending
  <2>2. /\ job'[a].pc = "rejected" /\ job'[a].seen = job[a].seen
        /\ \A b \in Tabs \ {a} : job'[b] = job[b]
    BY <1>0, <1>12, JobMoves DEF Reject, JobPCs
  <2> SUFFICES ASSUME NEW b \in Tabs
               PROVE  /\ job'[b].pc \in {"recording", "announcing"} =>
                            job'[b].seen[2] \in DOMAIN orders' /\ orders'[job'[b].seen[2]].sl \in Nat
                      /\ job'[b].pc = "rejected" =>
                            job'[b].seen[2] \in DOMAIN orders' /\ orders'[job'[b].seen[2]].status = REJECTED
    BY DEF DecisionKnown, Target
  <2>3. CASE b = a
    BY <2>1, <2>2, <2>3 DEF Target
  <2>4. CASE b # a
    <3>1. job'[b] = job[b]
      BY <2>2, <2>4
    <3>2. \A o \in DOMAIN orders : orders[o].status = REJECTED => orders'[o].status = REJECTED
      BY <2>1
    <3> QED
      BY <1>0, <2>1, <3>1, <3>2 DEF DecisionKnown, Target
  <2> QED
    BY <2>3, <2>4
<1>13. CASE Restart
  <2>1. \A b \in Tabs : job'[b].pc = "idle"
    BY <1>13 DEF Restart, IdleJob
  <2> QED
    BY <2>1 DEF DecisionKnown
<1>14. UNCHANGED vars => orders' = orders /\ job' = job
  BY DEF vars
<1> QED
  BY <1>1, <1>2, <1>3, <1>4, <1>5, <1>6, <1>7, <1>8, <1>9, <1>10, <1>11, <1>12, <1>13, <1>14
     DEF Next, ToolStep, TabStep

----------------------------------------------------------------------------
(* Types, and what a call or a job knows. *)

TypeInv == TypeOK /\ CallKnowsOrder /\ ClickNamesOrder

\* Every step keeps the types.
LEMMA TypeStep == LedgerInv /\ [Next]_vars => TypeInv'
<1> SUFFICES ASSUME LedgerInv, [Next]_vars PROVE TypeInv'
  OBVIOUS
<1> USE DEF TypeInv, TypeOK, LedgerInv
<1>1. ASSUME NEW t \in Tools, NEW g \in Gaps, ProposeOrder(t, g) PROVE TypeInv'
  BY <1>1 DEF ProposeOrder, CallKnowsOrder, ClickNamesOrder, Call, CallPCs, IdleCall
<1>2. ASSUME NEW t \in Tools, ListOpen(t) PROVE TypeInv'
  <2>1. open_for(call[t].gap) \in SUBSET Nat /\ Len(orders) \in Nat
    BY DEF open_for
  <2>2. call' \in [Tools -> Call] /\ CallKnowsOrder'
    <3>1. call' = [call EXCEPT ![t] = [call[t] EXCEPT !.pc = "creating", !.listed = Len(orders),
                                                     !.existing = open_for(call[t].gap)]]
      BY <1>2 DEF ListOpen
    <3>2. [call[t] EXCEPT !.pc = "creating", !.listed = Len(orders),
                          !.existing = open_for(call[t].gap)] \in Call
      BY <2>1, FieldsType
    <3>3. call' \in [Tools -> Call]
      BY <3>1, <3>2
    <3>4. call'[t].pc = "creating" /\ call'[t].gap \in Gaps
      BY <1>2, <3>1 DEF ListOpen, CallKnowsOrder, Call
    <3>5. \A u \in Tools \ {t} : call'[u] = call[u]
      BY <3>1
    <3> QED
      BY <3>3, <3>4, <3>5 DEF CallKnowsOrder
  <2> QED
    BY <1>2, <2>2 DEF ListOpen, ClickNamesOrder
<1>3. ASSUME NEW t \in Tools, Create(t) PROVE TypeInv'
  <2>1. NewOrder(call[t].gap) \in Order
    BY <1>3 DEF Create, NewOrder, Order, CallKnowsOrder
  <2>2. orders' \in Seq(Order)
    BY <1>3, <2>1 DEF Create
  <2>3. call' \in [Tools -> Call] /\ CallKnowsOrder'
    <3>1. call' = [call EXCEPT ![t] = [call[t] EXCEPT !.pc = "created", !.order = Len(orders) + 1]]
      BY <1>3 DEF Create
    <3>2. [call[t] EXCEPT !.pc = "created", !.order = Len(orders) + 1] \in Call
      <4>1. call[t] \in Call /\ Len(orders) + 1 \in Nat
        OBVIOUS
      <4> QED
        BY <4>1, FieldsType
    <3>3. call' \in [Tools -> Call]
      BY <3>1, <3>2
    <3>4. call'[t].pc = "created" /\ call'[t].order \in Nat
      BY <3>1 DEF Call
    <3>5. \A u \in Tools \ {t} : call'[u] = call[u]
      BY <3>1
    <3> QED
      BY <3>3, <3>4, <3>5 DEF CallKnowsOrder
  <2> QED
    BY <1>3, <2>2, <2>3 DEF Create, ClickNamesOrder
<1>4. ASSUME NEW t \in Tools, RecordProposed(t) PROVE TypeInv'
  <2>1. Inc(call[t].order) \in Incarnation
    BY <1>4 DEF RecordProposed, CallKnowsOrder, Inc, Incarnation
  <2>2. audit' \in Seq(AuditRecord)
    BY <1>4, <2>1, EmitType DEF RecordProposed, Events
  <2>3. call' \in [Tools -> Call] /\ CallKnowsOrder'
    BY <1>4 DEF RecordProposed, Call, CallPCs, CallKnowsOrder, IdleCall
  <2> QED
    BY <1>4, <2>2, <2>3 DEF RecordProposed, ClickNamesOrder
<1>5. ASSUME NEW a \in Tabs, Render(a) PROVE TypeInv'
  BY <1>5 DEF Render, Inc, Incarnation, CallKnowsOrder, ClickNamesOrder
<1>6. ASSUME NEW a \in Tabs, NEW seen \in view[a], NEW d \in {"approve", "reject"}, Click(a, seen, d)
      PROVE TypeInv'
  BY <1>6 DEF Click, CallKnowsOrder, ClickNamesOrder, Job, JobPCs, IdleJob
<1>7. ASSUME NEW a \in Tabs, BeginApproval(a) PROVE TypeInv'
  BY <1>7, JobMoves DEF BeginApproval, JobPCs, Critical, CallKnowsOrder
<1>8. ASSUME NEW a \in Tabs, IgnoreDecision(a) PROVE TypeInv'
  BY <1>8, JobEnds DEF IgnoreDecision, CallKnowsOrder
<1>9. ASSUME NEW a \in Tabs, Submit(a) PROVE TypeInv'
  <2>1. [inc |-> Inc(Target(a)), seen |-> job[a].seen] \in Placement
    BY <1>9, TargetType DEF Submit, Placement, ClickNamesOrder
  <2>2. placed' \in Seq(Placement)
    BY <1>9, <2>1 DEF Submit
  <2>3. job' \in [Tabs -> Job] /\ ClickNamesOrder'
    <3>1. job' = [job EXCEPT ![a] = [job[a] EXCEPT !.pc = "placed", !.sl = Len(placed) + 1]]
      BY <1>9 DEF Submit
    <3>2. [job[a] EXCEPT !.pc = "placed", !.sl = Len(placed) + 1] \in Job
      <4>1. job[a] \in Job /\ Len(placed) + 1 \in Nat
        OBVIOUS
      <4> QED
        BY <4>1, FieldsType
    <3>3. job' \in [Tabs -> Job]
      BY <3>1, <3>2
    <3>4. job[a].seen \in Incarnation /\ job'[a].seen = job[a].seen
      BY <1>9, <3>1 DEF Submit, ClickNamesOrder, Job
    <3>5. \A b \in Tabs \ {a} : job'[b] = job[b]
      BY <3>1
    <3> QED
      BY <3>3, <3>4, <3>5 DEF ClickNamesOrder
  <2> QED
    BY <1>9, <2>2, <2>3 DEF Submit, CallKnowsOrder
<1>10. ASSUME NEW a \in Tabs, Refuse(a) PROVE TypeInv'
  <2>1. job' \in [Tabs -> Job] /\ ClickNamesOrder'
    BY <1>10, JobMoves DEF Refuse, JobPCs, Critical
  <2>2. refusals' \in Nat
    BY <1>10 DEF Refuse
  <2> QED
    BY <1>10, <2>1, <2>2 DEF Refuse, CallKnowsOrder
<1>11. ASSUME NEW a \in Tabs, RecordRefusedApproval(a) PROVE TypeInv'
  <2>1. audit' \in Seq(AuditRecord)
    BY <1>11, TargetType, EmitType DEF RecordRefusedApproval, Events
  <2> QED
    BY <1>11, <2>1, JobMoves DEF RecordRefusedApproval, JobPCs, Critical, CallKnowsOrder
<1>12. ASSUME NEW a \in Tabs, RecordSubmissionFailed(a) PROVE TypeInv'
  <2>1. audit' \in Seq(AuditRecord)
    BY <1>12, TargetType, EmitType DEF RecordSubmissionFailed, Events
  <2> QED
    BY <1>12, <2>1, JobEnds DEF RecordSubmissionFailed, CallKnowsOrder
<1>13. ASSUME NEW a \in Tabs, MarkSubmitted(a) PROVE TypeInv'
  <2>1. Target(a) \in DOMAIN orders
    BY <1>13 DEF MarkSubmitted, OwnerKnowsOrder, KnowsOrder, Critical
  <2>2. orders' \in Seq(Order)
    BY <1>13, <2>1, Decides DEF MarkSubmitted
  <2> QED
    BY <1>13, <2>2, JobMoves DEF MarkSubmitted, JobPCs, Critical, CallKnowsOrder
<1>14. ASSUME NEW a \in Tabs, StoreDelivery(a) PROVE TypeInv'
  <2>1. Target(a) \in DOMAIN orders /\ job[a].sl \in Nat \cup {None}
    BY <1>14 DEF StoreDelivery, OwnerKnowsOrder, KnowsOrder, Critical, Job
  <2>2. orders' \in Seq(Order)
    BY <1>14, <2>1, StoresId DEF StoreDelivery
  <2> QED
    BY <1>14, <2>2, JobMoves DEF StoreDelivery, JobPCs, CallKnowsOrder
<1>15. ASSUME NEW a \in Tabs, RecordApproved(a) PROVE TypeInv'
  <2>1. audit' \in Seq(AuditRecord)
    BY <1>15, TargetType, EmitType DEF RecordApproved, Events
  <2> QED
    BY <1>15, <2>1, JobMoves DEF RecordApproved, JobPCs, CallKnowsOrder
<1>16. ASSUME NEW a \in Tabs, RecordSubmitted(a) PROVE TypeInv'
  <2>1. orders[Target(a)].sl \in Nat
    BY <1>16 DEF RecordSubmitted, DecisionKnown
  <2>2. audit' \in Seq(AuditRecord)
    BY <1>16, <2>1, TargetType, EmitType DEF RecordSubmitted, Events
  <2> QED
    BY <1>16, <2>2, JobEnds DEF RecordSubmitted, CallKnowsOrder
<1>17. ASSUME NEW a \in Tabs, Reject(a) PROVE TypeInv'
  <2>1. orders' \in Seq(Order)
    BY <1>17, Decides DEF Reject, IsPending
  <2> QED
    BY <1>17, <2>1, JobMoves DEF Reject, JobPCs, CallKnowsOrder
<1>18. ASSUME NEW a \in Tabs, RecordRejected(a) PROVE TypeInv'
  <2>1. audit' \in Seq(AuditRecord)
    BY <1>18, TargetType, EmitType DEF RecordRejected, Events
  <2> QED
    BY <1>18, <2>1, JobEnds DEF RecordRejected, CallKnowsOrder
<1>19. CASE Restart
  BY <1>19 DEF Restart, CallKnowsOrder, ClickNamesOrder, Call, Job, CallPCs, JobPCs, IdleCall, IdleJob
<1>20. CASE UNCHANGED vars
  BY <1>20 DEF vars, CallKnowsOrder, ClickNamesOrder
<1> QED
  BY <1>1, <1>2, <1>3, <1>4, <1>5, <1>6, <1>7, <1>8, <1>9, <1>10, <1>11, <1>12, <1>13, <1>14,
     <1>15, <1>16, <1>17, <1>18, <1>19, <1>20 DEF Next, ToolStep, TabStep

----------------------------------------------------------------------------
(* The lock's owner, the ledger and StoreLink. *)

SafeInv ==
    OwnerHoldsLock /\ OwnerKnowsOrder /\ SentIsKnown /\ PlacedOnce /\ LedgerMatchesStoreLink

\* Only the owner of the lock is inside the critical section.
LEMMA OneOwner ==
    ASSUME OwnerHoldsLock, NEW a \in Tabs, job[a].pc \in Critical
    PROVE  lock = a /\ \A b \in Tabs \ {a} : job[b].pc \notin Critical
  BY DEF OwnerHoldsLock

\* A step that leaves the ledger, its lock and StoreLink alone, and moves
\* jobs outside the critical section, or from a submission to its refusal,
\* preserves everything.
LEMMA OutsideStep ==
    ASSUME LedgerInv, UNCHANGED <<run, orders, lock, placed>>,
           \A b \in Tabs :
              \/ job'[b] = job[b]
              \/ job[b].pc \notin Critical /\ job'[b].pc \notin Critical
              \/ /\ job[b].pc \in {"submitting", "refused"}
                 /\ job'[b].pc \in {"refused", "failing"} /\ job'[b].seen = job[b].seen
    PROVE  SafeInv'
<1> USE DEF LedgerInv
<1>1. Sent' = Sent
  BY DEF Sent
<1>2. OwnerHoldsLock'
  BY DEF OwnerHoldsLock, Critical
<1>3. OwnerKnowsOrder'
  <2> SUFFICES ASSUME NEW b \in Tabs, job'[b].pc \in Critical PROVE KnowsOrder(b)'
    BY DEF OwnerKnowsOrder
  <2> QED
    BY <1>1 DEF OwnerKnowsOrder, KnowsOrder, Target, Inc, Critical
<1>4. SentIsKnown' /\ PlacedOnce'
  BY DEF SentIsKnown, PlacedOnce
<1>5. LedgerMatchesStoreLink'
  <2> SUFFICES ASSUME NEW o \in DOMAIN orders PROVE Matches(o)'
    BY DEF LedgerMatchesStoreLink
  <2>1. BeingStored(o) => BeingStored(o)'
    BY DEF BeingStored, Target, Critical
  <2> QED
    BY <1>1, <2>1 DEF LedgerMatchesStoreLink, Matches, Inc
<1> QED
  BY <1>2, <1>3, <1>4, <1>5 DEF SafeInv

\* StoreLink does not hold the next number of this run.
LEMMA NextIsNew ==
    ASSUME LedgerInv PROVE Inc(Len(orders) + 1) \notin Sent
<1> DEFINE n == Len(orders) + 1
<1> SUFFICES ASSUME NEW k \in 1..Len(placed), placed[k].inc = <<run, n>> PROVE FALSE
  BY DEF Sent, Inc
<1>1. placed[k].inc[1] = run /\ placed[k].inc[2] = n
  OBVIOUS
<1>2. n \notin DOMAIN orders /\ ~(run < run)
  BY DEF LedgerInv, TypeOK
<1> QED
  BY <1>1, <1>2 DEF LedgerInv, SentIsKnown

\* A new order is pending, and nobody has sent or is sending it.
LEMMA CreateStep ==
    ASSUME LedgerInv, NEW t \in Tools, Create(t)
    PROVE  SafeInv'
<1> USE DEF LedgerInv, Create
<1> DEFINE n == Len(orders) + 1
<1>1. /\ DOMAIN orders' = 1..n /\ DOMAIN orders = 1..(n - 1) /\ n \in Nat
      /\ \A o \in DOMAIN orders : orders'[o] = orders[o]
      /\ orders'[n] = NewOrder(call[t].gap)
  BY DEF TypeOK
<1>2. Sent' = Sent
  BY DEF Sent
<1>3. Inc(n) \notin Sent
  BY NextIsNew
<1>4. \A b \in Tabs : job[b].pc \notin Critical
  BY DEF OwnerHoldsLock, TypeOK
<1>5. OwnerHoldsLock' /\ OwnerKnowsOrder'
  BY <1>4 DEF OwnerHoldsLock, OwnerKnowsOrder
<1>6. SentIsKnown' /\ PlacedOnce'
  BY <1>1 DEF SentIsKnown, PlacedOnce
<1>7. LedgerMatchesStoreLink'
  <2> SUFFICES ASSUME NEW o \in 1..n PROVE Matches(o)'
    BY <1>1 DEF LedgerMatchesStoreLink
  <2>1. CASE o = n
    BY <1>1, <1>2, <1>3, <2>1 DEF Matches, Inc, NewOrder, PENDING, SUBMITTED
  <2>2. CASE o # n
    <3>1. o \in DOMAIN orders /\ orders'[o] = orders[o]
      BY <1>1, <2>2
    <3>2. ~BeingStored(o)
      BY <1>4 DEF BeingStored, Critical
    <3> QED
      BY <1>2, <3>1, <3>2 DEF LedgerMatchesStoreLink, Matches, Inc
  <2> QED
    BY <2>1, <2>2
<1> QED
  BY <1>5, <1>6, <1>7 DEF SafeInv

\* A tab enters the critical section on a pending order, which StoreLink
\* does not hold: the lock is free, so nobody is storing its answer.
LEMMA BeginStep ==
    ASSUME LedgerInv, NEW a \in Tabs, BeginApproval(a)
    PROVE  SafeInv'
<1> USE DEF LedgerInv
<1>1. /\ job'[a].pc = "submitting" /\ job'[a].seen = job[a].seen
      /\ \A b \in Tabs \ {a} : job'[b] = job[b]
  BY JobMoves DEF BeginApproval, TypeOK, JobPCs, Critical
<1>2. \A b \in Tabs : job[b].pc \notin Critical
  BY DEF BeginApproval, OwnerHoldsLock
<1>3. Inc(Target(a)) \notin Sent
  <2>1. ~BeingStored(Target(a))
    BY <1>2 DEF BeingStored, Critical
  <2> QED
    BY <2>1 DEF BeginApproval, IsPending, LedgerMatchesStoreLink, Matches, PENDING, SUBMITTED
<1>4. Sent' = Sent
  BY DEF BeginApproval, Sent
<1>5. OwnerHoldsLock'
  BY <1>1, <1>2 DEF BeginApproval, OwnerHoldsLock, Critical
<1>6. OwnerKnowsOrder'
  BY <1>1, <1>2, <1>3, <1>4 DEF BeginApproval, OwnerKnowsOrder, KnowsOrder, IsPending, Target, Inc
<1>7. SentIsKnown' /\ PlacedOnce'
  BY DEF BeginApproval, SentIsKnown, PlacedOnce
<1>8. LedgerMatchesStoreLink'
  <2> SUFFICES ASSUME NEW o \in DOMAIN orders PROVE Matches(o)'
    BY DEF LedgerMatchesStoreLink, BeginApproval
  <2>1. ~BeingStored(o)
    BY <1>2 DEF BeingStored, Critical
  <2> QED
    BY <1>4, <2>1 DEF BeginApproval, LedgerMatchesStoreLink, Matches, Inc
<1> QED
  BY <1>5, <1>6, <1>7, <1>8 DEF SafeInv

\* StoreLink accepts the owner's order, which it did not hold.
LEMMA SubmitStep ==
    ASSUME LedgerInv, NEW a \in Tabs, Submit(a)
    PROVE  SafeInv'
<1> USE DEF LedgerInv
<1>1. /\ job'[a].pc = "placed" /\ job'[a].seen = job[a].seen /\ job'[a].sl = Len(placed) + 1
      /\ \A b \in Tabs \ {a} : job'[b] = job[b]
  BY DEF Submit, TypeOK, Job
<1>2. /\ Len(placed) \in Nat /\ Len(placed') = Len(placed) + 1
      /\ \A k \in 1..Len(placed) : placed'[k] = placed[k]
      /\ placed'[Len(placed) + 1].inc = Inc(Target(a))
  BY DEF Submit, TypeOK
<1>3. job[a].pc \in Critical /\ lock = a /\ \A b \in Tabs \ {a} : job[b].pc \notin Critical
  BY OneOwner DEF Submit, Critical
<1>4. /\ Target(a) \in DOMAIN orders /\ orders[Target(a)].status = PENDING
      /\ Inc(Target(a)) \notin Sent
  BY <1>3 DEF Submit, OwnerKnowsOrder, KnowsOrder
<1>5. Sent' = Sent \cup {Inc(Target(a))}
  BY <1>2 DEF Sent
<1>6. OwnerHoldsLock'
  BY <1>1, <1>3 DEF Submit, OwnerHoldsLock, Critical
<1>7. OwnerKnowsOrder'
  <2>1. KnowsOrder(a)'
    <3>1. Target(a)' = Target(a) /\ Inc(Target(a))' = Inc(Target(a)) /\ orders' = orders
      BY <1>1 DEF Submit, Target, Inc
    <3>2. job'[a].sl \in 1..Len(placed') /\ placed'[job'[a].sl].inc = Inc(Target(a))
      BY <1>1, <1>2
    <3> QED
      BY <1>1, <1>4, <3>1, <3>2 DEF KnowsOrder
  <2>2. \A b \in Tabs \ {a} : job'[b].pc \notin Critical
    BY <1>1, <1>3
  <2> QED
    BY <2>1, <2>2 DEF OwnerKnowsOrder
<1>8. SentIsKnown'
  BY <1>2, <1>4 DEF Submit, SentIsKnown, Inc
<1>9. PlacedOnce'
  BY <1>2, <1>4 DEF PlacedOnce, Sent
<1>10. LedgerMatchesStoreLink'
  <2> SUFFICES ASSUME NEW o \in DOMAIN orders PROVE Matches(o)'
    BY DEF LedgerMatchesStoreLink, Submit
  <2>1. CASE o = Target(a)
    <3>1. BeingStored(o)'
      BY <1>1, <1>3, <2>1 DEF Submit, BeingStored, Target
    <3> QED
      BY <1>2, <1>4, <2>1, <3>1 DEF Submit, LedgerMatchesStoreLink, Matches, Inc, PENDING, SUBMITTED
  <2>2. CASE o # Target(a)
    <3>1. ~BeingStored(o)
      BY <1>3 DEF Submit, BeingStored, Critical
    <3>2. Inc(o) \in Sent' <=> Inc(o) \in Sent
      BY <1>5, <2>2 DEF Inc
    <3> QED
      BY <1>2, <3>1, <3>2 DEF Submit, LedgerMatchesStoreLink, Matches, Inc
  <2> QED
    BY <2>1, <2>2
<1> QED
  BY <1>6, <1>7, <1>8, <1>9, <1>10 DEF SafeInv

\* The owner leaves after a refusal: its order is as it was.
LEMMA FailStep ==
    ASSUME LedgerInv, NEW a \in Tabs, RecordSubmissionFailed(a)
    PROVE  SafeInv'
<1> USE DEF LedgerInv
<1>1. job'[a].pc = "idle" /\ \A b \in Tabs \ {a} : job'[b] = job[b]
  BY JobEnds DEF RecordSubmissionFailed, TypeOK
<1>2. lock = a /\ \A b \in Tabs \ {a} : job[b].pc \notin Critical
  BY OneOwner DEF RecordSubmissionFailed, Critical
<1>3. \A b \in Tabs : job'[b].pc \notin Critical
  BY <1>1, <1>2 DEF Critical
<1>4. Sent' = Sent
  BY DEF RecordSubmissionFailed, Sent
<1>5. OwnerHoldsLock' /\ OwnerKnowsOrder'
  BY <1>3 DEF RecordSubmissionFailed, OwnerHoldsLock, OwnerKnowsOrder
<1>6. SentIsKnown' /\ PlacedOnce'
  BY DEF RecordSubmissionFailed, SentIsKnown, PlacedOnce
<1>7. LedgerMatchesStoreLink'
  <2> SUFFICES ASSUME NEW o \in DOMAIN orders PROVE Matches(o)'
    BY DEF LedgerMatchesStoreLink, RecordSubmissionFailed
  <2>1. ~BeingStored(o)
    BY <1>2 DEF RecordSubmissionFailed, BeingStored
  <2> QED
    BY <1>4, <2>1 DEF RecordSubmissionFailed, LedgerMatchesStoreLink, Matches, Inc
<1> QED
  BY <1>5, <1>6, <1>7 DEF SafeInv

\* The owner marks the order StoreLink has just accepted.
LEMMA MarkStep ==
    ASSUME LedgerInv, NEW a \in Tabs, MarkSubmitted(a)
    PROVE  SafeInv'
<1> USE DEF LedgerInv
<1>1. lock = a /\ \A b \in Tabs \ {a} : job[b].pc \notin Critical
  BY OneOwner DEF MarkSubmitted, Critical
<1>2. KnowsOrder(a)
  BY DEF MarkSubmitted, OwnerKnowsOrder, Critical
<1>3. /\ job'[a].pc = "marked" /\ job'[a].seen = job[a].seen /\ job'[a].sl = job[a].sl
      /\ \A b \in Tabs \ {a} : job'[b] = job[b]
  BY JobMoves DEF MarkSubmitted, TypeOK, JobPCs, Critical
<1>4. /\ DOMAIN orders' = DOMAIN orders
      /\ orders'[Target(a)].status = SUBMITTED /\ orders'[Target(a)].sl = orders[Target(a)].sl
      /\ \A p \in DOMAIN orders \ {Target(a)} : orders'[p] = orders[p]
  BY <1>2, Decides DEF MarkSubmitted, KnowsOrder, TypeOK
<1>5. Sent' = Sent /\ Inc(Target(a)) \in Sent
  BY <1>2 DEF MarkSubmitted, Sent, KnowsOrder
<1>6. OwnerHoldsLock'
  BY <1>1, <1>3 DEF MarkSubmitted, OwnerHoldsLock, Critical
<1>7. OwnerKnowsOrder'
  <2>1. KnowsOrder(a)'
    BY <1>2, <1>3, <1>4 DEF MarkSubmitted, KnowsOrder, Target, Inc
  <2> QED
    BY <1>1, <1>3, <2>1 DEF OwnerKnowsOrder
<1>8. SentIsKnown' /\ PlacedOnce'
  BY <1>4 DEF MarkSubmitted, SentIsKnown, PlacedOnce
<1>9. LedgerMatchesStoreLink'
  <2> SUFFICES ASSUME NEW o \in DOMAIN orders PROVE Matches(o)'
    BY <1>4 DEF LedgerMatchesStoreLink
  <2>1. CASE o = Target(a)
    BY <1>4, <1>5, <2>1 DEF MarkSubmitted, LedgerMatchesStoreLink, Matches, Inc
  <2>2. CASE o # Target(a)
    <3>1. ~BeingStored(o)
      BY <1>1, <2>2 DEF BeingStored
    <3> QED
      BY <1>4, <1>5, <2>2, <3>1 DEF MarkSubmitted, LedgerMatchesStoreLink, Matches, Inc
  <2> QED
    BY <2>1, <2>2
<1> QED
  BY <1>6, <1>7, <1>8, <1>9 DEF SafeInv

\* The owner stores the StoreLink id and leaves.
LEMMA StoreStep ==
    ASSUME LedgerInv, NEW a \in Tabs, StoreDelivery(a)
    PROVE  SafeInv'
<1> USE DEF LedgerInv
<1>1. lock = a /\ \A b \in Tabs \ {a} : job[b].pc \notin Critical
  BY OneOwner DEF StoreDelivery, Critical
<1>2. /\ Target(a) \in DOMAIN orders /\ orders[Target(a)].status = SUBMITTED
      /\ job[a].sl \in 1..Len(placed) /\ placed[job[a].sl].inc = Inc(Target(a))
  BY DEF StoreDelivery, OwnerKnowsOrder, KnowsOrder, Critical
<1>3. job'[a].pc = "recording" /\ \A b \in Tabs \ {a} : job'[b] = job[b]
  BY JobMoves DEF StoreDelivery, TypeOK, JobPCs
<1>4. /\ DOMAIN orders' = DOMAIN orders
      /\ orders'[Target(a)].status = SUBMITTED /\ orders'[Target(a)].sl = job[a].sl
      /\ \A p \in DOMAIN orders \ {Target(a)} : orders'[p] = orders[p]
  BY <1>2, StoresId DEF StoreDelivery, TypeOK, Job
<1>5. Sent' = Sent /\ Inc(Target(a)) \in Sent
  BY <1>2 DEF StoreDelivery, Sent
<1>6. \A b \in Tabs : job'[b].pc \notin Critical
  BY <1>1, <1>3 DEF Critical
<1>7. OwnerHoldsLock' /\ OwnerKnowsOrder'
  BY <1>6 DEF StoreDelivery, OwnerHoldsLock, OwnerKnowsOrder
<1>8. SentIsKnown' /\ PlacedOnce'
  BY <1>4 DEF StoreDelivery, SentIsKnown, PlacedOnce
<1>9. LedgerMatchesStoreLink'
  <2> SUFFICES ASSUME NEW o \in DOMAIN orders PROVE Matches(o)'
    BY <1>4 DEF LedgerMatchesStoreLink
  <2>1. CASE o = Target(a)
    BY <1>2, <1>4, <1>5, <2>1 DEF StoreDelivery, Matches, Inc
  <2>2. CASE o # Target(a)
    <3>1. ~BeingStored(o)
      BY <1>1 DEF StoreDelivery, BeingStored
    <3> QED
      BY <1>4, <1>5, <2>2, <3>1 DEF StoreDelivery, LedgerMatchesStoreLink, Matches, Inc
  <2> QED
    BY <2>1, <2>2
<1> QED
  BY <1>7, <1>8, <1>9 DEF SafeInv

\* A rejection ends an order that nobody is sending.
LEMMA RejectStep ==
    ASSUME LedgerInv, NEW a \in Tabs, Reject(a)
    PROVE  SafeInv'
<1> USE DEF LedgerInv
<1>1. \A b \in Tabs : job[b].pc \notin Critical
  BY DEF Reject, OwnerHoldsLock
<1>2. Target(a) \in DOMAIN orders /\ orders[Target(a)].status = PENDING
  BY DEF Reject, IsPending
<1>3. job'[a].pc = "rejected" /\ \A b \in Tabs \ {a} : job'[b] = job[b]
  BY JobMoves DEF Reject, TypeOK, JobPCs
<1>4. /\ DOMAIN orders' = DOMAIN orders
      /\ orders'[Target(a)].status = REJECTED /\ orders'[Target(a)].sl = orders[Target(a)].sl
      /\ \A p \in DOMAIN orders \ {Target(a)} : orders'[p] = orders[p]
  BY <1>2, Decides DEF Reject, TypeOK
<1>5. Sent' = Sent
  BY DEF Reject, Sent
<1>6. \A o : ~BeingStored(o)
  BY <1>1 DEF BeingStored, Critical
<1>7. \A b \in Tabs : job'[b].pc \notin Critical
  BY <1>1, <1>3 DEF Critical
<1>8. OwnerHoldsLock' /\ OwnerKnowsOrder'
  BY <1>1, <1>7 DEF Reject, OwnerHoldsLock, OwnerKnowsOrder
<1>9. SentIsKnown' /\ PlacedOnce'
  BY <1>4 DEF Reject, SentIsKnown, PlacedOnce
<1>10. LedgerMatchesStoreLink'
  <2> SUFFICES ASSUME NEW o \in DOMAIN orders PROVE Matches(o)'
    BY <1>4 DEF LedgerMatchesStoreLink
  <2>1. CASE o = Target(a)
    BY <1>2, <1>4, <1>5, <1>6, <2>1
       DEF Reject, LedgerMatchesStoreLink, Matches, Inc, PENDING, SUBMITTED, REJECTED
  <2>2. CASE o # Target(a)
    BY <1>4, <1>5, <1>6, <2>2 DEF Reject, LedgerMatchesStoreLink, Matches, Inc
  <2> QED
    BY <2>1, <2>2
<1> QED
  BY <1>8, <1>9, <1>10 DEF SafeInv

\* The new process knows no order; StoreLink's orders are of earlier runs.
LEMMA RestartStep ==
    ASSUME LedgerInv, Restart
    PROVE  SafeInv'
<1> USE DEF LedgerInv, Restart
<1>1. DOMAIN orders' = {}
  OBVIOUS
<1>2. OwnerHoldsLock' /\ OwnerKnowsOrder'
  BY DEF OwnerHoldsLock, OwnerKnowsOrder, IdleJob, Critical
<1>3. SentIsKnown'
  <2> SUFFICES ASSUME NEW k \in 1..Len(placed) PROVE placed[k].inc[1] < run'
    BY DEF SentIsKnown
  <2>1. run \in Nat /\ placed[k] \in Placement
    BY DEF TypeOK
  <2>2. placed[k].inc[1] \in Nat
    BY <2>1 DEF Placement, Incarnation
  <2>3. placed[k].inc[1] <= run
    BY <2>1, <2>2 DEF SentIsKnown
  <2> QED
    BY <2>1, <2>2, <2>3
<1>4. PlacedOnce' /\ LedgerMatchesStoreLink'
  BY <1>1 DEF PlacedOnce, LedgerMatchesStoreLink
<1> QED
  BY <1>2, <1>3, <1>4 DEF SafeInv

----------------------------------------------------------------------------

\* The invariant holds at the start.
LEMMA LedgerInit == Init => LedgerInv
  BY DEF Init, LedgerInv, TypeOK, DecisionKnown, CallKnowsOrder, ClickNamesOrder, OwnerHoldsLock, OwnerKnowsOrder,
         SentIsKnown, PlacedOnce, LedgerMatchesStoreLink, Call, Job, CallPCs, JobPCs, Critical,
         IdleCall, IdleJob

\* Every step preserves it.
LEMMA LedgerStep == LedgerInv /\ [Next]_vars => LedgerInv'
<1> SUFFICES ASSUME LedgerInv, [Next]_vars PROVE SafeInv'
  BY KnownStep, TypeStep DEF LedgerInv, SafeInv, TypeInv
<1>0. job \in [Tabs -> Job] /\ ClickNamesOrder
  BY DEF LedgerInv, TypeOK
<1>1. ASSUME NEW t \in Tools, Create(t) PROVE SafeInv'
  BY <1>1, CreateStep
<1>2. ASSUME NEW t \in Tools,
             (\E g \in Gaps : ProposeOrder(t, g)) \/ ListOpen(t) \/ RecordProposed(t)
      PROVE  SafeInv'
  BY <1>2, OutsideStep DEF ProposeOrder, ListOpen, RecordProposed
<1>3. ASSUME NEW a \in Tabs, Render(a) PROVE SafeInv'
  BY <1>3, OutsideStep DEF Render
<1>4. ASSUME NEW a \in Tabs, NEW seen \in view[a], NEW d \in {"approve", "reject"}, Click(a, seen, d)
      PROVE SafeInv'
  <2>1. job[a].pc \notin Critical /\ job'[a].pc \notin Critical
    BY <1>0, <1>4 DEF Click, Critical, IdleJob
  <2>2. \A b \in Tabs \ {a} : job'[b] = job[b]
    BY <1>0, <1>4 DEF Click
  <2> QED
    BY <1>4, <2>1, <2>2, OutsideStep DEF Click
<1>5. ASSUME NEW a \in Tabs, BeginApproval(a) PROVE SafeInv'
  BY <1>5, BeginStep
<1>6. ASSUME NEW a \in Tabs, IgnoreDecision(a) \/ RecordSubmitted(a) \/ RecordRejected(a)
      PROVE  SafeInv'
  <2>1. job[a].pc \notin Critical
    BY <1>6 DEF IgnoreDecision, RecordSubmitted, RecordRejected, Critical
  <2>2. job'[a].pc \notin Critical /\ \A b \in Tabs \ {a} : job'[b] = job[b]
    BY <1>0, <1>6, JobEnds DEF IgnoreDecision, RecordSubmitted, RecordRejected, Critical
  <2> QED
    BY <1>6, <2>1, <2>2, OutsideStep DEF IgnoreDecision, RecordSubmitted, RecordRejected
<1>7. ASSUME NEW a \in Tabs, Submit(a) PROVE SafeInv'
  BY <1>7, SubmitStep
<1>8. ASSUME NEW a \in Tabs, Refuse(a) \/ RecordRefusedApproval(a) PROVE SafeInv'
  <2>1. /\ job[a].pc \in {"submitting", "refused"} /\ job'[a].pc \in {"refused", "failing"}
        /\ job'[a].seen = job[a].seen /\ \A b \in Tabs \ {a} : job'[b] = job[b]
    BY <1>0, <1>8, JobMoves DEF Refuse, RecordRefusedApproval, JobPCs, Critical
  <2> QED
    BY <1>8, <2>1, OutsideStep DEF Refuse, RecordRefusedApproval
<1>9. ASSUME NEW a \in Tabs, RecordSubmissionFailed(a) PROVE SafeInv'
  BY <1>9, FailStep
<1>10. ASSUME NEW a \in Tabs, MarkSubmitted(a) PROVE SafeInv'
  BY <1>10, MarkStep
<1>11. ASSUME NEW a \in Tabs, StoreDelivery(a) PROVE SafeInv'
  BY <1>11, StoreStep
<1>12. ASSUME NEW a \in Tabs, RecordApproved(a) PROVE SafeInv'
  <2>1. job[a].pc \notin Critical /\ job'[a].pc \notin Critical /\ \A b \in Tabs \ {a} : job'[b] = job[b]
    BY <1>0, <1>12, JobMoves DEF RecordApproved, JobPCs, Critical
  <2> QED
    BY <1>12, <2>1, OutsideStep DEF RecordApproved
<1>13. ASSUME NEW a \in Tabs, Reject(a) PROVE SafeInv'
  BY <1>13, RejectStep
<1>14. CASE Restart
  BY <1>14, RestartStep
<1>15. CASE UNCHANGED vars
  BY <1>15, OutsideStep DEF vars
<1> QED
  BY <1>1, <1>2, <1>3, <1>4, <1>5, <1>6, <1>7, <1>8, <1>9, <1>10, <1>11, <1>12, <1>13, <1>14,
     <1>15 DEF Next, ToolStep, TabStep

\* The inductive invariant holds of every behaviour: the lock's owner is the
\* only one deciding, and knows what the ledger and StoreLink hold.
THEOREM LedgerInvariant == Spec => []LedgerInv
  BY LedgerInit, LedgerStep, PTL DEF Spec

\* Every variable keeps its type.
THEOREM TypeCorrect == Spec => []TypeOK
<1>1. LedgerInv => TypeOK
  BY DEF LedgerInv
<1> QED
  BY <1>1, LedgerInvariant, PTL

\* StoreLink never receives an order twice, for any number of tabs.
THEOREM NoDoublePlacement == Spec => []PlacedOnce
<1>1. LedgerInv => PlacedOnce
  BY DEF LedgerInv
<1> QED
  BY <1>1, LedgerInvariant, PTL

\* The ledger and StoreLink agree about every order of this run.
THEOREM LedgerAgrees == Spec => []LedgerMatchesStoreLink
<1>1. LedgerInv => LedgerMatchesStoreLink
  BY DEF LedgerInv
<1> QED
  BY <1>1, LedgerInvariant, PTL
=============================================================================
