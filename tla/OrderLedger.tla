---------------------------- MODULE OrderLedger ----------------------------
(***************************************************************************)
(* The replenishment-order ledger and its human approval gate              *)
(* (src/src/orders.py), with the two kinds of thread that drive it: tool   *)
(* calls of the agent (src/src/server.py) and decisions posted from the    *)
(* approvals page (src/src/approvals_ui.py, one thread per request), the   *)
(* audit records they append (src/src/audit.py) and the orders StoreLink   *)
(* accepts (src/src/storelink.py).                                         *)
(*                                                                         *)
(* A step is what a thread does between two points where another thread    *)
(* can see or change shared state: the ledger lock, a StoreLink call, an   *)
(* audit append, and the unlocked reads of an order that another thread is *)
(* assigning to.                                                           *)
(*                                                                         *)
(* An operator that no step of Next uses, placed before the action it      *)
(* resembles (BeginApprovalUnlocked, MarkApproved, ...), is a plausible    *)
(* slip in that action: the runs show that the properties would catch it.  *)
(***************************************************************************)
EXTENDS Integers, Sequences, FiniteSets

CONSTANTS
    Tools,        \* tool calls the MCP server runs at once
    Tabs,         \* approvals-page tabs, each with at most one POST in flight
    Gaps,         \* the (store_id, sku) pairs orders are raised for
    None,         \* Python's None
    MaxOrders,    \* bound: orders raised in one run of the process
    MaxRuns,      \* bound: runs of the process, 1 when it never restarts
    MaxRefusals,  \* bound: submissions StoreLink refuses
    LossyDisk     \* whether an audit append may fail (eventlog.py:133)

ASSUME ConstantsAssumption ==
    /\ None \notin Gaps \cup Tabs \cup Nat
    /\ None \notin Nat \X Nat
    /\ MaxOrders \in Nat /\ MaxRuns \in Nat \ {0} /\ MaxRefusals \in Nat
    /\ LossyDisk \in BOOLEAN

VARIABLES
    run,       \* which life of the process this is (RUN_ID)
    orders,    \* OrderLedger._orders in insertion order: order n is RO-(1000+n)
    lock,      \* OrderLedger._lock: the tab holding it across steps, or None
    call,      \* what each tool call is doing
    job,       \* what each approvals-page request is doing
    view,      \* the orders each tab last rendered, by run and number
    placed,    \* what StoreLink accepted: order n is SL-(7000+n)
    audit,     \* logs/audit.jsonl
    refusals   \* submissions refused so far

vars == <<run, orders, lock, call, job, view, placed, audit, refusals>>

----------------------------------------------------------------------------
(* Statuses, audit events and the records built from them. *)

PENDING   == "pending_approval"
SUBMITTED == "submitted"
REJECTED  == "rejected"
OPEN_STATUSES == {PENDING, SUBMITTED}

\* RO-1001 of one process is not RO-1001 of the next: an order is named by
\* the run that raised it and its number.
Order == [gap : Gaps, status : {PENDING, SUBMITTED, REJECTED},
          by : Tabs \cup {None}, sl : Nat \cup {None}]

NewOrder(g) == [gap |-> g, status |-> PENDING, by |-> None, sl |-> None]

Record(inc, event, by, sl) == [inc |-> inc, event |-> event, by |-> by, sl |-> sl]

\* `listed` is no part of the code: how many orders there were when the call
\* listed the open ones, for WarningMissesOnlyNewer.
IdleCall == [pc |-> "idle", gap |-> None, existing |-> {}, listed |-> 0, order |-> None]
IdleJob  == [pc |-> "idle", seen |-> None, sl |-> None]

\* The order a job is about: its POST carries only the number, so it means
\* that number in the ledger of the process that serves it.
Target(a) == job[a].seen[2]
Inc(o)    == <<run, o>>
Sent      == {placed[k].inc : k \in 1..Len(placed)}

\* emit swallows OSError, so a caller cannot tell a lost record.
Emit(record) ==
    \/ audit' = Append(audit, record)
    \/ LossyDisk /\ UNCHANGED audit

----------------------------------------------------------------------------
(* The initial state, and the tool calls. *)

Init ==
    /\ run = 1
    /\ orders = <<>>
    /\ lock = None
    /\ call = [t \in Tools |-> IdleCall]
    /\ job = [a \in Tabs |-> IdleJob]
    /\ view = [a \in Tabs |-> {}]
    /\ placed = <<>>
    /\ audit = <<>>
    /\ refusals = 0

InFlight == {t \in Tools : call[t].pc \in {"listing", "creating"}}

\* create_replenishment_order passes its argument checks and the get_sku and
\* get_inventory calls; a call that fails them changes nothing here.
ProposeOrder(t, g) ==
    /\ call[t].pc = "idle"
    /\ Len(orders) + Cardinality(InFlight) < MaxOrders
    /\ call' = [call EXCEPT ![t] = [IdleCall EXCEPT !.pc = "listing", !.gap = g]]
    /\ UNCHANGED <<run, orders, lock, job, view, placed, audit, refusals>>

open_for(g) ==
    {o \in DOMAIN orders : orders[o].gap = g /\ orders[o].status \in OPEN_STATUSES}

ListPending(t) ==
    /\ call[t].pc = "listing"
    /\ call' = [call EXCEPT ![t].pc = "creating", ![t].listed = Len(orders),
                            ![t].existing = {o \in open_for(call[t].gap) : orders[o].status = PENDING}]
    /\ UNCHANGED <<run, orders, lock, job, view, placed, audit, refusals>>

\* existing = ledger.open_for(store_id, sku): no lock is taken.
ListOpen(t) ==
    /\ call[t].pc = "listing"
    /\ call' = [call EXCEPT ![t].pc = "creating", ![t].listed = Len(orders),
                            ![t].existing = open_for(call[t].gap)]
    /\ UNCHANGED <<run, orders, lock, job, view, placed, audit, refusals>>

\* The locked part of OrderLedger.create: number the order and insert it.
Create(t) ==
    /\ call[t].pc = "creating"
    /\ lock = None
    /\ orders' = Append(orders, NewOrder(call[t].gap))
    /\ call' = [call EXCEPT ![t].pc = "created", ![t].order = Len(orders) + 1]
    /\ UNCHANGED <<run, lock, job, view, placed, audit, refusals>>

\* audit.record_proposed runs after the lock is released; the reply then
\* carries the warning built from `existing`.
RecordProposed(t) ==
    /\ call[t].pc = "created"
    /\ Emit(Record(Inc(call[t].order), "order_proposed", None, None))
    /\ call' = [call EXCEPT ![t] = IdleCall]
    /\ UNCHANGED <<run, orders, lock, job, view, placed, refusals>>

----------------------------------------------------------------------------
(* The approvals page. *)

\* GET /: the page lists ledger.pending().
Render(a) ==
    /\ job[a].pc = "idle"
    /\ view' = [view EXCEPT ![a] =
                   {Inc(o) : o \in {p \in DOMAIN orders : orders[p].status = PENDING}}]
    /\ UNCHANGED <<run, orders, lock, call, job, placed, audit, refusals>>

\* POST /decision, for an order the tab shows, however stale the tab is.
Click(a, seen, decision) ==
    /\ job[a].pc = "idle"
    /\ job' = [job EXCEPT ![a] = [IdleJob EXCEPT !.pc = decision, !.seen = seen]]
    /\ UNCHANGED <<run, orders, lock, call, view, placed, audit, refusals>>

IsKnown(o) == o \in DOMAIN orders

\* _require_pending: the order exists in this run and is not decided.
IsPending(o) == o \in DOMAIN orders /\ orders[o].status = PENDING

BeginApprovalUnlocked(a) ==
    /\ job[a].pc = "approve"
    /\ IsPending(Target(a))
    /\ lock' = a
    /\ job' = [job EXCEPT ![a].pc = "submitting"]
    /\ UNCHANGED <<run, orders, call, view, placed, audit, refusals>>

\* approve takes the lock and keeps it until the decision is stored or the
\* refusal is recorded.
BeginApproval(a) ==
    /\ job[a].pc = "approve"
    /\ lock = None
    /\ IsPending(Target(a))
    /\ lock' = a
    /\ job' = [job EXCEPT ![a].pc = "submitting"]
    /\ UNCHANGED <<run, orders, call, view, placed, audit, refusals>>

\* KeyError or ValueError of _require_pending: do_POST notes the click as
\* ignored and redirects.
IgnoreDecision(a) ==
    /\ job[a].pc \in {"approve", "reject"}
    /\ lock = None
    /\ ~IsPending(Target(a))
    /\ job' = [job EXCEPT ![a] = IdleJob]
    /\ UNCHANGED <<run, orders, lock, call, view, placed, audit, refusals>>

\* StoreLinkClient.create_replenishment accepts the order.
Submit(a) ==
    /\ job[a].pc = "submitting"
    /\ placed' = Append(placed, [inc |-> Inc(Target(a)), seen |-> job[a].seen])
    /\ job' = [job EXCEPT ![a].pc = "placed", ![a].sl = Len(placed) + 1]
    /\ UNCHANGED <<run, orders, lock, call, view, audit, refusals>>

\* It raises (KeyExpired, MissingStoreKey) before StoreLink processed it.
Refuse(a) ==
    /\ job[a].pc = "submitting"
    /\ refusals < MaxRefusals
    /\ refusals' = refusals + 1
    /\ job' = [job EXCEPT ![a].pc = "refused"]
    /\ UNCHANGED <<run, orders, lock, call, view, placed, audit>>

RecordRefusedApprovalUnlocking(a) ==
    /\ job[a].pc = "refused"
    /\ Emit(Record(Inc(Target(a)), "order_approved", a, None))
    /\ job' = [job EXCEPT ![a].pc = "failing"]
    /\ lock' = None
    /\ UNCHANGED <<run, orders, call, view, placed, refusals>>

\* The except branch, still under the lock: the approval, then the failure.
RecordRefusedApproval(a) ==
    /\ job[a].pc = "refused"
    /\ Emit(Record(Inc(Target(a)), "order_approved", a, None))
    /\ job' = [job EXCEPT ![a].pc = "failing"]
    /\ UNCHANGED <<run, orders, lock, call, view, placed, refusals>>

RecordSubmissionFailedLocked(a) ==
    /\ job[a].pc = "failing"
    /\ Emit(Record(Inc(Target(a)), "order_submission_failed", a, None))
    /\ job' = [job EXCEPT ![a] = IdleJob]
    /\ UNCHANGED <<run, orders, lock, call, view, placed, refusals>>

\* The exception then leaves the with block and do_POST answers 502.
RecordSubmissionFailed(a) ==
    /\ job[a].pc = "failing"
    /\ Emit(Record(Inc(Target(a)), "order_submission_failed", a, None))
    /\ lock' = None
    /\ job' = [job EXCEPT ![a] = IdleJob]
    /\ UNCHANGED <<run, orders, call, view, placed, refusals>>

MarkApproved(a) ==
    /\ job[a].pc = "placed"
    /\ orders' = [orders EXCEPT ![Target(a)].status = "approved", ![Target(a)].by = a]
    /\ job' = [job EXCEPT ![a].pc = "marked"]
    /\ UNCHANGED <<run, lock, call, view, placed, audit, refusals>>

MarkSubmittedUnlocking(a) ==
    /\ job[a].pc = "placed"
    /\ orders' = [orders EXCEPT ![Target(a)].status = SUBMITTED, ![Target(a)].by = a]
    /\ job' = [job EXCEPT ![a].pc = "marked"]
    /\ lock' = None
    /\ UNCHANGED <<run, call, view, placed, audit, refusals>>

\* order.decided_by and order.status are assigned before ...
MarkSubmitted(a) ==
    /\ job[a].pc = "placed"
    /\ orders' = [orders EXCEPT ![Target(a)].status = SUBMITTED, ![Target(a)].by = a]
    /\ job' = [job EXCEPT ![a].pc = "marked"]
    /\ UNCHANGED <<run, lock, call, view, placed, audit, refusals>>

\* ... storelink_order_id, expected_delivery and decided_at, and the lock is
\* released.
StoreDelivery(a) ==
    /\ job[a].pc = "marked"
    /\ orders' = [orders EXCEPT ![Target(a)].sl = job[a].sl]
    /\ lock' = None
    /\ job' = [job EXCEPT ![a].pc = "recording"]
    /\ UNCHANGED <<run, call, view, placed, audit, refusals>>

RecordApprovedOnly(a) ==
    /\ job[a].pc = "recording"
    /\ Emit(Record(Inc(Target(a)), "order_approved", a, None))
    /\ job' = [job EXCEPT ![a] = IdleJob]
    /\ UNCHANGED <<run, orders, lock, call, view, placed, refusals>>

\* record_decision and record_submitted, outside the lock.
RecordApproved(a) ==
    /\ job[a].pc = "recording"
    /\ Emit(Record(Inc(Target(a)), "order_approved", a, None))
    /\ job' = [job EXCEPT ![a].pc = "announcing"]
    /\ UNCHANGED <<run, orders, lock, call, view, placed, refusals>>

RecordSubmitted(a) ==
    /\ job[a].pc = "announcing"
    /\ Emit(Record(Inc(Target(a)), "order_submitted_to_storelink", a, orders[Target(a)].sl))
    /\ job' = [job EXCEPT ![a] = IdleJob]
    /\ UNCHANGED <<run, orders, lock, call, view, placed, refusals>>

\* reject: check and assignments in one hold of the lock ...
Reject(a) ==
    /\ job[a].pc = "reject"
    /\ lock = None
    /\ IsPending(Target(a))
    /\ orders' = [orders EXCEPT ![Target(a)].status = REJECTED, ![Target(a)].by = a]
    /\ job' = [job EXCEPT ![a].pc = "rejected"]
    /\ UNCHANGED <<run, lock, call, view, placed, audit, refusals>>

\* ... then the record, outside it.
RecordRejected(a) ==
    /\ job[a].pc = "rejected"
    /\ Emit(Record(Inc(Target(a)), "order_rejected", a, None))
    /\ job' = [job EXCEPT ![a] = IdleJob]
    /\ UNCHANGED <<run, orders, lock, call, view, placed, refusals>>

----------------------------------------------------------------------------
\* The process dies and starts again: the ledger is empty and numbers from
\* 1001; StoreLink, the audit file and the buyers' open tabs are still there.
Restart ==
    /\ run < MaxRuns
    /\ run' = run + 1
    /\ orders' = <<>>
    /\ lock' = None
    /\ call' = [t \in Tools |-> IdleCall]
    /\ job' = [a \in Tabs |-> IdleJob]
    /\ UNCHANGED <<view, placed, audit, refusals>>

\* What a thread does on its own once it has been started.
ToolStep(t) == ListOpen(t) \/ Create(t) \/ RecordProposed(t)

TabStep(a) ==
    \/ BeginApproval(a) \/ IgnoreDecision(a) \/ Submit(a) \/ Refuse(a)
    \/ RecordRefusedApproval(a) \/ RecordSubmissionFailed(a)
    \/ MarkSubmitted(a) \/ StoreDelivery(a) \/ RecordApproved(a) \/ RecordSubmitted(a)
    \/ Reject(a) \/ RecordRejected(a)

Next ==
    \/ \E t \in Tools :
          \/ \E g \in Gaps : ProposeOrder(t, g)
          \/ ToolStep(t)
    \/ \E a \in Tabs :
          \/ Render(a)
          \/ \E seen \in view[a], d \in {"approve", "reject"} : Click(a, seen, d)
          \/ TabStep(a)
    \/ Restart

Spec == Init /\ [][Next]_vars

\* A started thread keeps running, a held lock is handed on, and StoreLink
\* answers.  Nobody has to propose, click or restart.
FairSpec ==
    /\ Spec
    /\ \A t \in Tools : WF_vars(ToolStep(t))
    /\ \A a \in Tabs : WF_vars(TabStep(a))

----------------------------------------------------------------------------
(* Properties. *)

Incarnation == Nat \X Nat

CallPCs == {"idle", "listing", "creating", "created"}
Critical == {"submitting", "refused", "failing", "placed", "marked"}
JobPCs == {"idle", "approve", "reject", "recording", "announcing", "rejected"} \cup Critical
Events == {"order_proposed", "order_approved", "order_rejected",
           "order_submitted_to_storelink", "order_submission_failed"}

Call == [pc : CallPCs, gap : Gaps \cup {None}, existing : SUBSET Nat, listed : Nat,
         order : Nat \cup {None}]
Job  == [pc : JobPCs, seen : Incarnation \cup {None}, sl : Nat \cup {None}]
Placement == [inc : Incarnation, seen : Incarnation]
AuditRecord == [inc : Incarnation, event : Events, by : Tabs \cup {None}, sl : Nat \cup {None}]

\* Every variable stays in the shape the code gives it.
TypeOK ==
    /\ run \in Nat \ {0}
    /\ orders \in Seq(Order)
    /\ lock \in Tabs \cup {None}
    /\ call \in [Tools -> Call]
    /\ job \in [Tabs -> Job]
    /\ view \in [Tabs -> SUBSET Incarnation]
    /\ placed \in Seq(Placement)
    /\ audit \in Seq(AuditRecord)
    /\ refusals \in Nat

\* StoreLink never receives the same order twice, however many tabs approve
\* it and however the clicks race (the lock around orders.py:94-109).
PlacedOnce ==
    \A i, j \in 1..Len(placed) : placed[i].inc = placed[j].inc => i = j

\* The ledger and StoreLink agree: a submitted order is there, under the id
\* the ledger shows; an order that is there is submitted, or its approval is
\* still storing the answer under the lock.  A rejected one is never there.
BeingStored(o) == \E a \in Tabs : lock = a /\ job[a].pc = "placed" /\ Target(a) = o

Matches(o) ==
    /\ orders[o].status = SUBMITTED => Inc(o) \in Sent
    /\ Inc(o) \in Sent => orders[o].status = SUBMITTED \/ BeingStored(o)
    /\ orders[o].sl # None =>
          orders[o].sl \in 1..Len(placed) /\ placed[orders[o].sl].inc = Inc(o)

LedgerMatchesStoreLink == \A o \in DOMAIN orders : Matches(o)

\* A record the buyer reads was true when it was written: a submission names
\* the StoreLink order of that very order, and a failure ("The order was NOT
\* placed", audit.py:147) or a rejection ("Nothing was sent to StoreLink",
\* audit.py:117) is only written of an order StoreLink does not hold.
RecordIsTrue(r) ==
    /\ r.event = "order_submitted_to_storelink" => placed[r.sl].inc = r.inc
    /\ r.event \in {"order_submission_failed", "order_rejected"} => r.inc \notin Sent

TrailIsTrueWhenWritten ==
    [][\A k \in Len(audit) + 1 .. Len(audit') : RecordIsTrue(audit'[k])]_vars

\* Once the trail says an order was sent or rejected, it says nothing more of
\* its fate: no late failure, approval or second decision follows (a lost
\* race writes nothing, the failure records are inside the lock).
TrailIsFinal ==
    \A i, k \in 1..Len(audit) :
        /\ i < k
        /\ audit[i].inc = audit[k].inc
        /\ audit[i].event \in {"order_submitted_to_storelink", "order_rejected"}
        => audit[k].event = "order_proposed"

\* A disk that loses records makes the trail shorter, never wrong (emit
\* swallows the error, eventlog.py:133, and the caller goes on).  Through any
\* losses and restarts, what the trail says of an order's end stays true: one
\* said to be sent is at StoreLink under the id it was said to have, one said
\* to be rejected never gets there, and while the process lives its ledger
\* tells the same end, by the same person and under the same id.
StoreLinkConfirms(r) ==
    /\ r.event = "order_submitted_to_storelink" =>
          r.sl \in 1..Len(placed) /\ placed[r.sl].inc = r.inc
    /\ r.event = "order_rejected" => r.inc \notin Sent

LedgerConfirms(r) ==
    /\ r.inc[2] \in DOMAIN orders
    /\ r.event = "order_submitted_to_storelink" =>
          /\ orders[r.inc[2]].status = SUBMITTED
          /\ orders[r.inc[2]].by = r.by /\ orders[r.inc[2]].sl = r.sl
    /\ r.event = "order_rejected" =>
          orders[r.inc[2]].status = REJECTED /\ orders[r.inc[2]].by = r.by

TrailStaysTrue ==
    \A k \in 1..Len(audit) :
        /\ StoreLinkConfirms(audit[k])
        /\ audit[k].inc[1] = run => LedgerConfirms(audit[k])

\* A decision stands: within a run an order never disappears, never changes
\* what it is for, and once submitted or rejected keeps its status, the
\* person who decided it and its StoreLink id.
Stands(o) ==
    /\ o \in DOMAIN orders' /\ orders'[o].gap = orders[o].gap
    /\ orders[o].status # PENDING =>
          /\ orders'[o].status = orders[o].status
          /\ orders'[o].by = orders[o].by
          /\ orders[o].sl # None => orders'[o].sl = orders[o].sl

DecisionsStand == [][run' = run => \A o \in DOMAIN orders : Stands(o)]_vars

\* The trail is complete (on a disk that works): when no thread is
\* busy with an order its records say exactly what happened to it, by whom:
\* one proposal, a failure or a submission for every approval, and the final
\* decision the ledger stores.
Count(o, event) == Cardinality({k \in 1..Len(audit) :
                                   audit[k].inc = Inc(o) /\ audit[k].event = event})
Busy(o) ==
    \/ \E t \in Tools : call[t].pc = "created" /\ call[t].order = o
    \/ \E a \in Tabs : job[a].pc \notin {"idle", "approve", "reject"} /\ Target(a) = o

TrailIsComplete ==
    \A o \in DOMAIN orders : ~Busy(o) =>
        /\ Count(o, "order_proposed") = 1
        /\ Count(o, "order_approved") =
              Count(o, "order_submitted_to_storelink") + Count(o, "order_submission_failed")
        /\ Count(o, "order_submitted_to_storelink") = (IF orders[o].status = SUBMITTED THEN 1 ELSE 0)
        /\ Count(o, "order_rejected") = (IF orders[o].status = REJECTED THEN 1 ELSE 0)
        /\ \A k \in 1..Len(audit) :
              audit[k].inc = Inc(o) /\ audit[k].event \in {"order_rejected", "order_submitted_to_storelink"}
              => audit[k].by = orders[o].by /\ audit[k].sl = orders[o].sl

\* "a warning naming the existing order" (README.md:54-55).  With several calls
\* at once that is not so: server.py:155-156 list and insert without one lock,
\* and two calls may both list before either inserts.  What the warning may
\* miss is no more than that: an order that is open for the gap when a new one
\* is inserted, and that the reply will not name, was itself inserted after
\* this call made its list, by a call running at the same time.
WarningMissesOnlyNewer ==
    [][\A t \in Tools : Create(t) =>
          open_for(call[t].gap) \cap (1..call[t].listed) \subseteq call[t].existing]_vars

\* A poll, which takes no lock, finds a submitted order without its delivery
\* only while the approval that decided it still holds the lock, one step
\* before it stores the answer (orders.py:104-107).  In that step "includes
\* expected_delivery" (server.py:179) is not true of what the poll returns.
StoringDelivery(o) ==
    \E a \in Tabs : lock = a /\ job[a].pc = "marked" /\ Target(a) = o /\ orders[o].by = a

SubmittedShowsDelivery ==
    \A o \in DOMAIN orders :
        orders[o].status = SUBMITTED => orders[o].sl # None \/ StoringDelivery(o)

\* What StoreLink receives is the order the person saw when approving.
SeenIsPlaced ==
    \A k \in 1..Len(placed) : placed[k].seen = placed[k].inc

\* Every request is answered: no thread waits for the lock for ever.
Answered ==
    /\ \A t \in Tools : call[t].pc # "idle" ~> call[t].pc = "idle"
    /\ \A a \in Tabs : job[a].pc # "idle" ~> job[a].pc = "idle"

\* What StoreLink holds reaches the ledger and the trail: an accepted order
\* is, in the end, shown as submitted and recorded as sent.
OnRecord(k) ==
    /\ \E i \in 1..Len(audit) : audit[i].inc = placed[k].inc /\ audit[i].sl = k
    /\ placed[k].inc[2] \in DOMAIN orders
    /\ orders[placed[k].inc[2]].status = SUBMITTED /\ orders[placed[k].inc[2]].sl = k

PlacedReachesTrail ==
    \A k \in 1..MaxOrders : k <= Len(placed) ~> (k <= Len(placed) /\ OnRecord(k))

\* The gate implements its promise: what threads, locks and records do is,
\* step by step, a step of OrderApproval or none.  An order stops waiting when
\* StoreLink accepts it, before the ledger says so.
Waiting  == {Inc(o) : o \in {p \in DOMAIN orders :
                               orders[p].status = PENDING /\ Inc(p) \notin Sent}}
Declined == {Inc(o) : o \in {p \in DOMAIN orders : orders[p].status = REJECTED}}

Approval == INSTANCE OrderApproval WITH
    era <- run, waiting <- Waiting, sent <- Sent, declined <- Declined

ImplementsApproval == Approval!Spec

----------------------------------------------------------------------------
(* The inductive invariant behind TypeOK, PlacedOnce and                   *)
(* LedgerMatchesStoreLink: the lock's owner is the only thread between the *)
(* check that an order is pending and the end of its decision.             *)

OwnerHoldsLock == \A a \in Tabs : lock = a <=> job[a].pc \in Critical

\* While a tab holds the lock its order is pending until it marks it.
KnowsOrder(a) ==
    /\ Target(a) \in DOMAIN orders
    /\ orders[Target(a)].status = (IF job[a].pc = "marked" THEN SUBMITTED ELSE PENDING)
    /\ IF job[a].pc \in {"placed", "marked"}
       THEN job[a].sl \in 1..Len(placed) /\ placed[job[a].sl].inc = Inc(Target(a))
       ELSE Inc(Target(a)) \notin Sent

OwnerKnowsOrder == \A a \in Tabs : job[a].pc \in Critical => KnowsOrder(a)

\* A click names an order that some page rendered.
ClickNamesOrder == \A a \in Tabs : job[a].pc # "idle" => job[a].seen \in Incarnation

\* A tool call knows its gap, and after the insertion its order.
CallKnowsOrder ==
    \A t \in Tools :
        /\ call[t].pc \in {"listing", "creating"} => call[t].gap \in Gaps
        /\ call[t].pc = "created" => call[t].order \in Nat

\* StoreLink holds orders of this run's ledger or of an earlier run.
SentIsKnown ==
    \A k \in 1..Len(placed) :
        \/ placed[k].inc[1] < run
        \/ placed[k].inc[1] = run /\ placed[k].inc[2] \in DOMAIN orders

\* Past the lock, a request still finds its order as it decided it: this is
\* what makes the records it then writes true.
DecisionKnown ==
    \A a \in Tabs :
        /\ job[a].pc \in {"recording", "announcing"} =>
              Target(a) \in DOMAIN orders /\ orders[Target(a)].sl \in Nat
        /\ job[a].pc = "rejected" =>
              Target(a) \in DOMAIN orders /\ orders[Target(a)].status = REJECTED

LedgerInv ==
    /\ TypeOK
    /\ CallKnowsOrder
    /\ ClickNamesOrder
    /\ DecisionKnown
    /\ OwnerHoldsLock
    /\ OwnerKnowsOrder
    /\ SentIsKnown
    /\ PlacedOnce
    /\ LedgerMatchesStoreLink
=============================================================================
