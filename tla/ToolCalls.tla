----------------------------- MODULE ToolCalls -----------------------------
(***************************************************************************)
(* The diagnostic stream of tool calls (src/src/diagnostics.py): the       *)
(* middleware that opens a request scope around every tools/call, the      *)
(* wrapper that attaches StoreLink calls to the scope they are made in,    *)
(* session ids, and the trace that joins a proposal in the audit trail to  *)
(* the request it came from.  Several requests are served at once, on one  *)
(* connection or on several, and the approvals page calls StoreLink        *)
(* outside any request.  A restart ends connections and requests, empties  *)
(* the ledger and starts its numbers again; the two streams stay.          *)
(*                                                                         *)
(* diag is what was emitted: what a file of it loses is in EventLog.       *)
(* An upstream call is known by its outcome.  An operator that no step of  *)
(* Next uses, placed before the one it resembles, is a plausible slip.     *)
(***************************************************************************)
EXTENDS Integers, SequencesExt

CONSTANTS
    Connections,  \* client connections
    Named,        \* those whose transport has a session id of its own
    Slots,        \* requests served at once
    None,         \* no session, no request
    UpstreamCap,  \* upstream calls kept per request: 50
    MaxMessages,  \* bound: messages received
    MaxClicks,    \* bound: decisions posted on the approvals page
    MaxRestarts   \* bound: restarts of the server

ASSUME CallsAssumption ==
    /\ Named \subseteq Connections
    /\ None \notin Connections \cup Nat /\ Connections \cap Nat = {}
    /\ IsFiniteSet(Slots)
    /\ UpstreamCap \in Nat /\ MaxMessages \in Nat /\ MaxClicks \in Nat
    /\ MaxRestarts \in Nat

VARIABLES
    minted,    \* connection.state: the session id minted for it, or None
    lastId,    \* JSON-RPC ids: each client numbers its own messages
    closed,    \* connections that a restart has ended
    request,   \* the tools/call each slot is serving, with its RequestScope
    diag,      \* diagnostic.jsonl
    trail,     \* audit.jsonl: proposals with their trace, decisions without
    ledger,    \* the status of each order of this run
    page,      \* the decision a thread of the approvals page is serving
    messages,  \* messages received so far
    clicks,    \* decisions posted so far
    restarts   \* restarts so far

vars == <<minted, lastId, closed, request, diag, trail, ledger, page, messages, clicks, restarts>>

\* The StoreLink calls of each tool in the order they end, TRUE for one made
\* inside the next: get_inventory and get_pos_transactions look up the SKU.
DailySalesCalls    == <<TRUE, FALSE>>
StockPositionCalls == <<TRUE, FALSE, FALSE, FALSE>> \o DailySalesCalls
CreateOrderCalls   == <<FALSE, TRUE, FALSE>>

Upstream == [
    list_stores                |-> <<FALSE>>,
    get_stock_position         |-> StockPositionCalls,
    get_sales_history          |-> DailySalesCalls,
    create_replenishment_order |-> CreateOrderCalls,
    get_replenishment_order    |-> <<>>]

Tools == DOMAIN Upstream

\* names, answer: the orders its arguments and its answer mention.  conn and
\* made are history: whose request it is, every call it made.
NoRequest == [pc |-> "idle", conn |-> None, session |-> None, id |-> None, tool |-> None,
              names |-> {}, answer |-> {}, step |-> 1, calls |-> <<>>, made |-> <<>>]

NoClick == [pc |-> "idle", order |-> None, outcome |-> None]

\* failed is history: the tool has raised.
Line(event, r, outcome) ==
    [event |-> event, session |-> r.session, id |-> r.id, tool |-> r.tool, names |-> r.names,
     outcome |-> outcome, conn |-> r.conn, failed |-> r.pc = "failing"]

\* The orders of this run, numbered as its ledger does, and the numbers in the
\* trail, those of earlier runs included.
Orders  == 1..Len(ledger)
Numbers == {trail[k].order : k \in 1..Len(trail)}

Init ==
    /\ minted = [c \in Connections |-> None]
    /\ lastId = [c \in Connections |-> 0]
    /\ request = [s \in Slots |-> NoRequest]
    /\ diag = <<>> /\ trail = <<>> /\ ledger = <<>> /\ page = NoClick
    /\ closed = {} /\ messages = 0 /\ clicks = 0 /\ restarts = 0

----------------------------------------------------------------------------
(* Sessions. *)

\* uuid4: an id nobody else has.
NewId == messages + 1

SessionPerMessage(c) == IF c \in Named THEN c ELSE NewId

SessionFallback(c) == IF c \in Named THEN c ELSE 0

\* The transport's id, or the one minted once for the connection.
SessionOf(c) == IF c \in Named THEN c ELSE IF minted[c] # None THEN minted[c] ELSE NewId

Receive(c) ==
    /\ messages < MaxMessages /\ c \notin closed
    /\ messages' = messages + 1
    /\ lastId' = [lastId EXCEPT ![c] = @ + 1]
    /\ minted' = [minted EXCEPT ![c] = IF c \in Named THEN None ELSE SessionOf(c)]

\* initialize, tools/list, notifications: one record when they end.
LogPlain(c, outcome) ==
    /\ Receive(c)
    /\ diag' = Append(diag, Line("mcp_request",
           [NoRequest EXCEPT !.session = SessionOf(c), !.id = lastId'[c], !.conn = c], outcome))
    /\ UNCHANGED <<closed, request, trail, ledger, page, clicks, restarts>>

\* What the arguments of each tool may mention: an order of this run or of an
\* earlier one, asked for or spoken of in the reason for another.
Asks(tool) ==
    IF tool \in {"get_replenishment_order", "create_replenishment_order"}
    THEN {{o} : o \in Numbers} \cup {{}} ELSE {{}}

\* tool_call_started, then the scope is set.
StartCall(s, c, tool, names) ==
    /\ request[s].pc = "idle"
    /\ Receive(c)
    /\ LET r == [NoRequest EXCEPT !.pc = "serving", !.conn = c, !.session = SessionOf(c),
                                  !.id = lastId'[c], !.tool = tool, !.names = names]
       IN  /\ request' = [request EXCEPT ![s] = r]
           /\ diag' = Append(diag, Line("tool_call_started", r, None))
    /\ UNCHANGED <<closed, trail, ledger, page, clicks, restarts>>

----------------------------------------------------------------------------
(* The tool body and its upstream calls. *)

\* _scope.get() in the code that runs under slot s.  ContextVar: its own.
ScopeShared(s) == CHOOSE q \in Slots : request[q].pc # "idle"
Scope(s) == s

AttachAll(calls, outcome) == Append(calls, outcome)

\* _record_upstream: a note stands for everything past the cap.
Attach(calls, outcome) ==
    IF Len(calls) < UpstreamCap THEN Append(calls, outcome)
    ELSE IF Len(calls) = UpstreamCap THEN Append(calls, "omitted")
    ELSE calls

\* A failed call gets a line of its own, at once.
LinesOf(s, outcome) ==
    IF outcome = "error" THEN <<Line("upstream_call", request[s], "error")>> ELSE <<>>

Wrapped(s, outcome, pc, step) ==
    LET q    == Scope(s)
        own  == [request EXCEPT ![s].made = Append(@, outcome), ![s].pc = pc, ![s].step = step]
    IN  /\ request' = [own EXCEPT ![q].calls = Attach(@, outcome)]
        /\ diag' = diag \o LinesOf(q, outcome)
        /\ UNCHANGED <<minted, lastId, closed, trail, ledger, page, messages, clicks, restarts>>

Nested(s)   == Upstream[request[s].tool][request[s].step]
HasCalls(s) == request[s].step <= Len(Upstream[request[s].tool])

CallSucceeds(s) ==
    /\ request[s].pc = "serving" /\ HasCalls(s)
    /\ Wrapped(s, "ok", "serving", request[s].step + 1)

\* NotFound, KeyExpired, MissingStoreKey, or whatever a real client raises: the
\* tool raises, after the call around this one has failed too.
CallFails(s) ==
    /\ request[s].pc = "serving" /\ HasCalls(s)
    /\ Wrapped(s, "error", IF Nested(s) THEN "unwinding" ELSE "failing", request[s].step)

\* A store without a valid key fails before the SKU is looked up.
OuterCallFails(s) ==
    /\ \/ request[s].pc = "unwinding"
       \/ request[s].pc = "serving" /\ HasCalls(s) /\ Nested(s)
    /\ Wrapped(s, "error", "failing", request[s].step)

\* The body raises by itself: invalid arguments, an unknown order, a dict
\* that changed size.
BodyFails(s) ==
    /\ request[s].pc = "serving"
    /\ request[s].step = 1 \/ ~HasCalls(s)
    /\ request' = [request EXCEPT ![s].pc = "failing"]
    /\ UNCHANGED <<minted, lastId, closed, diag, trail, ledger, page, messages, clicks, restarts>>

\* A stock position names the open orders of its gap, an order lookup only
\* the order asked for; an unknown order raises.
BodyReturns(s, listed) ==
    /\ request[s].pc = "serving" /\ ~HasCalls(s)
    /\ request[s].tool # "create_replenishment_order"
    /\ request[s].tool = "get_replenishment_order"
          => request[s].names # {} /\ request[s].names \subseteq Orders
    /\ listed # {} => request[s].tool = "get_stock_position"
    /\ request' = [request EXCEPT ![s].pc = "returning", ![s].answer = listed]
    /\ UNCHANGED <<minted, lastId, closed, diag, trail, ledger, page, messages, clicks, restarts>>

\* The order is created and its proposal recorded, with current_trace(); the
\* answer names it and warns of the open orders listed before.
Propose(s, listed) ==
    /\ request[s].pc = "serving" /\ ~HasCalls(s)
    /\ request[s].tool = "create_replenishment_order"
    /\ LET q == Scope(s)
           o == Len(ledger) + 1
       IN  /\ ledger' = Append(ledger, "pending_approval")
           /\ request' = [request EXCEPT ![s].pc = "returning", ![s].answer = {o} \cup listed]
           /\ trail' = Append(trail, [event |-> "order_proposed", order |-> o,
                                      session |-> request[q].session, id |-> request[q].id,
                                      conn |-> request[s].conn, own |-> request[s].id])
    /\ UNCHANGED <<minted, lastId, closed, diag, page, messages, clicks, restarts>>

----------------------------------------------------------------------------
(* The answer. *)

\* _tool_error: the SDK answers for a tool that raised, so its failure is read
\* back off the result.
OutcomeUnread(s) == "ok"
Outcome(s) == IF request[s].pc = "failing" THEN "error" ELSE "ok"

Finish(s) ==
    /\ request[s].pc \in {"failing", "returning"}
    /\ diag' = Append(diag, Line("tool_call", [request[s] EXCEPT !.names = @ \cup request[s].answer],
                                 Outcome(s)))
    /\ request' = [request EXCEPT ![s] = NoRequest]
    /\ UNCHANGED <<minted, lastId, closed, trail, ledger, page, messages, clicks, restarts>>

\* The handler itself raises (a cancelled request), whatever the body did: no
\* answer is on record.
FinishRaised(s) ==
    /\ request[s].pc \in {"failing", "returning"}
    /\ diag' = Append(diag, Line("tool_call", request[s], "error"))
    /\ request' = [request EXCEPT ![s] = NoRequest]
    /\ UNCHANGED <<minted, lastId, closed, trail, ledger, page, messages, clicks, restarts>>

----------------------------------------------------------------------------
(* The approvals page: threads of its own, outside any request. *)

Pending(order) == order \in Orders /\ ledger[order] = "pending_approval"

Click ==
    /\ page.pc = "idle"
    /\ clicks < MaxClicks
    /\ clicks' = clicks + 1
    /\ UNCHANGED <<minted, lastId, closed, request, trail, messages, restarts>>

PageLines(outcomes) == [k \in 1..Len(outcomes) |-> Line("upstream_call", NoRequest, outcomes[k])]

\* What create_replenishment leaves in the order the calls end: it looks up the
\* SKU, unless the store's key fails first.
SubmitCalls == {<<"ok", "ok">>, <<"error">>, <<"error", "error">>, <<"ok", "error">>}

\* approve calls StoreLink: with no scope, every call has a line of its own.
Submit(order, outcomes) ==
    /\ Click /\ Pending(order)
    /\ page' = [pc |-> "submitted", order |-> order, outcome |-> Last(outcomes)]
    /\ ledger' = IF Last(outcomes) = "ok" THEN [ledger EXCEPT ![order] = "submitted"] ELSE ledger
    /\ diag' = diag \o PageLines(outcomes)

Reject(order) ==
    /\ Click /\ Pending(order)
    /\ page' = [pc |-> "rejected", order |-> order, outcome |-> "ok"]
    /\ ledger' = [ledger EXCEPT ![order] = "rejected"]
    /\ UNCHANGED diag

\* An order decided before, or one that the ledger lost: a breadcrumb names it,
\* nothing else.
Ignore(order) ==
    /\ Click /\ ~Pending(order)
    /\ diag' = Append(diag, Line("approval_ignored", [NoRequest EXCEPT !.names = {order}], None))
    /\ UNCHANGED <<page, ledger>>

Decision(event) == [event |-> event, order |-> page.order, session |-> None, id |-> None,
                    conn |-> None, own |-> None]

\* The audit records, which have no trace; a refused approval leaves a
\* breadcrumb with its error besides.
RecordDecision ==
    /\ page.pc # "idle"
    /\ trail' = trail \o
           (IF page.pc = "rejected" THEN <<Decision("order_rejected")>>
            ELSE <<Decision("order_approved"),
                   Decision(IF page.outcome = "ok" THEN "order_submitted_to_storelink"
                                                   ELSE "order_submission_failed")>>)
    /\ diag' = IF page.outcome = "ok" THEN diag
               ELSE Append(diag, Line("approval_failed", [NoRequest EXCEPT !.names = {page.order}], "error"))
    /\ page' = NoClick
    /\ UNCHANGED <<minted, lastId, closed, request, ledger, messages, clicks, restarts>>

\* The process ends, with the requests it serves, the connections it has and
\* the orders it knows, and is started again.
Restart ==
    /\ restarts < MaxRestarts
    /\ restarts' = restarts + 1
    /\ closed' = {c \in Connections : lastId[c] # 0}
    /\ request' = [s \in Slots |-> NoRequest]
    /\ ledger' = <<>> /\ page' = NoClick
    /\ UNCHANGED <<minted, lastId, diag, trail, messages, clicks>>

Next ==
    \/ \E c \in Connections, outcome \in {"ok", "error"} : LogPlain(c, outcome)
    \/ \E s \in Slots :
          \/ \E c \in Connections, tool \in Tools : \E names \in Asks(tool) : StartCall(s, c, tool, names)
          \/ CallSucceeds(s) \/ CallFails(s) \/ OuterCallFails(s) \/ BodyFails(s)
          \/ \E listed \in SUBSET Orders : BodyReturns(s, listed) \/ Propose(s, listed)
          \/ Finish(s) \/ FinishRaised(s)
    \/ \E o \in Numbers :
          \/ \E outcomes \in SubmitCalls : Submit(o, outcomes)
          \/ Reject(o) \/ Ignore(o)
    \/ RecordDecision
    \/ Restart

Spec == Init /\ [][Next]_vars

----------------------------------------------------------------------------
(* Properties. *)

Session   == Connections \cup Nat \cup {None}
SomeConn  == Connections \cup {None}
SomeId    == Nat \cup {None}
Request == [pc : {"idle", "serving", "unwinding", "failing", "returning"}, conn : SomeConn,
            session : Session, id : SomeId, tool : Tools \cup {None}, names : SUBSET Nat, answer : SUBSET Nat,
            step : Nat,
            calls : Seq({"ok", "error", "omitted"}), made : Seq({"ok", "error"})]
Record == [event : {"mcp_request", "tool_call_started", "tool_call", "upstream_call",
                    "approval_ignored", "approval_failed"},
           session : Session, id : SomeId, tool : Tools \cup {None}, names : SUBSET Nat,
           outcome : {None, "ok", "error"}, conn : SomeConn, failed : BOOLEAN]

AuditEvents == {"order_proposed", "order_approved", "order_rejected",
                "order_submitted_to_storelink", "order_submission_failed"}

\* Every variable stays in the shape the code gives it; a tool_call record
\* carries at most UpstreamCap calls and one note.
TypeOK ==
    /\ minted \in [Connections -> SomeId]
    /\ lastId \in [Connections -> Nat]
    /\ request \in [Slots -> Request]
    /\ \A s \in Slots : Len(request[s].calls) <= UpstreamCap + 1
    /\ diag \in Seq(Record)
    /\ trail \in Seq([event : AuditEvents, order : Nat, session : Session, id : SomeId,
                      conn : SomeConn, own : SomeId])
    /\ page \in [pc : {"idle", "submitted", "rejected"}, order : SomeId, outcome : {None, "ok", "error"}]
    /\ closed \subseteq Connections /\ ledger \in Seq({"pending_approval", "submitted", "rejected"})
    /\ messages \in 0..MaxMessages /\ clicks \in 0..MaxClicks /\ restarts \in 0..MaxRestarts

SameRequest(x, y) == x.session = y.session /\ x.id = y.id

\* Two records carry the same session id exactly when they are of one
\* connection, on whichever messages the id is asked for: otherwise "every
\* request would look like its own session" (diagnostics.py:125).
SessionsAreConnections ==
    \A i, j \in 1..Len(diag) :
        diag[i].conn # None /\ diag[j].conn # None =>
            (diag[i].session = diag[j].session <=> diag[i].conn = diag[j].conn)

\* session_id and request_id are a key, although every client counts from 1
\* and their requests overlap: a tool_call has one start, before it, of the
\* same tool, and no request ends twice.
CallsArePaired ==
    \A k \in 1..Len(diag) : diag[k].event = "tool_call" =>
        /\ \A j \in 1..Len(diag) :
              diag[j].event = "tool_call" /\ SameRequest(diag[j], diag[k]) => j = k
        /\ \E i \in 1..(k - 1) :
              /\ diag[i].event = "tool_call_started"
              /\ SameRequest(diag[i], diag[k]) /\ diag[i].tool = diag[k].tool
              /\ \A j \in 1..Len(diag) :
                    diag[j].event = "tool_call_started" /\ SameRequest(diag[j], diag[k]) => j = i

\* StoreLink calls are "attached to the tool call that caused them"
\* (diagnostics.py:312): a request's list is its own calls in order, up to the
\* cap, whatever other requests and the approvals page call meanwhile.
UpstreamIsOwn ==
    \A s \in Slots :
        LET made == request[s].made
        IN  request[s].calls = IF Len(made) <= UpstreamCap THEN made
                               ELSE Append(SubSeq(made, 1, UpstreamCap), "omitted")
=============================================================================
