------------------------------ MODULE LogQuery ------------------------------
(***************************************************************************)
(* What src/src/logquery.py finds in the records ToolCalls leaves behind:  *)
(* sessions, trace and errors as operators over the two streams.  A filter *)
(* that is not given is None.  --since, --grep and --limit, and how a      *)
(* record is printed, are left out; tail --follow is in EventLog.          *)
(*                                                                         *)
(* An operator placed before the one it resembles, and used by no other,   *)
(* is a plausible slip.                                                    *)
(***************************************************************************)
EXTENDS ToolCalls

CONSTANTS
    First,   \* the number of the first order of a run: 1001
    Base,    \* of the digits it is written in: 10
    Digits   \* bound on the digits a number has more than another

ASSUME NumbersAssumption == First \in Nat \ {0} /\ Base \in Nat \ {0, 1} /\ Digits \in Nat

----------------------------------------------------------------------------
(* The queries. *)

\* audit.entries: the records of one order; the order they come in is left
\* out, the queries only collect their traces.
Entries(order) == {e \in ToSet(trail) : e.order = order}

OrderRequestsAll(order) == {<<e.session, e.id>> : e \in Entries(order)}

\* _order_requests: the requests that the order's records are traced to.
OrderRequests(order) ==
    {<<e.session, e.id>> : e \in {x \in Entries(order) : x.session # None}}

\* order_id in json.dumps(record): the number of an order also occurs at the
\* start of a longer one (RO-1001 in RO-10010).
Number(order) == First + order - 1
OccursIn(order, other) == \E k \in 0..Digits : Number(other) \div Base^k = Number(order)
Mentions(r, order) == \E other \in r.names : OccursIn(order, other)

\* _belongs_to_order, for a record of the diagnostic stream.
BelongsToOrder(r, order, requests) == Mentions(r, order) \/ <<r.session, r.id>> \in requests

\* _matches: the ids of an audit record are those of its trace.  A record with
\* an "error" field and no outcome (approval_failed) has outcome "error" here.
Matches(r, session, id, tool, errors) ==
    /\ session # None => r.session = session
    /\ id # None => r.id = id
    /\ tool # None => r.tool = tool
    /\ errors => r.outcome = "error"

\* What each command shows of the diagnostic stream, as positions in it.
TraceOrder(order) ==
    LET requests == OrderRequests(order)
    IN  {k \in 1..Len(diag) : BelongsToOrder(diag[k], order, requests)}

Errors(session, id, tool) == {k \in 1..Len(diag) : Matches(diag[k], session, id, tool, TRUE)}

\* cmd_sessions: a row for every session id seen.
Sessions == {r.session : r \in ToSet(diag)} \ {None}

IsCallStarted(r) == r.event \in {"tool_call", "tool_call_started"}
IsCall(r) == r.event = "tool_call"

Row(session) ==
    LET done == {k \in 1..Len(diag) : diag[k].session = session /\ IsCall(diag[k])}
    IN  [calls |-> Cardinality(done), errors |-> Cardinality({k \in done : diag[k].outcome = "error"})]

----------------------------------------------------------------------------
(* Properties. *)

\* `sessions` has one row for each connection seen, and the row adds up: the
\* calls it counts and those still served are the calls the client made, but for
\* those that a restart ended, and its errors are no fewer than the calls that
\* failed.
Of(c, event) == {k \in 1..Len(diag) : diag[k].conn = c /\ diag[k].event = event}

SessionsAddUp ==
    LET seen == {r.conn : r \in ToSet(diag)} \ {None}
    IN  /\ Cardinality(Sessions) = Cardinality(seen)
        /\ \A c \in seen :
              LET session == (CHOOSE r \in ToSet(diag) : r.conn = c).session
                  row     == Row(session)
                  started == Cardinality(Of(c, "tool_call_started"))
              IN  /\ row.calls <= started
                  /\ c \notin closed
                        => row.calls + Cardinality({s \in Slots : request[s].conn = c}) = started
                  /\ row.errors >= Cardinality({k \in Of(c, "tool_call") : diag[k].failed})

\* "what is currently broken" (logquery.py:11): while a request is served, and
\* though it may never return, `errors` shows as many failed StoreLink calls of
\* it as have failed, whatever its list had room for; once it has ended in an
\* error, its tool_call, although the protocol exchange succeeded
\* (diagnostics.py:160).
Failed(made) == {k \in 1..Len(made) : made[k] = "error"}

FailuresFound(s) ==
    {k \in Errors(request[s].session, request[s].id, None) : diag[k].event = "upstream_call"}

ErrorsAreFound ==
    /\ \A s \in Slots : request[s].pc # "idle" =>
          Cardinality(FailuresFound(s)) = Cardinality(Failed(request[s].made))
    /\ \A k \in 1..Len(diag) :
          diag[k].failed => k \in Errors(diag[k].session, diag[k].id, diag[k].tool)

Proposals(order) ==
    {p \in 1..Len(trail) : trail[p].event = "order_proposed" /\ trail[p].order = order}

LoggedUnder(p) ==
    {k \in 1..Len(diag) : diag[k].conn = trail[p].conn /\ diag[k].id = trail[p].own}

Mentioning(order) == {k \in 1..Len(diag) : Mentions(diag[k], order)}

\* The trace of an order number shows every record in which the number occurs
\* and everything logged by the requests that proposed an order of that number,
\* at most one in each run of the server; it shows no other StoreLink call and
\* no other request.
OrderReplayIsExact ==
    \A order \in Numbers :
        /\ TraceOrder(order) = Mentioning(order) \cup UNION {LoggedUnder(p) : p \in Proposals(order)}
        /\ \A p, q \in Proposals(order) :
              p = q \/ trail[p].conn \in closed \/ trail[q].conn \in closed
=============================================================================
