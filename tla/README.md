# A verification project for the StoreLink MCP server

The server (`src/src/*.py`, Python) lets an agent check stock and raise
replenishment orders for Korral stores; a buyer approves every order on a web
page before it is sent to StoreLink, and two JSONL files record what happened.
This directory holds TLA+ models of the parts of it that are concurrent or that
can fail half-way, the TLC runs that check them, and TLAPS proofs of the main
results for every value of the constants.

## 1. Inventory

One process. The MCP SDK runs the synchronous tools, and the approvals page
(`ThreadingHTTPServer`) serves each HTTP request on a thread of its own; both
share the in-memory ledger, the StoreLink client, the key provider, the audit
position cache and the two log files. IT overwrites the secrets file from
outside, `logquery` reads the log files from another process, and the buyers'
browser tabs outlive the process.

| Component | State | Operations | What makes it correct |
|---|---|---|---|
| Order ledger (`orders.py`) | `_orders` dict, `_lock`, in memory | `create`, `get`, `open_for`, `pending`, `approve`, `reject` | an order is sent at most once, only after an approval, never after a rejection; a decision stands; the ledger shows what StoreLink holds; the lock is always given back |
| Agent tools (`server.py`) | none of its own | five tools; `create_replenishment_order` is the only write | a duplicate is warned of; a submitted order shows its delivery; cover and risk err by no more than their rounding |
| Approvals page (`approvals_ui.py`) | none; each tab shows an old rendering | `GET /`, `POST /decision`, `/audit`, `/audit.csv`, `/whoami` | a stale or lost click changes nothing; what is sent is what was seen |
| Audit trail (`audit.py`) | `_positions_seen` (200 entries), `audit.jsonl` | `record_proposed`, `record_decision`, `record_submitted`, `record_submission_failed`, `entries`, `note_position_seen` | every record is true when written and stays true, also when the disk loses others; an undisturbed order has a complete and final story; a proposal carries the evidence it was based on |
| Event log files (`eventlog.py`) | two files, one older generation, lock, counter | `emit`, `_maybe_rotate`, `read` | order and retention on disk, bounded size, reads in order and complete |
| StoreLink keys (`storelink.py`) | cached keys and stamp, lock; the secrets file; the key StoreLink accepts | `get_key`, `refresh`, `_store_call` with one retry | the cache never goes back; a call fails only for a reason outside the process; no store is taken down by a bad overwrite |
| StoreLink stub (`storelink.py`) | orders, demo data | `create_replenishment`, reads | ids are numbered in order of acceptance |
| Diagnostics middleware (`diagnostics.py`) | session map, per-request list of upstream calls | request scope, `_record_upstream`, `current_trace` | started/finished pairs, cap of 50 upstream calls, session ids kept apart |
| Log query CLI (`logquery.py`) | `tail --follow` counts the records it has seen | `sessions`, `trace`, `errors`, `tail`, `audit` | counts that add up; every failure found; the replay of an order complete and exact; no record skipped or printed twice |
| Entry point (`main.py`) | none | starts the page, serves MCP | - |

How they interact: tools and page call the ledger; `approve` calls StoreLink
while it holds the ledger lock, and writes the two failure records under it, but
writes the two success records after releasing it. `create` inserts under the
lock and records the proposal after it. `open_for`, `pending` and `get` take no
lock. StoreLink calls go through `_store_call` and so through the provider's
lock. `emit` swallows `OSError`: nobody knows that a record was lost.

Hard behaviours: clicks that race on one order, in stale tabs; unlocked reads in
the middle of `approve`; records of different threads in any order; a StoreLink
refusal half-way through an approval; a restart that forgets the ledger and
starts numbering again; a figure rounded twice and then compared; the secrets file changing between `stat` and `read`; a
key rotating under a running call; rotation of a log under a reader; a write
that is cut short, maybe inside a character; a follower that counts records where
others insert and drop them; two streams read one after the other and merged by time;
an order number that comes back while the logs still hold the old one. `hazards` in `PROJECT.json` lists each of them at its line,
with the properties that watch it.

## 2. Modules

| Module | What it is |
|---|---|
| `OrderApproval` | abstract specification: what the approval gate promises, without threads, locks or records |
| `OrderLedger` | the ledger, the tool calls and page requests that drive it, the audit records, the orders StoreLink accepts, restarts |
| `MCOrderLedger` | small instances of `OrderLedger` for TLC (symmetry) |
| `OrderLedgerProofs` | `LedgerInv` is inductive; types, single placement, agreement with StoreLink |
| `OrderApprovalProofs` | `OrderLedger` implements `OrderApproval` |
| `OrderTrailProofs` | records are true when written, stay true, are final and complete; decisions stand; a submitted order shows its delivery; what the warning of a duplicate may miss |
| `StoreKeys` | the key provider, the secrets file, key rotation, `_store_call` |
| `StoreKeysProofs` | every safety property of `StoreKeys` |
| `EventLog` | `emit`, rotation and `read` of one log file; `tail --follow --stream` of that file |
| `EventLogProofs` | every property of `log_streams` |
| `PositionCache`, `MCPositionCache` | the evidence cache of `audit.py`, filled without a lock by several threads |
| `PositionCacheProofs` | every property of `position_cache` |
| `ToolCalls` | the middleware, request scopes, session ids, upstream calls, the trace of a proposal, the page's decisions, restarts |
| `LogQuery` | what `logquery` finds in the records `ToolCalls` leaves (extends it) |
| `ToolCallsProofs` | every property of `tool_calls` |
| `MCToolCalls` | small instances of `LogQuery` for TLC (symmetry) |
| `StockPosition` | average, cover and risk of `get_stock_position` |
| `StockPositionProofs` | the error of cover and risk is bounded |

In each module an operator that no step of `Next` uses, placed before the
definition it resembles (`BeginApprovalUnlocked`, `Roll`'s `MustRollLate`, ...),
is a plausible slip of a programmer; substituting it makes the property named
under `mutants` in `PROJECT.json` fail, which shows that the property is about
the code and not about the shape of the model.

### OrderLedger

A step is what a thread does between two points where others can interfere.

| Model | Code |
|---|---|
| `orders`, `lock` | `OrderLedger._orders`, `_lock`; order *n* is `RO-(1000+n)`; `sl` is `storelink_order_id` |
| `call[t]` | a run of `create_replenishment_order`: `ProposeOrder`, `ListOpen` (unlocked), `Create` (the locked part), `RecordProposed` (after it); `listed` is history: how many orders there were when the list was made |
| `view[a]`, `job[a]` | what a tab shows, and its POST in flight. `Render` is `GET /`; `Click` sends the number of an order shown, however old |
| `BeginApproval` ... `StoreDelivery` | `approve` under the lock: the pending check, `Submit` or `Refuse`, then `MarkSubmitted` and `StoreDelivery` (two steps, because unlocked readers see the object in between), or the two failure records |
| `RecordApproved`, `RecordSubmitted` | the two records after the lock |
| `Reject`, `RecordRejected` | `reject`, and its record after the lock |
| `placed` | what StoreLink accepted; order *k* is `SL-(7000+k)`. Its field `seen` is history: the order the approver looked at |
| `audit` | `audit.jsonl`; `Emit` may lose the record when `LossyDisk` |
| `Restart` | the process dies and starts again: the ledger is empty and numbers from 1001 |

An order is named by the run that raised it and its number, since numbers repeat.
StoreLink is taken to outlive the process, as the service behind the interface
does, although the stub keeps its orders in memory. The stub raises only before
it has accepted an order (no key, expired key), so `Refuse` has no effect on
`placed`; a transport error after acceptance cannot be raised by this code and
is not modelled. Argument checks that fail change nothing and are left out.

### StoreKeys

A load is three steps (`Stat`, `Read`, `Install`), since IT may write between
them. `LookupHit`/`LookupMiss` are `get_key` with `_maybe_reload`, `Refresh` is
`refresh`, `LoadFails` is the `ValueError`/`OSError` path that keeps the last good
keys, `Present`/`Retry`/`Expire` are `_store_call`. IT may `Overwrite` (with or
without a new stamp), `Garble`, `Remove` and `RotateKey` at any step. `ver`,
`fresh` and `had` are history variables that exist to state the properties.
`has_key` and `list_stores` are a lookup without a call. The static provider of
development mode is a file that never changes.

### EventLog

`Stamp` takes time and number before the lock; `Measure`, `Roll` and `Write` run
under it; `EmitFails` and `WriteTears` are the two ways the disk fails; `Kill` is
the death of the process at any step. `ReadFirst` and `ReadSecond` are `read`,
without the lock. `cap = 0` is the audit trail, any other the rotating stream.

A line has a number of characters (`Lengths`), which may be more than the cap, and takes
so many bytes more (`Extras`, non-ASCII text): `MustRoll` compares with the characters,
`Extend` adds the bytes, as the code does. A file is the sequence of what was written to
it, records and pieces, with its size and whether it exists: `open` creates it, even when
nothing reaches it, and there is nothing to measure before. `Whole` are the positions
that are a line of their own, `Parse` is `_read_file`: the records at these positions,
from left to right. A write that is cut short leaves a piece without a newline, so the
next record goes on the same line and both are lost to readers. A piece is `Split` when
the cut is inside a non-ASCII character: reading such a file raises
`UnicodeDecodeError`, which `_read_file` does not catch (`ReadRaises`).

`Follow` is what `tail --follow --stream audit` (or `diagnostic`) does with each list it
reads: it sorts by `(ts, seq)` and prints what lies past the number of records it has
seen. Abstractions: a reader sees a write whole or not at all; a torn piece is never a
record that lacks only its newline; the follower's first round prints all there is (`-n`
is larger).

### PositionCache

`note_position_seen` builtin by builtin, since no lock makes them one step: `Check`
is `len`, `Iterate` and `OldestKey` are `iter` and `next` (`IterationFails` is the
`RuntimeError` when the dict changed size between them), `Evict` is
`pop(key, None)` (`WithoutEntry`), `Insert` the assignment. A cached position is known by the
session that read it. `Evidence` is what
`record_proposed` quotes: it reads the cache in one step and changes nothing of it, so the
properties ask what it would quote in any state. `noted` and `last` are history: the gaps
whose reading some agent has been given, and the reading given last.

### ToolCalls

`StartCall` opens a scope and writes `tool_call_started`; `CallSucceeds`,
`CallFails` and `OuterCallFails` are one end of an upstream call each, in the order
the tool makes them (table `Upstream`); `BodyFails`, `BodyReturns` and `Propose` end
the tool body; `Finish` and `FinishRaised` write `tool_call`. `LogPlain` is any other
message. The approvals page has threads of its own, outside any scope: `Submit` and
`Reject` decide a pending order (`Submit` with the lines of its two StoreLink calls, the
write and the SKU lookup inside it), `Ignore` is a click on one that was decided before or
that a restart has forgotten, and `RecordDecision` writes what the decision leaves in both
streams. `Restart` ends connections and the requests being served, empties the ledger and
starts its numbers again, while both streams stay; a client that goes on after it is
another connection. A call is known by its outcome; `names` are the orders that a
record's arguments mention (an order asked for, or spoken of in the reason for another),
`answer` those its answer mentions, which is what `logquery` searches for: a record whose
handler raised has no answer. `get_inventory` and `get_pos_transactions`
look up the SKU through the instrumented client, so `get_stock_position` has six
upstream calls on record where `diagnostics.py:18` speaks of four. Clients are taken
to number their requests as JSON-RPC asks, each from 1 and none twice; `conn`,
`made`, `own` and `failed` are history. The diagnostic stream is what was emitted: what
a rotation or a failed append takes from it is in `EventLog`. The `server_started` line
and other notes that carry no outcome are left out.

### LogQuery

The commands are operators over the two streams as they are in any state of
`ToolCalls`, since `logquery` runs beside the server: `Entries` (`AuditLog.entries` for
one order), `OrderRequests` and `BelongsToOrder` (`trace --order`), `Matches` and
`Errors` (`errors` with its filters), `Sessions` and `Row` (`sessions`). They are checked
in the run `tool_calls`. `Mentions` is the search for the order number in the text of a
record: the number of an order is also found at the start of a longer one (`RO-1001` in
`RO-10010`), so an order is known by its digits (`First`, `Base`). The run counts from 1
in base 2, where this happens with the second order.

### StockPosition

`Average`, `Cover` and `Risk` are the three assignments of `get_stock_position` that do
arithmetic, in tenths so that the numbers are integers. `Round` allows either
neighbour of a tie, because what Python's `round` does with a tie depends on the binary
fraction nearest to the quotient; no other effect of floating point reaches a tenth at
these sizes. Each initial state is one answer of the upstream calls.

## 3. Runs

| Run | Instance | Shows |
|---|---|---|
| `ledger_safety` | 2 tools, 2 tabs, 2 orders of one gap, 1 refusal | the safety of the gate, the trail and the warning: `PlacedOnce`, `LedgerMatchesStoreLink`, `TrailIsFinal`, `TrailIsComplete`, `SubmittedShowsDelivery`, `WarningMissesOnlyNewer`, `TrailIsTrueWhenWritten`, `DecisionsStand` |
| `ledger_crash` | 2 runs of the process, 1 order each, lost records, 1 refusal | `LedgerInv` (the inductive invariant of the proofs), `TrailStaysTrue` and the refinement `ImplementsApproval` |
| `ledger_live` | 1 tool, 2 tabs, 1 order, 2 refusals, fairness | `Answered`, `PlacedReachesTrail` |
| `store_keys` | 2 calls, 1 store, 2 keys, 3 versions of the file | `StampTellsTruth`, `ExpiredIsHonest`, `MissingIsHonest`, `CacheNeverGoesBack`, `CallsEnd` |
| `log_streams` | 2 writers, 4 records of 3 or 7 characters and up to 1 byte more, 1 torn write, caps 0 and 6, 1 reader that also follows | `DiskIsRecent`, `DiskIsBounded`, `RollsOnlyFull`, `ReadIsOrdered`, `AuditReadIsComplete`, `TearCostsOne`, `FollowMissesOnlyLate` |
| `position_cache` | 2 threads, 2 agents, 4 gaps, 3 entries | `FreshestIsKept`, `StaysFull` |
| `tool_calls` | 2 messages, 2 served at once, 3 connections (1 named), 4 upstream calls kept per request, 1 decision on the page, 1 restart | `SessionsAreConnections`, `CallsArePaired`, `UpstreamIsOwn`, `SessionsAddUp`, `ErrorsAreFound`, `OrderReplayIsExact` |
| `stock_position` | stock of 0 to 80, 0 to 60 sold in the week, lead time of 0 to 8 days | `NullMeansNoSales`, `RiskIsClose` |

All but `ledger_live` and `stock_position` also check their module's `TypeOK`, or an
invariant that contains it. Deadlock is checked in every passing run but two: in
`tool_calls` clients may stop sending, and a computation of `stock_position` ends. Elsewhere every
state has a step, so a thread that waits for ever shows up in the liveness properties.

Why the bounds are enough. Two tabs are the least that race, for approve against
approve and approve against reject; a third adds a waiter for the same lock and
nothing else. Two orders of one gap are the least that interleave their records,
raise a duplicate and let a lock-holder block another order's decision; two tool calls
are the least that both list before either inserts. One
refusal is followed by a retry; the second one in `ledger_live` shows that a
retry may fail too. Two runs suffice for numbers that repeat. In `StoreKeys`
two calls are the least that contend for the provider; three versions of the file
allow one overwrite during a load and one after it; one store, because stores
share the file, the stamp and the lock but no key. In `EventLog`, four records
over a cap of 6 can roll the file twice, with a reader between its halves; lines of 3
characters fit twice, one byte more makes them pass the cap, and a line of 7 never fits.
In `PositionCache`
one gap more than the cache holds makes it evict, and two threads are the least that
race for one key; two agents tell a kept reading from a replaced one. In `ToolCalls` every property compares two records or two
requests, so two overlapping requests of every pair of tools and connections
suffice; with a cap of 4 a request of six calls meets the last free place, the note
and what follows it (the code's 50 would need a tool with 51 calls, which it does not
have). One restart makes a number come back; one decision is taken or refused, comes
before the restart or after it, and a click on an order the restart has forgotten is one. In `StockPosition` the bounds include the ties of both roundings and
lead times on either side of the cover; the theorems say the same for every number.

Runs that find a disagreement between the code and what it says of itself:

| Run | Property | What happens |
|---|---|---|
| `restart_reuses_id` | `SeenIsPlaced` | a tab rendered before a restart approves the order that now has its number |
| `cache_overshoot` | `CacheIsBounded` | two threads pick the same key to evict and both insert, which makes the cache one entry larger; only re-reading a cached gap makes it smaller again, so such races add up |
| `read_raises` | `ReadsAnswer` | after a write cut inside a non-ASCII character every read of the file raises: the audit page, its CSV, every `logquery` command |
| `follow_stalls` | `FollowShowsNewest` | after a rotation there are fewer records than `tail --follow` has seen, and new ones are not printed |

Other promises that the code does not keep have no run of their own. A passing run checks
how far each of them is kept:

- "Raising a duplicate is allowed but returns a warning naming the existing order"
  (`src/README.md:54`): two calls for one gap may list the open orders before either
  inserts, and then neither warns.
  `WarningMissesOnlyNewer`: a warning misses only what was inserted after its list was made.
- Submitted "includes expected_delivery" (`server.py:179`): a poll between two assignments of
  `approve` finds the order submitted and without one. `SubmittedShowsDelivery`: only
  while the lock is held, one step before the delivery is stored.
- The evidence is what the agent had read (`audit.py:13-14`, `audit.py:41`): the cache is keyed by
  gap alone, so it may be what another agent has read since; and noting a cached gap again,
  with the cache full, evicts another gap (`audit.py:50`). `FreshestIsKept`, `StaysFull`: a
  newer reading is never replaced by an older one, and what eviction may take.
- `read` returns "all records, oldest first" (`eventlog.py:151`): a rotation between its two reads hides the
  file that was current when it began. `ReadIsOrdered`, `AuditReadIsComplete`: what is read is in
  order, and of the audit trail, which does not rotate, nothing is missing.
- `trace --order` shows "one order across both streams" (`logquery.py:10`): after a restart `orders.py:53` gives a number out again
  while the logs still hold the old one, so it joins the requests of two orders; it
  also finds a number inside a longer one. `OrderReplayIsExact` says what it shows: the
  records in which the number occurs, and everything logged by the requests that proposed
  an order of this number, at most one in each run of the server.

Smaller races are in the model and are bounded, not forbidden. `create` records
the proposal after releasing the lock (its comment says why), so a quick approver's
records can come first: `TrailIsComplete` requires that the proposal comes, not
when. A torn line swallows the record appended to it: `TearCostsOne` allows that one.
A record written after one with a later stamp is late, and `tail --follow` may miss it:
`FollowMissesOnlyLate` allows that one and no other. A line longer than the cap makes a
file longer than the cap: `DiskIsBounded` allows that line alone in its file.

## 4. Fairness

Only what threads owe is assumed. `WF` of `ToolStep(t)` and `TabStep(a)`: a started
Python thread keeps running. Proposing, clicking, rendering and restarting are
free. Weak fairness alone does not hand a contended lock to a given waiter. It is
enough here because the ledger lock is held across steps only by an approval of
a pending order, and an instance has finitely many of those: `MaxOrders` that
succeed and `MaxRefusals` that are refused. So `ledger_live` shows that no path
keeps the lock and that every submission that is answered, either way, ends on
record; it does not show that Python's lock is fair to a waiter while approvals
are refused without end. In
`StoreKeys` a lookup is repeated for ever by other calls, so a waiter for the
provider's lock needs strong fairness: `threading.Lock` does not starve a
waiter for ever in practice, although the language promises no order. IT owes
nothing: it may rotate, garble and remove for ever, and `CallsEnd` still holds.

## 5. Proofs

Every safety property that a passing run checks is a theorem, for every value of the
constants that the assumptions allow. Each theorem follows from an inductive invariant,
which is proved action by action; TLC checked each invariant on small instances first.

### Assumptions

| Assumption | Says |
|---|---|
| `ConstantsAssumption` | `None` is no gap, tab, number or pair; the bounds are naturals. Tools, tabs and gaps may be infinitely many |
| `StockAssumption` | `NoCover` is no number; the bounds are naturals |
| `KeysAssumption` | `None` is no key, call, number or result; the bound is positive |
| `CacheAssumption` | `None` is no gap or session; finitely many threads, no more than the cache has entries (200 entries; the SDK's worker pool has 40 threads by default) |
| `CallsAssumption` | `None` and connections are no numbers; finitely many requests are served at once; the bounds are naturals |
| `NumbersAssumption` | the first order has a positive number, digits have a base of 2 at least, the bound on digits is a natural |
| `LogAssumption` | `None` is no writer; a torn piece is no record; a line has more than two characters; some lines are ASCII; caps and bounds are naturals |

One theorem has a hypothesis of its own: `TrailTellsAll` assumes a disk that works (`LossyDisk =
FALSE`), since `emit` swallows `OSError` and a failing disk may lose a record. What holds
whatever the disk loses is `LossyTrailStaysTrue`.

### The ledger

`LedgerInv` is the inductive invariant. `PlacedOnce` and
`LedgerMatchesStoreLink` are not inductive: from a state in which two tabs are
both past the pending check, one step places an order twice. What rules it out is
`OwnerHoldsLock` (a tab is between the check and the end of its decision exactly
when it holds the lock) with `OwnerKnowsOrder` (its order is pending and not at
StoreLink until `Submit`, and at StoreLink under `job[a].sl` after it), and,
for what happens after the lock, `DecisionKnown` (a tab that still has records to
write writes of an order the ledger shows as decided so). `SentIsKnown` (what StoreLink
holds is in this run's ledger or of an earlier run) makes the name of the next order new,
and `ClickNamesOrder` and `CallKnowsOrder` type what a request carries. The step is proved
action by action: `TypeStep`, `KnownStep` for types and `DecisionKnown`, `CreateStep` ...
`RestartStep` for the rest. `DeliveryIsShown` adds that a submitted order without a
delivery is the one its lock-holder is about to store (`DeliveryStep`).

`TrailInv` adds what holds after the lock is released. `TrailIsFinal` alone is not
inductive: a second request still at work on the order could write after the final record.
`OneDecider` (no two requests decide one order, also when neither holds the lock),
`FinalsAreOver` (with the final record nobody is at work on the order and it is not
pending, so nobody can be again) and `RecordsAreKnown` (records are of this run's orders
or of an earlier run's, so the name of a new order has none) rule it out.
`OneProposer` and `DecisionIsOwn` say the same of the proposal and of `decided_by`.

`Stories` is behind `TrailIsComplete`: in every state, not only when nobody is busy, the
records of an order add up (`AddsUp`) once the records that the request at work on it
still owes are counted. `Work` is how far that request has come; by `OneDecider` there is
at most one. `StoryStays`, `StoryMoves` and `StoryTold` say what a step does to one
order's sums: nothing, work without a record, work with one; each action is one of these
for its order and the first for all others. `Count` is a cardinality, so `PlacesAppend`
counts what an appended record adds.

`LossyTrailStaysTrue` is proved from `LedgerInv` and `TrailInv`: a record is true when it is written, and
what makes it true (StoreLink's orders, a decision of this run's ledger) does not change.

`WarningsMissOnlyNewer` rests on `ListsOpen` (a call about to insert has listed every order
open now that was there when it made its list) and on the fact that no order is opened
again (`OpenShrinks`).

### The other components

`KeysInv` (`StoreKeysProofs`): `LoaderHoldsLock` (whoever is between `stat` and the
installation holds the provider's lock), `CopiesKnown` (the cache, and what a load is about
to install, are copies of the file: stamped no later than they were read, equal to the
file if it has not changed since), `PhaseKnown` (the two attempts of a call) and
`FreshKnown`: as long as the file has held the accepted key since a call was first
rejected, so does what it reads, then the cache, and then the key it presents again.
`ExpiredIsHonest` is the end of that chain.

`CacheInv` (`PositionCacheProofs`): nothing was ever evicted (`NothingLost`), or an entry is
missing only for a thread that has evicted one (`LossIsBounded`, an inequality between the
free places and the threads that are evicting). `LastIsCached` beside them gives
`FreshestIsKept`. `EvictionsFindEntry` follows: `next(iter(...))` never meets an empty dict.

`ToolCallsInv` (`ToolCallsProofs`): `SessionsApart` (no two connections are minted one
session id) and `IdsAreOwn` (each record and request carries the ids of its connection)
make `(session_id, request_id)` a key; over it, `Pairs` (each call started is being served
or has ended, once), `FailsLogged` and `CallsAddUp` (line counts against the request's
history, but for the calls a restart ended), `TracesAreOwn` and `RunsApart` (the audit
trail names the request that proposed the order; a run proposes each number once, and the
connections of earlier runs are closed). The properties of `logquery` are consequences
in every state. They are about operators over whole streams, so lemmas say what
appending a record adds to each of them.

`LogInv` (`EventLogProofs`): `LockInv` (only the lock's owner rolls or writes, so the size
it measured is still true and the line it appends fits or is alone in its file), `DiskInv` (the files hold the end of what was written; every
piece is a write that was cut short), `ReadInv` (what a reader has after the first file
was written before everything the current file keeps) and `FollowInv` (what
`tail --follow` has seen is the beginning of what can be read, and it has printed as
many, all but the late ones). `By`, `Pick` and `Parse` order positions by counting, not by
recursion, so that lemmas can say what they return; `Sorted` returns a sorted
permutation, and the sequence itself when it is in order.

`StockInv` (`StockPositionProofs`): what each variable is bounded by once it is computed,
from the definition of `Round` (`2 * r - 1` and `2 * r + 1` around twice the quotient). The
two inequalities multiply to the bound of `RiskIsClose`; products of two variables are
beyond the SMT solver unless they are named, so lemmas state each multiplication.

### Theorems

| Module | Theorem | Says |
|---|---|---|
| `OrderLedgerProofs` | `LedgerInvariant` | `Spec => []LedgerInv` |
| | `TypeCorrect` | `Spec => []TypeOK` |
| | `NoDoublePlacement` | `Spec => []PlacedOnce` |
| | `LedgerAgrees` | `Spec => []LedgerMatchesStoreLink` |
| `OrderApprovalProofs` | `GateImplementsApproval` | `Spec => ImplementsApproval` |
| `OrderTrailProofs` | `TrailIsTrue` | `Spec => TrailIsTrueWhenWritten` |
| | `DecisionsAreFinal` | `Spec => DecisionsStand` |
| | `DeliveryIsShown` | `Spec => []SubmittedShowsDelivery` |
| | `TrailStaysFinal` | `Spec => []TrailIsFinal` |
| | `LossyTrailStaysTrue` | `Spec => []TrailStaysTrue` |
| | `TrailTellsAll` | `Spec => []TrailIsComplete`, if `LossyDisk = FALSE` |
| | `WarningsMissOnlyNewer` | `Spec => WarningMissesOnlyNewer` |
| `StoreKeysProofs` | `KeysInvariant` | `Spec => []KeysInv` |
| | `KeysTypeCorrect` | `Spec => []TypeOK` |
| | `StampsTellTruth` | `Spec => []StampTellsTruth` |
| | `ExpiriesAreHonest` | `Spec => []ExpiredIsHonest` |
| | `MissingsAreHonest` | `Spec => []MissingIsHonest` |
| | `CacheMovesForward` | `Spec => CacheNeverGoesBack` |
| `PositionCacheProofs` | `CacheInvariant` | `Spec => []CacheInv` |
| | `CacheTypeCorrect` | `Spec => []TypeOK` |
| | `FreshestKept` | `Spec => []FreshestIsKept` |
| | `CacheStaysFull` | `Spec => []StaysFull` |
| | `EvictionsFindEntry` | `Spec => []EvictionFindsEntry` |
| `ToolCallsProofs` | `ToolCallsInvariant` | `Spec => []ToolCallsInv` |
| | `StreamTypeCorrect` | `Spec => []TypeOK` |
| | `SessionsTellConnections` | `Spec => []SessionsAreConnections` |
| | `CallsPaired` | `Spec => []CallsArePaired` |
| | `UpstreamOwn` | `Spec => []UpstreamIsOwn` |
| | `ErrorsFound` | `Spec => []ErrorsAreFound` |
| | `SessionRowsAddUp` | `Spec => []SessionsAddUp` |
| | `OrderReplayExact` | `Spec => []OrderReplayIsExact` |
| `EventLogProofs` | `LogInvariant` | `Spec => []LogInv` |
| | `LogTypeCorrect` | `Spec => []TypeOK` |
| | `RollsAreForFull` | `Spec => RollsOnlyFull` |
| | `DiskBounded` | `Spec => []DiskIsBounded` |
| | `DiskRecent` | `Spec => []DiskIsRecent` |
| | `ReadsOrdered` | `Spec => []ReadIsOrdered` |
| | `AuditReadsComplete` | `Spec => []AuditReadIsComplete` |
| | `TearsCostOne` | `Spec => []TearCostsOne` |
| | `FollowMissesLate` | `Spec => []FollowMissesOnlyLate` |
| `StockPositionProofs` | `NullExactly` | `Spec => []NullMeansNoSales` |
| | `RiskErrsLittle` | `Spec => []RiskIsClose` |

Only model-checked: liveness (`Answered`, `PlacedReachesTrail`, `CallsEnd`), since temporal
proofs under fairness and `ENABLED` are beyond the prover; and the runs that find a
violation.

## 6. Not modelled

- The iteration of `open_for` and `pending` over a dict another thread inserts into.
  It may raise `RuntimeError`; the tool call or the page then fails before it has
  changed anything (`BodyFails` in `ToolCalls`), so `OrderLedger` lists in one step.
- The page's name cookie. `/whoami` stores a name with the client and the page reads
  it back; a name that the cookie parser does not read back (spaces, non-ASCII
  letters) is lost, and the decision is recorded as "unnamed (approvals page)". In `OrderLedger` a tab is
  its approver.
- The merge of both streams in `tail --follow` (`logquery.py:51-58`, the default `--stream
  both`): two files read one after the other and sorted by time, of which records are
  counted as in one. A diagnostic record that an audit record overtakes between the two
  reads is not printed. `Follow` is one stream.
- `logquery`: `--since`, `--grep`, `--limit`, the `audit` command and all formatting. A
  JSON-RPC request id of 0 is recorded as "-"; the model's ids start at 1.
- Demo data of the stub, HTML, CSV, redaction and JSON coercion, the audit page's
  filters, configuration in `main.py`: rendering or input and output without shared
  state.

## 7. Plan

1. *Done:* all modules of section 2; the safety properties of every passing run are proved.
2. *Next:* a model of `tail --stream both`, with two files and their common clock; a bound
   on what `tail --follow` misses of a stream that rotates, and on how long a reader that
   began before a rotation may stay behind.
