# A specification of the Liquidity Guard Bot

TLA+ modules for the concurrent and failing parts of liquidity-guard-bot, the
TLC configurations that check them on small instances, and TLAPS proofs of their
safety for instances of any size. Line numbers are those of the
repository at the commit this directory belongs to.

The repository is a scaffold: its components are written and mostly not yet
wired together (`cmd/bot/main.go` connects to MongoDB and exits; the API calls
an `UpdateConfig` of the orchestrator that does not exist). The modules
therefore describe each component and the calls it makes. What would drive it
(the bot goroutine, the gRPC clients, the exchange, MongoDB) is modelled from how the
code uses it and marked *external* in `PROJECT.json`.

## 1. Inventory

| component | state | operations | interacts with |
|---|---|---|---|
| Bot Registry, `internal/orchestrator` | a map bot id → worker over 16 shards with an RWMutex each | StartBot, PauseBot, ResumeBot, StopBot, StopAll; ActiveBotIDs, BotState, Adapter read | called by the API's goroutines; calls the adapter factory under a shard's lock |
| Worker, `internal/worker` | NORMAL / SLOW / PAUSE under a lock | Transition, CanPlaceOrders | held by the registry, driven by the bot goroutine (not in the repository) |
| Order manager, `internal/engine/manager.go` | `openOrders`, by exchange order id | Reconcile, CancelAll | one goroutine; calls an exchange adapter order by order |
| Exchange adapters, `pkg/exchange/*` | none (mock: a map of orders) | PlaceLimitOrder, CancelOrder, OrderBook, Balances | the venues, over HTTP |
| Telemetry hub, `internal/telemetry` | inbound channel (256), subscribers with a channel (64) each | dispatch goroutine, Subscribe, unsubscribe | producers, StreamTelemetry handlers |
| Management API, `internal/api` | none of its own | CreateBot, PauseBot, ResumeBot, DeleteBot, UpdateConfig, StreamTelemetry | registry, hub, MongoDB: BotConfigs, ActiveSessions, AuditLogs |
| Risk watchdog, `cmd/watchdog` | none that survives a cycle | one poll cycle every 10 s | MongoDB only: reads sessions and configs, writes `risk_state` |
| Report scheduler, `internal/report` | none but a ticker | Schedule: a look at the clock every minute; runAll, Generate | MongoDB: reads TradeHistory, writes Reports |
| Spread calculation, `internal/engine/spread.go` | none | Prices, EffectiveSpread | its caller is missing |
| Repositories, `internal/repository` | none | Insert, Update, Upsert, SetState, Delete, Find...; Append of trades and audits, DrawdownSince | MongoDB, one call each; nothing uses them yet |
| Metrics, WebSocket utilities, MongoDB client, errors, bot binary, worker helpers | small or none | see section 5 | unused, or input and output |

What is hard here, and what would make each component correct:

* **Registry.** Check-then-act in StartBot over a call of foreign code; PauseBot
  and ResumeBot use an entry after they let go of the lock it was found under;
  StopAll and ActiveBotIDs take the shards one after the other. Correct: no worker is ever
  lost from the map or in it twice, a pause holds until someone resumes *that*
  worker, the sweeps miss nothing that was there, every call returns, and all
  of it together looks like a simple per-bot lifecycle.
* **Order manager.** The book changes between two calls (fills), replies get lost,
  some cancellations fail, a plan is abandoned half way. Correct: no order the
  exchange acknowledged is forgotten while it is live, a layer and side is never
  quoted twice, success means what it says, and the manager quotes again once the exchange
  serves it.
* **Hub.** The dispatcher sends to a copy of the subscribers without the lock.
  Correct: order, no silent loss, no subscriber holds up another, no crash.
* **API.** A handler is a sequence of calls to two stores with no transaction:
  other handlers, errors and restarts fall in between. Correct: a bot has its
  config, a deleted bot is not watched and leaves nothing behind, the answers and the
  audit log say what was done, updates do not undo each other.
* **Watchdog.** Works on batches of documents that go stale, beside writers it
  does not know of, with failing calls and restarts. Correct: a verdict is at
  most a cycle old, failures stay with their bot, risk states settle.
* **Report scheduler.** It goes by the clock and remembers nothing: ticks come
  late or are dropped while it works, calls fail, the process restarts within the
  fire minute, fills are recorded while reports are made. Correct: no report
  twice, none missed by a process that keeps up, windows that neither overlap
  nor leave a gap, whatever the lengths of months.
* **Repositories.** An upsert that finds nothing inserts in a second step, no index
  keeps a second document out, and replies get lost. Correct: one document a bot, and a
  read gives what was last written.
* **Spread calculation.** Rounding. Correct: bid and ask on either side of the
  mid price, and the spread that was asked for.

`PROJECT.json` lists each hazard at its line with the properties that cover it,
and the hazards nothing covers with the reason.

## 2. Modules

| module | what it is |
|---|---|
| `WorkerFSM` | worker states, table of edges, Transition, CanPlaceOrders (pure operators) |
| `BotLifecycle` | abstract specification of the registry: a bot is absent or in a worker state |
| `Orchestrator` | the registry, one action per critical section; implements `BotLifecycle` |
| `ExchangeAdapters` | how each adapter reads a reply (HTTP status, kind of body), and what replies a venue may give |
| `QuoteRounds` | abstract specification of the order manager: quotes come in rounds, one begins when the last is gone |
| `OrderManager` | Reconcile and CancelAll, call by call, over any of the adapters; implements `QuoteRounds` |
| `TelemetryFeed` | abstract specification of the hub: one log, and a place in it and a queue for each stream |
| `TelemetryHub` | hub and streams, one action where another goroutine can come in between; implements `TelemetryFeed` |
| `BotRecords` | abstract specification of the API: the config, worker and session of each bot, without calls in progress |
| `ControlPlane` | the unary RPCs, the documents they write, restarts of the server; implements `BotRecords` |
| `RiskWatchdog` | the poll cycle and computeRiskState |
| `ReportLedger` | abstract specification of the Reports collection: a ledger of closed windows, each entered at most once |
| `Reports` | the report scheduler, its ticker, and the wall clock with a calendar; implements `ReportLedger` |
| `Repositories` | the config and session repositories, as calls of MongoDB |
| `SpreadCalc` | Prices and EffectiveSpread on whole numbers (pure operators) |
| `...Proofs` | the theorems about `Orchestrator`, `OrderManager`, `TelemetryHub`, `ControlPlane`, `RiskWatchdog`, `Reports`, `Repositories` and `SpreadCalc` |
| `MC*` | instances for TLC |

`ControlPlane` sits on top of the registry: a registry call is one step of it.
`Orchestrator` justifies that for calls that change the map, because it implements
`BotLifecycle`, in which each of them is one step. The sessions and configs of
`ControlPlane` and `RiskWatchdog` are the same documents; each module has the
other's writes as environment actions (`MarkStopped` and `SetLimit` in the watchdog
are DeleteBot's and UpdateConfig's single writes; their whole handlers are in
`ControlPlane`).

Definitions named `Wrong...` are no part of any specification. Each is the
definition that follows it with one plausible slip, and `PROJECT.json` pairs it
with the property that has to notice it.

### How state and actions correspond to the code

**Orchestrator.** `registry` is the union of the shards' maps, `bucket` the FNV
hash, `state` the field of each worker, `holder` the write lock while StartBot
is inside the adapter factory (the only time a lock is held over more than one
step). `pc`, `bot`, `handle`, `at` and `ids` are the locals of a call. `StartLock` is
StartBot up to the factory, `StartReturn` the rest on both paths; `GetEntry` and
`MoveWorker` are the two halves of PauseBot and ResumeBot; `SweepShard` and
`ListShard` are the loop bodies of StopAll and ActiveBotIDs. `always` and `ever`
are histories. A worker is allocated at most once; the set of workers bounds
how many starts succeed.

**OrderManager.** `book` is the exchange's truth, `openOrders` the manager's.
`CancelOrder(id, done, r)` and `PlaceOrder(o, done, r)` are one call each:
`done` is what the exchange did, `r` the reply, chosen among those that may follow;
the manager goes by `r` as its adapter reads it. `acked` and `missed` are
histories of an order: the exchange gave its id in a reply, and CancelOrder
returned nil without cancelling it. Prices and sizes are left out: the code
never compares them. `Return` clears the locals of the method. `SpreadCalc`, which
prices would come from, is beside it: the caller that would pass them on is not in the repository.
In `QuoteRounds` there are no replies, no errors and no `openOrders`. Its `quotes` are
the acknowledged orders that were not given up, with the slot of each, its `astray` those
that CancelOrder returned nil for and that are live all the same, `offered` is the number of
slots Reconcile has been through, and `trusted` says that the adapter reads the status
(`StatusRead`): only an untrusted venue's quotes go astray. A cancellation or a fill of a quote is a
`Withdraw`; unacknowledged orders and refused calls are stutters.

**TelemetryHub.** An event is its number and its bot; `pending` is what is left of
the dispatcher's copy. `Copy`, `Offer`, `Delete`, `Drain` and `Close` are the places
where the dispatcher and unsubscribe can interleave. `Take` sends nothing to the
client: telemetryToProto always returns an error, and the loop goes on.
`TelemetryFeed` has none of this. In it a stream that is there passes the log
event by event, and `Passed(s)` says where in the log a stream of the hub is:
before the event that is being dispatched, as long as it is in `pending`, and
after it otherwise. Deleting the subscription is what leaves the feed; the drain and
the close that follow it, and a send to a stream that has left, are stutters.

**ControlPlane.** `pc[c]` is the next call the handler makes. A call to MongoDB
that fails may or may not have changed the document. `restarts` bounds `Restart`, which empties the
registry and loses the calls in progress. `running[b]` is the config the worker was
started with. The worker's state, which decides whether a pause is accepted, is
left open. The goroutine of a bot and its orders are external: `goroutines` are the bots of which one was
started, and as no stop reaches it, only a restart of the server takes a bot out. It writes its session
(`Heartbeat`) and places orders (`Trade`) whether or not the bot is still registered; `Fill` is the
exchange's. Orders placed after the bot was deleted are not counted, as no DeleteBot could cancel them. `past` is a history: the calls from before the last restart. `DeleteMark` is where DeleteBot is done
with what it does: its answer that the orders were cancelled repeats the request
(`cancelOpenOrders`), and `orders` stays as it is.
`BotRecords` has no handlers: a config is persisted and then replaced, and never taken from under a worker; a worker
starts only for a bot that has a config; a session says RUNNING only if a goroutine of the bot was started since the last
crash; and `owed` are the bots whose session has a mark to come. In the API these are the bots that a DeleteBot
is still to mark and those it never will (`unmarked`: the update failed, the server died, or the
goroutine wrote after it). Its `Remove` allows what the tests want of DeleteBot, and the API makes
no use of it. Reads, audit entries, orders and refused calls are stutters.

**RiskWatchdog.** `rest` and `batch` are the cursor: what it has not reached and
what it has fetched. `Decode`, `ReadConfig` and `Write` are the loop's body, each
with its failure; `Abort` is a failing cursor, a cancelled context, or a kill and
restart. `seen[b]` is a history of the values b's documents had since this
cycle's Find, and `failed` of the bots whose own calls failed. Percentages are whole numbers;
instead of halving the limit the model doubles the drawdown.

**Reports.** Time is a number of instants, and the calendar is a parameter:
instants in a minute and a day, days in a week, the days that are Mondays and firsts.
`nextTick` and `channel` are the ticker: `Tick` sends unless the channel is full
and sets the next tick a minute after this one *was due*, as time.Ticker does; `Pass`
lets a tick be late by up to `MaxLate`. `Receive` is the select of Schedule with its three
conditions, which put the daily, weekly and monthly jobs on `jobs` in this order. `Generate` and
`Insert` are the loop body of runAll; either may fail, and the code ignores both
errors. A report is the set of fills it counts. `filled` and `recorded` say when a fill
happened (its timestamp, by which Generate filters) and when it came into the
collection. `owed` is a history of what came due while the process was ready.
`skewed` is one too: a process whose ticks fall into the last `MaxLate` instants of a
minute can have two of them in one minute, and is excluded where that matters.
`ReportLedger` has neither process nor ticker nor list: `today` is the day of `now`, `draft` the report
made and not yet inserted, `ledger` the collection, `exempt` is `skewed`. `Generate` draws up, `Insert`
enters or drops (as does a kill of the process in between), and ticks, starts and stops are stutters.

**Repositories.** `docs[k]` is the *set* of documents with one bot id. Each method
is one step, except an Upsert that matches nothing: `UpsertNoMatch` and
`UpsertInsert` are the two halves of what MongoDB does then without a unique index.
`UpsertMatch`, `Update`, `SetState` and `Delete` act on any one of the documents that match.
`last` is a history of what was written, `twice` of the bots for which a second
document was asked for: an Insert over a document, or two upserts under way.

**SpreadCalc.** A decimal is a whole number of units of its last digit;
`DivRound` is the rounding of decimal.Div. The mean of bid and ask is such a quotient
too, so it is a multiple of `Digit`, the unit of price that is the 16th digit, and may be rounded to zero.

**ExchangeAdapters.** A reply is a status and a kind of body. Beside what the venue itself answers, `Replies` has the
page of a gateway before it, in HTML or in JSON without the fields the adapter looks for, which bybit's
PlaceLimitOrder takes for a placement with an empty id.

## 3. Runs

| run | instance | shows |
|---|---|---|
| `orchestrator` | 3 bots on 2 shards (two share one), 2 workers, 2 calls at a time | types, `NoOverwrite`, `PauseHoldsUntilResume`, `StopAllSweeps`, `ListingIsWeakSnapshot`, `ImplementsLifecycle` (refinement), and `EveryCallReturns` (liveness) |
| `order_manager` | all five adapters, 1 layer, 4 order ids | `NoOrderIsLost`, `PlacesWholePlan`, `CancelAllCancelsIfStatusRead` (what the comment of CancelAll says, for the adapters that read the status), `ImplementsRounds` (refinement), `FilledOrderWedges` (with a venue that insists, a manager that tracks a gone order does so for good), and `QuotesAgainIfIdempotent` (liveness): with the mock, whose cancel is idempotent, the manager quotes again and again; before it starts, the ASSUME `SpreadReference` compares `SpreadCalc` with what a spread is |
| `order_manager_wedge` | mexc adapter, 3 ids | `QuotesAgain` **violated**: a filled order cannot be cancelled, stays tracked, and makes every later Reconcile fail |
| `order_manager_cancel` | bybit adapter, 3 ids | `CancelAllCancels` **violated**: CancelAll returns nil with a tracked order live |
| `telemetry_hub` | 2 streams (one filters), inbound 2, subscriber 1, 3 events | `DeliveryInOrder`, `NoSilentLoss`, `ImplementsFeed` (refinement), `EventsAreDispatched` (liveness) |
| `telemetry_hub_panic` | inbound 1, 2 events | `NeverPanics` **violated**: send on a closed channel |
| `risk_watchdog` | 2 bots, batches of up to 2, 3 drawdowns × 3 limits, 2 changes, 1 fault | `VerdictIsOfThisCycle`, `CycleSettles`, `RightVerdictStays` (a right risk state is not undone), `RiskStateSettles` (liveness) |
| `control_plane` | 1 bot, 3 RPCs, 2 values a field, 1 restart | `ConfigBeforeWorker`, `AnswersAddUp` (successful creates and deletes account for the bots that run), `ImplementsRecords` (refinement: a session says RUNNING without a worker only if its mark is to come or was lost, or the goroutine wrote after it), and how far the next two violations can go: `DivergesByRequestOnly`, `PushesWhatIsPersisted`, `FieldsLostToUpdatesOnly` |
| `control_plane_lost_update` | the same | `OmittedFieldsStay` **violated**: the lost update of UpdateConfig |
| `control_plane_delete` | the same | `DeletedBotIsGone` **violated**: a bot created, deleted with its orders and created again, all answered OK, finds its old config, which the upsert keeps, and its old orders |
| `reports` | 2 bots, 1 fill, minutes of 3 instants, days of 2 minutes, weeks of 2 days, months of 2 days and of 1, ticks up to 1 instant late, 2 starts, 1 fault | `CountedOnce`, `NothingFallsBetween`, `LongPeriodsCoverDays`, `DueIsServed`, `ImplementsLedger` (refinement) |
| `repositories` | 1 config and 1 session, 2 callers, 3 object ids, 2 values a field | `SingleDocument`, `ReadsLastWrite` |

Every passing run checks a `TypeOK` as well. `LockProtectsCheck` and `NoSharedWorker` of the registry,
`OneQuotePerSlot` and `CancelAllIsComplete` of the order manager, `SessionFollowsDelete` of the API and
`NoDuplicateReport` of the reports have no run of their own: the first two are steps of the proofs of `NoOverwrite` and
`ImplementsLifecycle`, and the others follow from `ImplementsRounds`, `ImplementsRecords` and `ImplementsLedger`. All
six are proved. The violated properties state what a
comment, a proto file or a test says, quoted in the `findings` of `PROJECT.json`, and the counterexample is a run of the code.

### Bounds, and why they are enough

* Two callers and three bots: each race of the registry is between two calls on
  one shard, or a sweep and a call; the third bot is on the other shard. Two
  workers allow a bot to be stopped and started again while another call holds its old
  worker, and two bots to be registered at a time; a sweep that meets both is
  in. The proofs remove all these bounds.
* One layer is a plan of two orders, which can fail in the middle; four order ids
  are that plan and the plan before it, still live. An id may be reused once nobody knows
  it, so runs of any length are covered. The proofs are for any number of both.
* A subscriber's channel of one is full after one event; three events allow
  delivered, dropped, delivered.
* Three RPCs: every race found is between two, and a third sets it up
  (a bot must exist to be updated). One bot suffices, as handlers
  for different bots share no document: that no step but a crash touches two bots is part of
  `BotRecords`, which is proved to be implemented for any number of them.
* Two changes to the documents are what it takes for the drawdown and the limit
  a verdict is based on never to have held together. `MaxFaults` and
  `MaxChanges` also give `RiskStateSettles` ("once they have come to rest") its premise.
  The limits are none, one below the 3 percent floor of SLOW, and one above.
* The clock of `reports` runs from the last instant of a Monday, over a first of a
  month, to a day that is a Monday and a first and ends a month one day
  long, and past it: every window length, each pair of
  periods, and all three at once. Two starts allow a restart within the fire minute. Two bots make
  a list of jobs that a stop or a failure can cut; the windows and the delay of one
  fill show every overlap or gap, as fills do not affect each other.
* Three object ids: one document, a second, and a third that must not be given
  an id in use. Upserts race in pairs.
* Deadlock checking is off in the hub's runs, where the bounded number of events and a panic
  really end everything, in the API's, where every RPC has returned, in `reports`,
  where the clock stops, and in `repositories`, where no id may be left. It is on in all others.
* Symmetry is used in the safety runs of `ControlPlane` and `Repositories` only,
  over sets nothing distinguishes; every property they check, the action property of the updates included, is
symmetric in these sets.

### Disagreements without a run

* `internal/models/models.go:147` says of AuditLog that it "records every external management action received
  via the gRPC API", and line 156 of its result that it is "OK" or an error message. Every handler returns its error
  before it comes to writeAudit (grpc_server.go:80, 84, 100, 108, 116, 133, 156, 160), so a refused action has no entry and no
  entry holds an error message; of the accepted ones an entry is missing where the insert fails, as its error is ignored (208).
  In `ControlPlane` only `WriteAudit`, the last step of a call that is accepted, adds to `audit`, and it may add nothing.
* `DeletedBotIsGone` is weaker than what it quotes, so that one counterexample refutes all of it: the tests ask for the config
  to be gone, the proto file says that the orders were cancelled, the comment of CreateBot that the config is persisted.

### Fairness

* Registry (`orchestrator`): strong fairness for each call in progress. Go's RWMutex starves no
  waiter (a waiting writer blocks new readers), and the factory only constructs
  an adapter. Nobody is obliged to call.
* Order manager: weak fairness of the method in progress (the HTTP clients
  time out, so calls end) and strong fairness of starting Reconcile, which is
  the worker's cycle. `QuotesAgain` assumes in its premise, not in the
  specification, that the exchange serves from some time on. Fills are not fair, nor is CancelAll.
* Hub: weak fairness of the dispatcher's goroutine alone. Clients may stop reading.
* Watchdog: weak fairness of the cycle (ticker and calls with an end).
* Reports: none. That ticks come is part of `Pass`, which does not let time go
  by a tick that is as late as it may be, so `DueIsServed` is a safety property with a deadline.

## 4. Proofs

For each module the theorems hold for every value of its constants that its
assumption allows: any number of bots, workers, callers, shards, streams, events,
layers and order ids, any capacities, any calendar. The numbers that bound a run (`MaxEvents`,
`MaxRestarts`, `MaxFaults`, ...) are such constants, so the theorems hold for every
bound. Each invariant is first checked by TLC; it is seldom inductive by itself,
and what follows is what had to be added.

**`OrchestratorProofs`** (from `ConstantsAssumption`: the "no such thing" constants are outside
of the sets they stand beside, and `bucket` maps bots to shards): `TypeCorrect`,
`LockCorrect`, `NoSharing`, `StopAllCorrect`, `ListingCorrect` (invariants),
`OverwriteFree`, `PauseHolds` (action properties), `Refinement`.
StopAll's promise mentions the workers registered since its call, so a start during the
sweep must be seen to bring a *new* worker: `OnlyAllocated` (workers in the map
or in a history were allocated before) with StartReturn's choice of an
unallocated one. That two bots never share a worker needs the same. That a
pause is lifted only by a call that looked that worker up needs `HandleIsOwn` (the
entry a PauseBot or ResumeBot holds is registered under its own bot or not at all): it is
preserved by a start because the new worker is in nobody's hands.
`LockProtectsCheck` carries StartBot's check over to its insertion, and
`OnlySweepsMove` says that a sweep starts at the first shard with nothing collected.
Their conjunction with the types is `IndInv`. For the refinement, `MoveRefines` and `NextRefines`
map each step to a `Register`, `Move`, `Remove` or stutter of the lifecycle:
a transition of a worker that is no longer registered is a stutter, and
one of a registered worker changes one bot only because workers are not shared.

**`OrderManagerProofs`** (from `OrderManagerAssumption`: the empty id is no order's, at least one
layer): `TypeCorrect`, `NoOrderLost`, `OneQuote`, `CancelAllComplete`, `WholePlan`, `CancelAllClears`
(invariants), `NoStepUnwedges`, `WedgedForGood`, `Refinement`.
Three lemmas say what the adapters make of a reply: an acknowledgement is
taken for one (`AckIsRead`), nothing is taken for placed that was not
(`PlacedIsDone`), and only bybit and kraken take for cancelled what was not
(`CancelledIsDone`). What is promised when a method returns is true for a
reason that builds up over its loop: `CancelsOn` (without an error so
far, every acknowledged order is still to be cancelled, or was wrongly
confirmed) and `PlacesOn` (the acknowledged orders are those of the slots before the next,
and the tracked ones are one to each of these). Both are kept by fills, which only
shrink the book (`Shrinks`). With the types and the control state they are `SInv`.
`Refinement` maps each step under `SInv`: that a round begins with no quote left is `CancelsOn`
where the loop over `openOrders` has come to its end, and that it ends with the plan quoted is `PlacesOn`.
`CancelAllClears` speaks of all tracked orders, acknowledged or not, so it has an invariant of its
own: where the adapter reads the status, a tracked order that cancelAll has been through is gone,
or cancelAll is to fail (`ClearsTracked`).
The finding of `order_manager_wedge` is proved for any plan and any book: `WedgeStep` shows
that no step of the exchange or of the manager gets a wedged order out of
`openOrders`, and `WedgedForGood` that with a venue that refuses to cancel what is gone,
a manager that is wedged while it is not placing never places again.
How long a call can take is proved too. `FewTracked`: the manager never tracks more than the orders of one plan,
however often Reconcile fails half way, because Reconcile places only when the map has been emptied.
So `StepsLeft`, a count of the cancellations and placements ahead, is at most `4 * MaxLayers + 2`
(`CallIsBounded`), and every step of the call, successful or not, makes it smaller (`CallAdvances`).

**`TelemetryHubProofs`** (from `HubAssumption`: filters are sets of bots, capacities are positive):
`TypeCorrect`, `InOrder`, `LossIsDropped`, `Refinement`. `Stages` relates the map and the
closed channels to where each stream's call is; `Numbering` says that the
inbound channel holds the events published last, the dispatcher the one before
them, and `copied` counts the rest; `NothingEarly` says that no stream has
seen the event being dispatched before its turn, from which the order follows.
`HubInv` is their conjunction with the two properties. The refinement adds
`NewIsFresh` (a stream that is new is in no copy and has an empty channel), without
which a subscription could start in the middle of an old one.
`NoPanicUnderLock` is about the finding of `telemetry_hub_panic`: in every behaviour in which no subscription is
deleted between the copy and the last send from it (`NoDeleteDuringSend`, what a lock held over the sends would give),
`NeverPanics` holds, because the copy stays within the subscribers, whose channels are open (`CopyIsSubscribed`).

**`ControlPlaneProofs`** (from `ControlPlaneAssumption`: the "omitted" and "none" values are
distinct from the others): `TypeCorrect`, `ConfigFirst`, `DeleteIsFollowed`, `AnswersAccount`,
`FieldsLost`, `PushesPersisted`, `DivergesByRequest`, `OmittedStayWithOneWriter`, `Refinement`.
The types need `HandlersKnow` (which handler is at which call, and with
what request). `ConfigFirst` needs `ConfigKept`: no document is ever removed, so the
config a CreateBot persisted is there when it registers the bot.
`AnswersAccount` needs `CallsAreNamed` (which RPC a handler belongs to, by the call it makes next, and that the calls from before the
restart have ended): then each step of a handler adds or removes at most
one successful call of the bot, along with its worker (`Balanced`).
`SessionFollowsDelete` is inductive with the types.
The last three say what overlapping handlers can do to a config, for any number of them. A write that changes
a field its request omits writes back what it has read; that this is always a matter of
two *requests* is not inductive, because the copy may be older than any number of writes. What is, is
`OneOriginal`: of all values of a field that are about (in the document, and in the copies of UpdateConfigs still to write it
back, `InUse`) at most one is not asked for by some UpdateConfig that has written (`Demand`). It needs `Handling`
(an UpdateConfig at its write holds the fields it was asked for, and a document to write to), and that only
a CreateBot that finds no document and an UpdateConfig change one (`DocumentStep`). `PushesPersisted` follows the document: once an update has written it,
no CreateBot's upsert does. `DivergesByRequest` needs `AsCreated`: as long as nobody
updates a bot, its document and its worker have a config that a CreateBot asked for.
`OmittedStayWithOneWriter` is about the finding of `control_plane_lost_update`: in every behaviour in which no two
UpdateConfigs of a bot are between their read and their write at once (`OneWriter`), omitted fields stay as they
are, for then the copy about to be written agrees with the document in them (`CopyIsCurrent`).
`Refinement` maps each step under `ConfigKept` (a worker is started only where there is a config) and
`Handling` (an update replaces a document that is there); `MarksStay` and `OneMarkLess` say what a step does to the bots whose session is to be marked, with
two DeleteBots of one bot or a restart in between.

**`RiskWatchdogProofs`** (from `WatchdogAssumption`: finitely many bots, percentages are
numbers): `TypeCorrect`, `VerdictFresh`, `CycleSettlesAll`, `RightVerdictKept`, and about
computeRiskState `VerdictMonotone`, `VerdictAntitone` (harder with the drawdown, milder
with the limit) and `SlowBand` (a bot can be SLOW just if the limit is
above the floor of 3 percent). `WInv` says that what the watchdog holds of a bot was true since
this cycle's Find (`HeldIsSeen`), and that a quiet bot whose calls
succeeded is where it must be on its way to the right risk state (`Settling`). `RightVerdictKept` is the safety half
of `RiskStateSettles`: only a `Write` changes a risk state (`RiskStep`), and by `HeldIsSeen` what it writes to a quiet bot is due.
Within a cycle every step of the watchdog makes `Left` smaller, the steps for the documents it has not reached
or not dealt with (`CycleAdvances`), and that is never more than four for each bot and one (`CycleIsBounded`), so one
cycle makes at most so many calls whatever fails and however the cursor cuts its batches.

**`ReportsProofs`** (from `ReportsAssumption`: a day is a whole number of minutes and has a fire
minute, a tick is late by less than a minute; and from `CalendarAssumption`: Mondays are at least a week apart
and go back without end, there is a first before each first): `ReportsTypeCorrect`,
`FillsCountedOnce`, `NoFillFallsBetween`, `NoReportTwice`, `LongReportsCover`, `DueReportsServed`, `LedgerRefinement`.
`Honest` says that a report counts fills of
its bot and window only, and all that were recorded before the window closed; it
is stable because timestamps do not change and the clock does not go back, and
it holds of a new report because jobs on the list have windows that are past
(`PastJob`). The rest about the windows is about the calendar: two windows of one period that end on
different due days are apart (`WindowsApart`), and the first due day after a fill has it in its window.
The other three rest on the ticker. In a process whose ticks, late as they may be, stay in the minute they
are due in, each tick has a minute of its own, and everything that has begun was asked for in
an earlier one, by this process or by one before (`TickerInv`). A day has one fire minute
(`FireMinutes`), so the jobs of a tick are of a later day than all that has begun: they are new (`OnceInv`).
Within a tick the daily jobs come first (`JobsDailyFirst`), so a longer report is
made after the daily ones it covers, which have counted nothing it does not (`CoverInv`). And when a
fire minute begins, the next tick is due in it (`TickIsDue`): from then on a report
owed is awaited, or its tick is in the channel, or it is on the list (`OwedInv`).
The refinement of `ReportLedger` uses `OnceInv` and adds `LaterInv`: the jobs on the list are all of one day,
and no report made is of a later one, so the collection grows day by day.
`PunctualIsNeverSkewed` says what the exemption of skewed processes is worth: if no tick is late (`MaxLate = 0`)
there are none.

**`RepositoriesProofs`** (from `RepositoriesAssumption`): `RepositoriesTypeCorrect`,
`SingleDocumentCorrect`, `ReadsLastWriteCorrect`, by `UpsertsAlone`: but for the bots in `twice`, an
upsert about to insert is the only one of its bot, and the bot has no document.

**`SpreadCalcProofs`** (from `SpreadAssumption`: 0 < lower bound <= upper bound < 1):
`PricesBracketMid`, `SpreadOfPrices` (the spread of the prices is the one
asked for, or one unit of the 16th digit more if its last digit is odd; for mid prices of at most 16
decimals, `One = k * Digit`, for which the mean is exact) and `SpreadWithinBounds`
(so the upper bound holds if its last digit is even, as that of DefaultSpreadBounds is).

Only model-checked: liveness (`EveryCallReturns`, `QuotesAgainIfIdempotent`,
`EventsAreDispatched`, `RiskStateSettles`), as the prover has no fairness or ENABLED,
and the violated properties, which need only their counterexample. Every invariant, action
property and refinement the passing runs check is proved as well. Of the liveness properties, what is safety
in them is proved: `CallAdvances` and `CallIsBounded`, `CycleAdvances` and `CycleIsBounded`, `RightVerdictKept`.

## 5. Not modelled, and why

* BotState, Adapter, OpenOrderCount, State, the Find methods but FindByBotID: they only read.
* Of the adapters: OrderBook and Balances (parsing), signatures and nonces (the clock).
* Of the repositories: Append of trades and audits, logs that only grow and that nothing reads
  back but DrawdownSince, a sum over what it has read.
* Of the reports: the sums. (reporter.go:117 says "ask revenue (price×qty) minus fees; bid cost
  subtracted separately"; the code adds the filled quantity and never subtracts a bid cost. It is
  arithmetic on decimals. The package mongo, whose Pipeline it uses, is not imported,
  so the file does not compile as it is.)
  The semantics of the ticker are those of the Go version go.mod names, 1.22.
* That a decimal that does not parse becomes zero: the handlers' values are
  opaque in `ControlPlane`.
* That bot ids are unique in BotConfigs: assumed by `ControlPlane`, as `internal/models` says so
  ("unique index"), although nothing creates the index. `Repositories` does without it and
  shows what may happen then.
* The bot goroutine, which would poll its session and call the order manager:
  not in the repository. What `Orchestrator`, `ControlPlane` and `RiskWatchdog`
  assume of it is marked external. `PauseHoldsUntilResume` rests on an assumption about it: that it asks its
  worker for SLOW and leaves NORMAL to ResumeBot. The table of edges would let a goroutine that ends its own throttle
  with Transition(StateNormal), as the calls that worker_test.go:180-187 races do, lift a pause with it.
* What some hazards bring about when nothing in the code stands against them: the properties exempt it, and
  `PROJECT.json` lists those hazards without a property. An order whose reply was lost, or without an id, is not
  acknowledged; a skewed process and one still busy in the fire minute may miss or repeat a report;
  a bot in `twice` may have two documents; `QuotesAgainIfIdempotent` is about the mock's cancel alone.
* Worker helpers: one conversion of a struct, which names fields that
  `engine.SpreadBounds` does not have.
* Metrics exporter: registration with Prometheus. Its SetBotState writes four gauges one after the
  other; nothing calls it, and who scrapes them when is a library's affair.
* WebSocket utilities: Dial, StartPing and IsRetryable have no caller, and the reading loop on
  which a model would depend is not in the repository.
* MongoDB client, error types, the bot binary, tests of a gRPC server whose source is missing:
  options, a codec, values, and wiring that wires nothing.

## 6. Plan

Done:

1. `WorkerFSM`, `BotLifecycle`, `Orchestrator`, with refinement and proofs.
2. `ExchangeAdapters`, `OrderManager`, with proofs.
3. `TelemetryFeed`, `TelemetryHub`, with refinement and proofs.
4. `RiskWatchdog`, with proofs.
5. `ControlPlane`, with proofs.
6. `Reports`, `Repositories`, `SpreadCalc`, with proofs.
7. `QuoteRounds`, `BotRecords` and `ReportLedger`, with the refinements and their proofs; the wedge of the order manager
   for every size; how far overlapping handlers can change a config; what repairs the lost
   update and the hub's panic; measures for the loops of the order manager and the watchdog.

Left:

8. The bot goroutine and the wiring, once they are in the repository: then
   `Orchestrator`, `ControlPlane` and `RiskWatchdog` can be composed over one set of documents.
