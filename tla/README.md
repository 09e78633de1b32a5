# Verification of the TradeLocker gateway

TLA+ specifications of `tradelocker-gpt-gateway`, a Next.js service that turns
signals into broker orders, tracks each order in Postgres, and runs research
jobs next to it. The specifications are written from the code under `src/`;
every definition that stands for code is listed in `PROJECT.json` ("map") with
the lines it stands for.

## 1. The system

| Part | State it keeps | Operations | Modelled in |
|---|---|---|---|
| Trade state machine, `lib/tradeState.js` | rows of `trade_runs`, rows of `trade_events` | create, transition, store preview, store broker answer, record error, synchronise | `TradeStates`, `TradeGateway` |
| Order route, `api/tradelocker/order` | none of its own; the control state of a request | create the row, validate, risk preview, duplicate checks, submit, POST, record | `TradeGateway` |
| Close route, `api/tradelocker/close-position` | the same | find the row, request the close, DELETE, record | `TradeGateway` |
| Verify route, `api/tradelocker/verify-trade` | the same | read the broker, match rows, synchronise | `TradeGateway` |
| Duplicate and exposure checks, `lib/tradeGuard.js`, `lib/risk.js` | none | read the broker's lists | `TradeGateway` |
| Risk preview, `lib/risk.js` | none; what it has heard so far | instrument, quote, freshness, account, day's orders, the checks | `RiskPreview` |
| Broker session, `lib/tradelocker.js` | a token and a login in flight, per instance | login, fetch, retry after 401 | `BrokerSession`; what an answer says of a POST: `TradeGateway` |
| Database access, `lib/db.js` | the two trade tables, `signal_observations` | query, upsert of an observation | `TradeGateway`, `ShadowLedger` |
| Scalp dry run, its cron, dry-run lifecycle | rows of `trade_runs` | scan, create, step through the states; ask again | `ScalpDryRun` |
| Strategy scans, `lib/forexSignals.js` and the five shadow strategies | none: a scan replays the history | read history, quote, account; the verdict | `SignalScan` |
| Shadow routes and ledger, `lib/shadowVirtualTrades.js` | observations, virtual trades | record, reconcile, capture | `ShadowLedger` |
| Scalp engine, `lib/scalpStrategyCore.mjs` | a setup, swing levels, a position, the funnel's counters | one completed candle | `ScalpEngine` |
| Structure readers, `lib/structureA2Core.mjs`, `lib/xmiStructure.mjs`, `lib/priceBreakoutShadow.js` | pivots, trend, channel | one completed candle | `MarketStructure` |
| Backtest and validation, `lib/backtest.js`, `lib/forexValidation.js`, `lib/usdchfResearch.js` | a position, a pending decision, trades, skips | one candle of the loop, end of data; the validation's decision | `Backtest`, `SignalScan` |
| Simulated account, `lib/xmi-sim/execution.mjs` | balance, position, order, trades, status | one candle, end of the replay | `SimAccount` |
| Simulation state document, `lib/xmi-sim/store.mjs` | one Postgres row with a revision and a JSON payload | `readState`, `mutate` | `AtomicDocument`, `StateDocument` |
| Research jobs, `lib/xmi-sim/jobs.mjs` and the simulation route | jobs, runs, reserved holdouts, kill switch, all in that document | queue, tick, set status, pause all, resume | `ResearchJobs` |
| Provider quota, the same file | the day's count, the last refresh of every key | `reserveProviderCredit` | `ResearchQuota` |
| Candle history, `lib/marketData.js` | none; the pages read so far | fetch a span in pages | `MarketHistory` |
| Live feed, `lib/xmiMultiProvider.mjs`, `api/xmi/live`, `XMILiveChart.jsx` | the server's cache and shared requests; a chart's timer, phase and candles | read, refresh, hide, show, lock, select, import | `LiveFeed` |
| Cloud journal, `XMICoachPanel.jsx`, `XMICloudSync.jsx`, `lib/xmiCloudStore.mjs` | records of a tab, rows of the owner | add, upload, load, delete, sign in and out | `CloudJournal` |
| Chart studio, `public/xmi2` | drawings, their history, a drag | draw, edit, delete, undo, redo, import | `DrawingStudio` |
| Other logic of the XMI workspace (`lib/xmiWorkspace*.mjs`, replay, vault) | what a form holds | pure functions | no |
| XMI2 offline protocols, `research/xmi2` | hash-chained files | freeze, reveal, quarantine, review | no |
| User interface, tests, docs, workflows | | | no |

How they interact. The routes run on serverless instances that share nothing in
memory: they meet only in Postgres and at the broker. Every `await` of a handler
is a point where another request, the broker, or the end of the instance may
come between. `trade_runs` is written with single statements; no transaction
spans two of them. The scans share the observation table and the ledger with each
other, and neither with the orders: a scan that says SIGNAL_READY is acted upon
by a client, which posts an order of its own. The research workers share one JSON
document with a revision number; every change of theirs is a function applied to
it by compare-and-swap, and a job is held by a lease stored in the job itself. A
browser's tabs share what the cloud or local storage keeps for them.

What is hard about it:

* two requests with one idempotency key, on two instances;
* an order whose answer is lost, late or wrong: did the broker take it?
* a database statement that fails before, or after, it took effect;
* a verification that moves a row while the order route is still working on it;
* lists of the broker read one after the other while an order moves between them;
* checks (exposure, duplicates) whose answer is old when the order is sent, and
  checks whose answer is missing;
* a token that is refused to several calls at once, and a login that fails;
* a cron that gives up on a request which is still working, and asks again;
* a scan by hand beside the cron's, and a late scan over a fresh one;
* candles that are missing, late or still forming;
* a research tick that computes for seconds on a copy of its job while its lease
  expires, is cleared, or the job is taken over;
* a crash between the reservation of a holdout and the run that used it;
* two implementations, or two uses of one, that must agree: the validation and the
  scan, the strategy's structure and the chart's;
* answers, keys and timers of a browser that come after what they were about is gone.

`PROJECT.json` ("hazards") lists these at the line where they bite, with the
property that would catch each one going wrong.

## 2. The order gateway: `TradeGateway`

### State and actions

| Variable | In the code |
|---|---|
| `runs[k]` | the `trade_runs` row of the idempotency key `k`: its state, `dry_run`, whether the risk preview is stored, which broker ids are stored, whether `last_error` is set |
| `logged[k]` | the `to_state`s of the row's `trade_events` |
| `broker[r]` | what became of the order of request `r`: not sent, on the wire, lost, pending, open, final |
| `pc[p]` | the statement request `p` is about to execute |
| `ph[p]`, `cur[p]` | inside `transitionTradeState`: read, update (`cas`) or log, and the state that was read |
| `todo[p]`, `seen[p]` | the broker lists a `Promise.all` still waits for, and what it has received |
| `key[p]`, `env[p]` | the idempotency key and the environment of the instance that serves `p` |
| `known[r]`, `faults` | history: was an order with this key visible when `r` arrived; a bound on faults |

One action is one statement between two awaits. `After` and `OnThrow` say where
a handler goes when a tracking call returns and when it throws; they are the
handlers' control flow in two tables, and `Acknowledge` is what every write
shares: it takes effect and its answer either arrives or is lost, in which case
the call throws although the row has changed. `QueryFails` is a statement that
throws before it has an effect, `Crash` the end of the instance, `ReadFails` a
broker read that is rejected.

`transitionTradeState` is three actions: `ReadState` (the row's state, and the
early return and the refusal that follow from it), `CasState` (`update ... where
id = $1 and state = $5`) and `LogTransition` (the event). `verify-trade` is
`ReadList` three times, `MatchRows`, `StoreVerification`, `LogVerification`, and
the climb of `advanceToPositionOpen` (`Advance`), each call of which is again the
three actions.

Abstractions, and why they are sound:

* An idempotency key stands for the strategyId derived from it: `makeStrategyId`
  is a SHA-256 prefix, taken as injective.
* Every check of the risk preview except the exposure limits and the kill switch
  is a free verdict: the order may be refused at any time for a reason the model
  does not name, and may always pass. `RiskPreview` (section 5) has the checks.
* Environments are read at the start of a request; `process.env` does not change
  while an instance lives.
* The broker shows an order in `orders` while pending, in `positions` while open
  and in `history` from the moment it is filled, and moves it in one step. The
  duplicate check's window of history is assumed longer than a run of the model.
* A 2xx answer to the order POST comes only from a broker that took the order; an
  error may come whatever the broker did.
* A query of `verify-trade` by order or position id reaches the row that a query
  by strategyId reaches and matches a subset of its broker rows, so it adds no
  behaviour. A strategyId match of `verify-trade` is the `strategyId` field or
  comment of a broker row: in the model the key of the order.
* A request that fails the approval key or the account lock has not arrived. A
  body that differs from the first one of its key throws in `createTradeRun`
  without a write: the same as the 409 here.
* `IDEMPOTENCY_REQUIRED=false` gives each request a fresh key: requests with
  distinct keys.

### What is checked

| Run | Instance | What it shows |
|---|---|---|
| `twins` | scenario "twins": 2 orders, 1 key, instances with and without the database, in dry-run mode, with a garbled kill switch, 1 fault; scenario "recover": 1 order, 1 verifier that keeps polling, 2 faults | `OncePerKey`, `WriteAhead`, `GuardsHold`, `KnownOrderNotRepeated`; `RecoveredPositionRecorded`: an open position reaches its row whatever happened to the request |
| `race` | 2 orders, 1 key, 1 verifier, live and dry-run instances, 1 fault | `RowTellsItsStory` (`FailureOnRecord` and `HistoryExplainsState`), and the refinement `KeepsPromise` |
| `close` | 1 order, 1 verifier, 1 closer, 1 fault | `TypeOK`, `TransitionsAllowed` with three writers on one row |

A scenario (`MCTradeGateway`) says which requests come, from which environments and
with how many faults; a behaviour is one of its scenario, so one run asks one
question of several instances.

`OncePerKey`: the instances that have the database send at most one order per key. `WriteAhead`: an order at
the broker has a row that is past ORDER_SUBMITTED, is not a dry run and holds the
preview. `FailureOnRecord`: without faults of the infrastructure, a request that
reported a broker failure left `last_error` on its row, also when its transition
to EXECUTION_UNKNOWN was refused. `HistoryExplainsState`: when nobody is between
an update and its event, the row's state is in its history. `TransitionsAllowed`:
no interleaving takes a row off `ALLOWED_TRANSITIONS`. `GuardsHold`: no order
leaves an instance in dry-run mode or with a kill switch other than "false",
although the risk preview and the route parse the switch differently.
`KnownOrderNotRepeated`: an order that was visible at the broker when a request
with its key arrived is not repeated, also without the database, although it may
move from list to list while the request reads them.

`OrderPromise` is the abstract specification: a key is registered, then refused
or committed for good, and only then at most one order is sent. `KeepsPromise`
maps a row's state to its fate and the posted orders to `sent`; it holds where
every instance has the database.

Two runs look for what the documentation says and the code does not do, and
find it (`PROJECT.json`, "findings"): `exposure` (two orders pass the check of
MAX_OPEN_POSITIONS before either position is visible) and `closed` (no code ever
asks for POSITION_CLOSED or RECONCILED).

### Bounds

Two requests are the smallest number that can race for a key; the properties
about one key are symmetric in the requests, and one verifier and one closer
are enough to put a foreign write between any two statements of a request. A
closer and a verifier repeat for ever. One fault (two in "recover") is placed
anywhere; `faults` counts failed statements, lost acknowledgements, failed broker
reads and crashes together. The limits are MAX_OPEN_POSITIONS = 1 and
MAX_PENDING_ORDERS = 1 (3 and 2 in `twins`, so that the exposure check is not what stops
a second order) and MAX_DAILY_TRADES = 2. `twins` and `exposure` turn deadlock checking off: without a
verifier or a closer every request ends and the system stops.

### Fairness

`FairSpec` asks for weak fairness of the verifiers only: a client that polls
`verify-trade` keeps polling, and its handler, once called, is run to its end by
the platform unless it is cut off (a `Crash`, bounded by `faults`). Nothing is
assumed of the order requests, of the broker or of the closers. The code itself
has no job that verifies trades, so without a polling client the property does
not hold; that is the operating procedure the README of the repository describes.
`OpenPositionRecorded` (as `RecoveredPositionRecorded` in the scenario that has a verifier)
accepts CLOSE_REQUESTED beside POSITION_OPEN:
`advanceToPositionOpen` does not leave that state.

## 3. The research workers

### `StateDocument`

A call of `mutate` is the loop of its statements: read the row with its revision,
run the function on a copy, `update ... where revision = $1`, and again if nobody's
row was updated, at most eight times; a function that changes nothing is written back as
any other, with a new revision. `Unchanged`, `GivesUp`, `Write` and `QueryFails` are those
outcomes, `Tries` the eight, `faults` bounds failed statements and lost answers.
`AtomicDocument` is what the callers rely on: each call's function is applied to
the document at one moment, or not at all, and a call that returns has been
applied (one whose answer is lost may have been).

Run `studies` (four calls, two tries each, one fault: with four calls a call can
be overtaken at both of its tries by different others) checks `IsAtomic`, the
refinement, and `BusyMeansProgress`: a call that answers SIMULATION_BUSY has
been overtaken by another mutation at every try.

### `ResearchJobs`

Because of `IsAtomic`, one call of `mutate` is one step here. A tick is four of
them at most: `Claim`, then outside the document the replay and the training trial
(`Replay`), then `SaveTrial`, or `Reserve` followed by `Commit`; each of the last
three is applied only where `HoldsLease` holds and otherwise `Superseded`; `Release`
is the catch block. `copy[w]` is what the tick computes on, `revoked` a history
variable: the tick's lease was cleared or taken over. A lost answer sends a tick that has written to its catch
block (`Finish`, `Reserve`), leaves a claim nobody knows of (`ClaimUnanswered`), and a
crash leaves a lease nobody will return (`Orphan`).

* Time: a lease lasts twice as long as a request may run, so a lease whose tick
  still runs expires only if the clocks of two instances differ by that much; that
  is a fault of the model (`Expired`). An orphaned lease expires at any moment.
* A candidate is its index, a dataset the points of time of its holdout
  (`Holdout[j]`), so that two datasets may overlap in any way.
* `Replay` may always fail: the computations are deterministic, but whether a
  given dataset verifies is not modelled.

| Run | Instance | What it shows |
|---|---|---|
| `jobs` | 2 jobs with overlapping holdouts, 2 ticks, 2 attempts, 1 intervention, 1 fault | `TypeOK`, `UntouchedIsFirstUse`, `TrialsFollowCursor`, `OneRunPerJob`, `RevokedTicksAreInert`, `JobsEnd` |
| `cap` | 2 jobs, a cap of 1 | a job queued again exceeds the documented cap (finding) |

Two ticks are the least that can overtake each other; a tick that ends may start
again, so they also stand for a third one. One intervention (a pause, or a change
of one job's status, which may leave it active) falls between any two steps of a
tick; a pause followed by a resume needs two, and is covered by the proofs.

Fairness (`FairSpec`): the repository installs no scheduler; the manager's page
ticks the active jobs again and again while it is open, so each job is begun by
someone sooner or later (`WF(Begin(j))`), and a tick that has begun is run by
the platform (`WF(TickStep(w))`) unless it crashes. `JobsEnd` says nothing of a
time when the page is closed, nor of a research that is paused.

### `ResearchQuota`

`reserveProviderCredit` as one step over a clock in minutes: the day's count, the
units of the rolling minute and the time of each key's last refresh. In run `studies`
(three keys, two days of four units) `BudgetsOfDay` checks the three budgets within one
day; run `midnight` shows that the reset at midnight also forgets the last refreshes, so
that the five-minute rule the documentation states does not hold across it (finding).

## 4. Scans, ledgers and strategies

### `SignalScan`: from candles to a verdict

A scan keeps nothing from the scan before it: it reads the history again and replays it.
`tape` is the candles that have closed, `request` the scan that is being served and what
it has read, `answer` the last verdict. One action is one read (`ReadHistory`, `ReadQuote`,
`ReadFreshness`, `ReadAccount`, `ReadOpen`, `ReadThrows`); the strategies are operators: the
evaluator of `forexStrategyV1.js` candle by candle (`Evaluated`, `Replayed`), the soft-regime
recovery, the two hourly strategies and the virtual position of the scalp. A candle is the
set of facts the rules read from it; prices are left out. The indicators of a candle remember some
fifty candles, far less than any replay that has an H1 regime has been through, so they are facts
of the candle. Those of the hour are not: EMA200 is ready after 200 hours (`RegimeWarm`) and
forgets where it began slowly, so a candle carries what its hour says for each
length of the replay (`Reading`), and two replays of one candle may read two regimes. A
history is the set of its slots, and `EvaluatedTo` feeds them to the evaluator one by one. `Blackout`
says which blackouts a scan has: V1 those of the configuration, the hourly ones those of the
calendar, the soft one both. `Validated` is the decision `forexValidation.js` takes on a candle with
the same evaluator; `usdchfResearch.js`, which adds historical blackouts, is not modelled.

* `EntryWindowOpen`: a ready verdict of a shadow strategy can still be entered, however
  late the history was and whichever candle is missing. The V1 scan is not in it: it does
  not ask how old its last candle is (`V1Answer`).
* `SignalSpacing`: no signal within a cooldown after a shock that its window shows, and between
  two signals of one side the histogram has left that side, although both are rebuilt by
  every scan.
* `ReplayAgrees`: where both read the same H1 regime (`SameRegime`), a scan whose quote refuses
  nothing calls a candle a signal exactly if the validation did: its cooldown, histogram,
  pullback and reset come out the same. Without `SameRegime` TLC finds them to differ, and nothing in the
  code sees to it: the EMA of the scan begins 35 days back, that of the validation in
  the warm-up, of which at the start of the period about 6 % of its weight are left.

### `ShadowLedger`: from verdicts to virtual trades

`obs` is `signal_observations`, `trades` `shadow_virtual_trades`, `scan` the request of the cron
and the one made by hand; `kind` is the route. One action is one statement, in the order
the route awaits them (`M15Route` to `BreakoutRoute`). `Evaluate` is
`evaluateVirtualTradeCandles`: entry at the open of the candle after the signal, then the stop
before the target.

* `RowIsEvaluation`: whatever scans overlap and wherever they are cut off, a row is what one
  uninterrupted look at the candles up to some past moment gives.
* `RightVerdictStays`: a later scan does not take back the observation that was fresh for
  entry, and the V2 gate's verdict is on record once its scans have ended.
* `DecidedTradesEnd` (liveness): a trade the candles have decided is settled once another candle
  has come, also when a scan with an old copy put its row back. The candle that decides is not
  enough: where it is the only one to read, `fetchTradeLockerHistory` is asked for a span of
  no length and throws (`SpanRefused`), and the rest of the scan does not run.

Run `ledger` has both, one or the other in a behaviour: the ledger over five candles with
one scan by hand or one cut off, the scans over eight candles, four of which are of six
kinds, with the session, the blackouts, a cooldown of three candles and a regime of two hours
inside them. Five candles are the least in which an open trade is decided, put back by an old copy
and settled again; `MCEffects` says what each of them may do.
Fairness: `WF` of the cron's scans, which `vercel.json` schedules every quarter of an hour, and of the
steps of a scan that has begun.

### `ScalpEngine`, `MarketStructure`

`ScalpEngine` is the state machine of `scalpStrategyCore.mjs`: sweep, change of character,
pullback, break of structure, displacement, gap, retest, each within its number of candles, and
the counters of the funnel. A candle is a set of facts, drawn among those that a stage asks
for. `SetupsAccounted`: no stage of the funnel has more setups than the one before it (one
more if a setup was under way when the audit began), every trade that was opened ended once
or is open, and a setup is over in bounded time. The windows are one candle where the
code has 2 to 10 (the retest two), the cooldown and the age of a duplicate two, so in the run no
duplicate is refused that the cooldown would let pass.

`MarketStructure` reads the same candles as the A2 strategy and as the XMI chart do, with
the channels of A2 and of the breakout strategy; prices are three levels. `BreaksAreFirstCloses`:
the two implementations report the same breaks, and a break is the first close beyond its
level, although pivots are confirmed two candles late and each side compares no more
than two closes. A break is reported with the candle that makes it; the chart shows none at all
before it has eight closed candles, and then also those of the candles before.

### `ScalpDryRun`

One entry of the 2M strategy, statement by statement: the scan, `createTradeRun`, the
transitions, the preview, each with its event. `cron` is the cron of the route: it gives
up waiting after 90 seconds on a request that may work for 120 and asks again, up to three
times, and is itself ended by the platform after 120 (`CronIsCut`), so it has room for one such
timeout and none for a promise that the symbols after this one are tried. One request is made by
hand; the self-test (`dry-run-lifecycle`) drives the same table.
`HistoryIsPath`: one request alone takes the row through the states, its history is a
path without a gap or a repetition, and where trades are kept an answer "complete" or
"rejected" is given only when the path is on record. Without a database (`tracked` is false, as
when no `DATABASE_URL` is set) `createTradeRun` makes no row, the route skips every write and
answers "complete" all the same: nothing is on record then, and two requests for one entry are
both told that theirs is complete.

### `Backtest`, `SimAccount`

`Backtest` is the loop of `runBacktest`: exits, the fill of the decision of the candle
before, the guards on the decision. What the strategy decides, what a fill is worth and
whether its size is acceptable are drawn; with no equity left the size is nothing, and nothing is
filled. `EntriesKeepLimits`: every filled entry keeps the
number, losses, streak and cooldown of the day and week it is *entered* in, although the guards
were asked a candle before, perhaps on another day. Three days of seven candles in
which steps of one and four leave holes; two losses that reach a limit alone or together, and a
loss that leaves no equity, after which the guards of the code no longer ask for the loss.

`SimAccount` is `processBar` and `finishReplay`: financing, gap, stop, target, liquidation, partial
close, trailing stop, the signal's order and the pause. `AccountSound`: the balance is the initial one
and the results of the trades at every candle, though each fee and part is booked twice,
and a paused account is flat. Six candles: a standstill, a rise to the target, a gap, a turn and a
fall through the stop; two sets of rules.

## 5. Session, preview and browser

### `BrokerSession`

`session` is `brokerSession`, `flight` `loginFlight`, `tokens` the logins asked for so far with the
life of their tokens, `call` the `tlFetch` each caller is in. A tick is 30 seconds; what runs between
two awaits is one step. A token may expire, be revoked at any time, be refused to several
calls at once, or say nothing of its life. `OneLoginOneOrder`: one login at a time is awaited,
a token whose life is known does not run out under a call that took it from the cache, and
a call that places an order sends it once. `ServiceRecovers`: while calls keep coming and
the broker answers, some call goes out under a good token. A read that is refused twice leaves the
token it was refused in the session (`tradelocker.js:76-81` clears after the first 401 only), and
until it is used no more the next call, which may be an order, is sent with it and refused: the
run has these states, and recovery comes only from that call's own 401.

### `RiskPreview`

`buildRiskPreview`, one await after the other (`ReadInstrument`, `ReadQuote`, `ReadFreshness`,
`ReadAccount`, `ReadToday`, `ReadThrows`). A value that may be missing is a set of at most one
element. A field that is there but null counts as 0 (`AsNumber`), an answer without the list that
is looked for as an empty one (`Listed`), and each check says itself what is missing to it.
`ApprovedOrderIsCovered`: under the default settings an order that is approved, *as it is sent*, has a
stop and a target around its entry; wherever between them it is left, it loses no more than the cap
allows of the equity the preview found, which may be that of `ACCOUNT_EQUITY_OVERRIDE`; its spread as read
is small beside the stop, and the market was known to be open. It does not say that the quote or the
lists were there: see the observations below. The run asks this of every combination of the
wishes, settings, instruments, quotes, ages, books and lists of accounts that `MCStudies` enumerates,
each with one feature that a check reads, null quotes and figures and absent lists among them.

### `MarketHistory`

`fetchTradeLockerHistory`: pages of `PerRequest` candles, one await each, candles keyed by time.
`HistoryHasNoHole`: a history is the earliest candles of its span, all of them unless more than
were wanted, but for those of the pages in `unread`: an answer in a shape that `extractBars` does not know
is an empty page, and nothing tells the caller. It is checked for spans that begin with a candle; see the observations below
for the others.

### `LiveFeed`

The server's half is the cache, the shared request of each symbol and the credits it costs;
the chart's half is `loop` (its timer, its failures, whether it runs and what ended it), `pane` (what is
shown, and whether it is built, looked at and visible) and `late` (an answer that a loop which has ended can
still receive). The user selects, imports, leaves the pane and comes back, hides and shows the
tab, the session is locked or expires, the route refuses (`Refusals`), and the platform recycles the
instance. `FeedFollowsSelection`: in a pane that is looked at, what is drawn and analysed is of the symbol
shown, whatever answers come late, and the chart always waits for a timer or an answer unless its feed
is a file or ended with what asking again cannot mend (`Final`: locked, disabled, origin denied).
`AskedAgainOnlyAfterFailure`: a forex symbol is asked for once in a bucket of an instance, and once more only
for each of these requests that failed. A failed request costs a credit too, and the code bounds
neither their number nor that of the instances.
Run `candles` shows that a candle read while it was forming is taken for closed when it is served
from the cache after its period ended (finding). With two interventions, the horizon is three ticks in
`studies`, where a bucket is two, so that one ends and another begins, and four in `candles`.

### `DrawingStudio`

`drawings`, `past` and `future` are the collection and its histories, `layer` the mode, the
anchors and the drag of the layer in focus, `stored` what local storage keeps. Keys work during a
drag, so a held drawing may be deleted, undone or lose its tool. `EditsAreReversible` is an
action property: undo and redo move along the timeline and lose nothing of it, an edit changes one
drawing and drops only what had been undone or is older than the limit, a reload keeps what
storage has, and what is stored is what is shown. It is one chart's collection in one tab: what two
tabs of one symbol store over each other is not modelled. Three edits, two drawings, an import of a
collection exported before.

### `CloudJournal`

`rows[t]`, `account[t]` and `busy[t]` are the records, the sign-in and the work of a tab, `cloud`
the owner's rows. An upload is a row of batches, each one transaction with ON CONFLICT DO
NOTHING; a load is a row of pages below a cursor; another tab of the owner uploads or
deletes between any two of them, an answer or a token is lost, and a tab is left.
`JournalsAgree`: an upload that reports success has all its records in the cloud unless it was deleted
meanwhile; a load that succeeds has all the rows that were there throughout, next to the tab's
own records, as long as the tab may keep that many; no trade is kept twice. Two tabs, batches
and pages of one record, two records of room, one lost call or left tab.

### Runs

Parts that share no state are checked in one run: each behaviour is one of one of the parts
while the others stand still, and the properties of all are stated of it.

| Run | Parts | Properties |
|---|---|---|
| `ledger` | `ShadowLedger`, `SignalScan` | `LedgerAndScanTypeOK`, `RowIsEvaluation`, `RightVerdictStays`, `EntryWindowOpen`, `SignalSpacing`, `ReplayAgrees`, `DecidedTradesEnd` |
| `services` | `BrokerSession`, `ScalpDryRun`, `CloudJournal` | `TypeOK`, `OneLoginOneOrder`, `HistoryIsPath`, `JournalsAgree`, `ServiceRecovers` |
| `studies` | `StateDocument`, `ResearchQuota`, `ScalpEngine`, `MarketStructure`, `SimAccount`, `Backtest`, `LiveFeed`, `DrawingStudio`, `RiskPreview`, `MarketHistory` | `StudiesTypeOK` and the properties above |
| `candles` | `LiveFeed` | `ClosedCandlesAreFinal` (finding) |

Bounds not named above: `services` has two callers, tokens of two ticks, two mishaps of the
broker (so a call may be refused twice), one failure of the route and one upset of the journal. Those are the least that
let a second caller join or miss a login in flight, a retry meet its first attempt, and a tab
change the cloud under another's upload. `studies` and `services` turn deadlock checking off: a
study ends when its clock, its data or its edits are at their bound.

Fairness of `services`: the broker answers a login or a call that waits (both have a timeout of 18
seconds) and callers go on calling. Nothing is assumed of the dry run and of the journal, whose
properties are about what is recorded and reported.

### Observed while modelling

What the models have and no run states as a finding:

* While a virtual trade is active, a scan that has one candle to read answers 500: with a scan per
  candle, every second one. The soft-regime route reconciles first, so such a scan also stores
  and captures nothing (`shadowVirtualTrades.js:159`, `marketData.js:139`).
* `docs/FOREX_STRATEGY_V1.md:188` asks the validation for "the same indicators used live" and
  `README.md:298` of the repository says the replay has them: they are the same functions, begun elsewhere, and
  a scan and a validation of one candle may read different H1 regimes.
* A client's `entryPrice` goes before the quote (`risk.js:473`), and the equity is that of
  the first account of the list that shows one.
* A quote whose prices are null has a spread of 0 and passes `quote_available` and `max_spread`
  (`risk.js:34`), so with an entry price of its own an order needs no quote; an answer without a list of
  positions or orders is an empty account (`risk.js:577`).
* The comment at `xmiMultiProvider.mjs:116` caps a forex symbol at one request per bucket, which
  overlooks the requests that fail: nothing is kept of them, and the next reader asks again.
* A page of candles in an unknown shape is taken for a page without candles (`marketData.js:100`).
* `README.md:494` calls 1% "the live/default risk setting"; the ceiling in
  `liveRiskPolicy.js:7` is 27%.
* A span of several pages that does not begin with a candle leaves a gap between pages into which
  a candle may fall (`marketData.js:156`).
* A drawing deleted while it is held is saved again when the pointer is released; a drag that
  began in freehand and moves after the tool was changed throws.
* A load keeps the last 5000 records (`XMICloudSync.jsx:70`), so a tab may lose its oldest
  records that were never uploaded; a trade closed after its upload has another fingerprint and
  both rows stay; a batch above 250 kB is refused every time.
* A request that fails before ORDER_SUBMITTED leaves its row where it is and the key answers
  409 from then on.

## 6. Proofs

`TradeGateway_proofs` proves, for any number of requests, keys, environments and
faults, from the four assumptions of `TradeGateway` (the kinds of requests are
disjoint, `NoKey` is no key, environments are environments, limits are numbers):

* `TypeCorrect`: `Spec => []TypeOK`. `TypeOK` is not inductive: `CasState` and
  `LogTransition` write `TargetOf[pc[p]]` into the row `key[p]`, and an event names
  the state its request has read. `TypeInv` adds that a request inside
  `transitionTradeState` tracks a row, that the row of a request past its insert
  exists, and that the state it holds for an event is a state. The proof has one
  lemma per action; `GotoTyped` and `AcknowledgeTyped` carry the part that all of
  them share.

It also proves the theorems `SentOnce` (`OncePerKey`), `WrittenAhead`
(`WriteAhead`) and `GuardsKept` (`GuardsHold`), for environments of every kind in one
deployment and any number of verifiers and closers. None of the three is inductive,
and the invariant `SafeInv` is about ownership:

* A request *owns* the row it inserted while its handler runs, and for ever once its
  order was sent (`Owner`). `OneOwner`: a row has at most one. The insert makes an
  owner only where there was no row (`NoRun`), and an owner's row always exists.
* `RowOK`: the owner's row has the owner's `dry_run`, keeps the preview once the
  handler has stored it, and is in an execution state once the owner is past the
  event of ORDER_SUBMITTED (`Committed`). `Kept` is what any step must leave of a row,
  whoever takes it; verifiers and closers only ask for execution states.
* `ClearOK`: nothing was sent before the statement `post`, and the statements after
  the kill switch are reached only with the environment they require.
* `Forward` is what a request's own step may do; `MoveSafe` derives the invariant from
  `Kept` and `Forward`, and the lemmas for the actions prove those two.

`TradeGatewayPromise_proofs` proves `OnTheTable` (`TransitionsAllowed`: a request at its
update holds an edge of the table, `CasOK`, and the update finds the row as it was
read) and `PromiseKept` (`KeepsPromise`), the latter from the assumption `AllTracked`
that every environment has the database. Its invariant `PromiseInv` adds to `SafeInv`
that an owner which is not committed has a row outside the execution states
(`QuietOK`), which needs that verifiers and closers act only on keys with an order at
the broker (`BackedOK`, from `SeenOK`: the lists they read hold orders that were sent).
That is where the assumption enters: an order sent by an instance without the
database would let a verification advance the row of another request, and that
request could then refuse a row which is already in an execution state.

It also proves, without that assumption, what the record says of a trade as long as no
fault has cut a request off:

* `StoryTold` (`RowTellsItsStory`). `ErrorsOK`: a row in EXECUTION_UNKNOWN carries the
  error, a row that a request is about to report as failed carries it too, and no
  statement takes an error back. `EventsOK`: the state of a row is among its events, or
  some request is between the update and the event of just that state (`Writer`). A row
  can have several writers at once, so the proof shows that the one whose state the row
  is in stays a writer until it logs, or another one has taken the row further.
* `KnownNotRepeated` (`KnownOrderNotRepeated`). A request that arrived when an order with
  its key was visible has a `Witness`, a visible order with that key. In the first check,
  once the pending orders were read, the witness is among those seen or is no longer
  pending; in the second check it is not pending, and once the history was read it is among
  those seen. An order moves forward only, and the checks read the lists in that direction.

`Simulation_proofs` proves of `StateDocument`, for any set of calls, tries and faults:

* `Atomicity`: `Spec => IsAtomic`. The invariant says that a copy read at the
  current revision is the current payload: so a compare-and-swap that succeeds
  applies the function to the document as it is.
* `LockFree`: `Spec => []BusyMeansProgress`.

Of `ResearchQuota`, for any limits, keys and durations (with a minute no longer than the
cooldown, `QuotaAssumption`), it proves `BudgetsKept` (`BudgetsOfDay`). `DayKnown` says that
the stored day knows of every request made on it (`used`, `lastByKey`) and that no request is
of a later day. A minute's limit is not stored anywhere: it follows since the requests
of a minute have different keys, each of which is in `lastByKey` with a time of that minute.

Of `SimAccount`, for any candles, sizes, costs and rules, it proves `AccountStaysSound`
(`AccountSound`). The balance is booked (`Booked`) after each of the calls within a candle,
and three facts of arithmetic are needed about what lies between them: the equity is monotone
in the price, a partial sale does not change it, and if the worst price of a candle breaches no
limit its close breaches none, so that a pause for a breach is never one with a position
left open.

`ResearchJobs_proofs` proves every safety property of `ResearchJobs` that the runs
check, for any number of jobs, ticks, candidates, attempts, interventions and
faults, in two layers:

* `IInv` is `TypeOK`, `TrialsFollowCursor`, and
  - `LeaseOK`: a tick named by a lease works on that job, the job is RUNNING, the
    research is not paused, the tick's copy is the job's current cursor and
    trials, and its lease was never taken from it. This is what makes
    `HoldsLease`, a test of three fields, enough: no stored value is compared.
  - `CopyOK`: a tick that saves has a candidate, one that evaluates has none left.

  From it `TypeCorrect`, `TriedOnce` and `Inert`.
* `HInv` adds `ReservedOK` (a tick that found the holdout untouched made its first
  use, and as long as it holds the lease its job made no other reservation), `RunsOK`
  and `CompletedOK` (runs belong to completed jobs, are complete and unique). The
  lease matters: a tick that lost it may be followed by another that reserves
  again, and then neither run would be the only use; the first cannot commit and
  the second does not find the range untouched. From it `UntouchedFirst` and `OneRun`.

`Services_proofs` proves of `BrokerSession` the theorem `SessionKept` (`OneLoginOneOrder`) for any number of
callers, any set of positive lifetimes (`LifetimesAssumption`), any horizon and any number
of mishaps. The property speaks of calls and logins, but what makes it true is in the
cache, so `SessionInv` adds:

* `OneFlight`: the login in `flight` is the only one that is asked for, and a flight that
  is not empty is one that is asked for. A call that joins therefore never adds a login.
* `SessionOK`: the cached token was granted, and is used no longer than the margin before
  its end (`UsedInTime`). This is the fact about arithmetic: the margin of 30 seconds
  covers the 18 seconds that the call which takes the token may last.
* `CallOK`: a call that waits has a login that is asked for, a call that is out has a granted
  token that outlasts its timeout, and a POST is never at its second request.

Of `ScalpDryRun` it proves `EntryTakesOnePath` (`HistoryIsPath`), for any number of tries and
failures, with a database and without one. Without one no request reaches a statement that writes
(`UntrackedInv`). With one, `PathInv` is:

* `StepOK`: a request past the insert owns the row, one before it does not, and the row is
  exactly as far as the statement the request is at. So no refusal by the table is ever
  needed for the property, and a try that the cron gave up on cannot meet the next one.
* `PlaceOK`: the row is at one of the eleven places on the two ways through the states, also
  when its owner was cut off there.
* `AnswerOK` and `SelfTestOK`: an answer that tells of the end leaves the row at the end,
  and the self-test never meets a rejection.

`OwnerMoves` derives the invariant from what the owner's statement does to the row; the
lemmas for the actions prove that much and no more.

Of `CloudJournal` it proves `JournalsStayAgreed` (`JournalsAgree`), for any number of tabs, records, rows,
losses and any sizes of batches, pages and tabs. `JournalInv` is:

* `CloudOK` and `RowsOK`: rows are numbered upwards and no trade has two, in the cloud as in a
  tab, whichever of them were deleted.
* `Uploading`: what an upload has not sent yet is in its remaining batches, and the rest of what
  the tab held at its beginning is in the cloud unless the cloud was wiped meanwhile.
* `Loading`: of the rows that were there throughout, a load has received those that are above its
  cursor. That a page of the newest rows below a cursor misses none rests on the numbers of the rows
  growing: a row that comes meanwhile never goes below the cursor. `Place` and `Nth` relate
  the place of a record in its batch to the records in order.

`ServicesTypeCorrect` is the type invariant of all three (`MCServices`), with `SessionWithin` and `TriesOK` for
the numbers that have a bound.

`Tools_proofs` proves of `RiskPreview` the theorem `ApprovalCovers` (`ApprovedOrderIsCovered`), for all wishes, settings
and answers that are numbers, null or missing (`PreviewAssumption`). `PreviewInv` says that the
failures each answer gives stay in `failed`, so that no check of an approved order failed on
the answers it was given. The rest is arithmetic: the loss is largest at the stop, for either
side, and the checks of the amounts bound it there, multiplied out so that nothing is divided.
`PreviewAssumption` allows lot steps that are not positive; the code aligns no quantity to
those, and neither does the property.

Of `Backtest` it proves `LimitsAreKept` (`EntriesKeepLimits`), for any limits, lengths of day and
week, steps between candles and results. The property is about the candle of the fill, the
guards about the candle of the decision, and `BacktestInv` closes the distance:

* `Ascending`: trades, and the open position after them, are in the order of their times and of
  their candles. The trades of a period are therefore the last ones, so that `EquityBefore`, which
  sums up to the first trade of the period, is the balance without the trades of the period.
* A pending decision passed the guards on just these trades, one candle before. At the fill it
  is the same day, for which the guards were asked, or a later one that has no trade yet; the same
  for the week. The cooldown has grown by one.
* `Solvent`: at every entry there was equity. It is needed since the guards of the code ask
  for a loss only where the period began with equity: a period that has a trade did.

The sums are recursive functions on the places of a sequence, and the lemmas about them (`SumExists`,
a sum of two disjoint sets of places, a prefix that does not change it) are proved by the induction
over a number that `Inductive` derives from the least element of a set that is not empty.

Of `DrawingStudio` it proves `EveryEditIsReversible` (`EditsAreReversible`) and `StudioTypeCorrect`, for any
drawings, any collections that are imported, any tools and any length of the undo stack, from
`DrawingsAssumption` (what is imported was validated). `BookInv` says that all collections shown,
stored or kept for an undo have one drawing per id: so an edit, which replaces or appends the drawing
of one id, leaves the others as they are, and the collection that an undo shows can be edited like
any other. `LayerInv` says that what a drag would save is a drawing. An undo
takes the last collection of `past` and puts the present one on top of `future`, and `Timeline`
reads `future` from the top.

`ShadowLedger_proofs` proves, for any horizon and any number of scans, of which any may
overlap or be cut off:

* `LedgerTypeCorrect` (`LedgerTypeOK`) and `RowsAreEvaluations` (`RowIsEvaluation`). A copy of a row is, like the
  row, what one look at the candles up to some moment gives (`Looked`), and a look that goes on
  from there gives what one uninterrupted look to the later moment gives: `Evaluate` decides
  at the first candle that decides, whether it begins there or before.
* `VerdictsStay` (`RightVerdictStays`), with `SoftOK` and `V2OK`: a request that is about to insert
  a soft-regime trade has stored that it saw the candle in time, which no write takes
  back; and where a V2 verdict is the raw one, the request that is to replace it is
  under way.

Of `SignalScan` it proves all the run checks, for any candles, strategies, sessions, blackouts,
cooldowns and windows:

* `WindowStaysOpen` (`EntryWindowOpen`). `ScanInv` says that what a scan has read had closed when it
  began (`SeenBy`) and that each answer keeps its window open (`WindowOpen`); what the evaluator did
  before the last candle does not matter for that.
* `SignalsKeepDistance` (`SignalSpacing`). Here it does. `Remembers` is the invariant of the replay: the
  evaluator has its candles, and its rest is what the latest shock among them leaves of the
  cooldown, counted in candles that were read, not in slots. It is carried through `EvaluatedTo` by
  induction over the candles (`RunRemembers`), and `Meant` says what an answer therefore means: the last
  candle that was read is not `Barred`, its regime is the one the strategy asks for, and the
  histogram has crossed with it. No candle closes between a scan and its answer (`ReadOK`), so this
  stays true. An earlier signal of the same side has crossed too, so the candle before the later
  one, which has not, is a later candle.
* `WarmReplaysAgree`: `BothWarm => ReplayAgrees`. `BothWarm` is that before the candle, the window of the scan and
  the warm-up of the validation hold the candles of a cooldown and of a lookback. Without it the
  property is false: a window shorter than a cooldown forgets the shock. `WarmSame` is that a warm
  part of the candles gives the same shocks and checks as all of them, and so the two replays,
  which share nothing but that part, agree as soon as their regimes do. That these do is the
  premise of `ReplayAgrees` and is not shown: it does not hold in general.

`LedgerAndScanTypeCorrect` is the type invariant of both parts (`MCShadowLedger`).

`Markets_proofs` proves:

* of `LiveFeed`, for any symbols, periods and buckets: `FeedFollows` (`FeedFollowsSelection`) and `BucketsKept`
  (`AskedAgainOnlyAfterFailure`). An answer that waits to be received is of the symbol shown
  (`CallIsMine`), since every change of the selection gives the call up; and in the bucket that was
  last counted, a request that is on its way or an answer that is kept is the one by which those
  sent exceed those that failed (`AskedAnew`).
* of `MarketHistory`, for any candles, span, page size and number wanted: `NoHoles`
  (`HistoryHasNoHole`). If pages begin on the grid, or one page covers the span (`Regular`),
  what was fetched is the earliest of what the cursor has passed and was read (`ReadTimes`), up to the
  number wanted (`Earliest`). The candle that the broker may add before a page is then one that an earlier
  page has asked for, or outside the span, and no candle lies between the end of a page and
  the next one.
* of `ScalpEngine`, for any windows and hourly modes and any facts: `SetupsStayAccounted` (`SetupsAccounted`). `Fits`
  bounds the age of what a setup last saw, stage by stage, and from it that of its sweep.
  `Onward` is what the stages of one candle may do together, and `Pending` counts the setup
  that a stage has still to count, for which the stage before it is one ahead. So
  `Narrow` is inductive where `FunnelNarrows` is not: a stage that counts a setup could
  otherwise overtake the stage before it.
* of `MarketStructure`, for any candles and channels: `BreaksAreFirst` (`BreaksAreFirstCloses`). In
  `StructureInv` the pivots of the two readers differ in their labels at most (`Alike`), and
  `Judged` says of each that it is broken exactly if a candle has closed beyond it, and that the last
  candle has not if it is not broken. So the strategy's comparison of the last two closes with a level
  and the chart's flag for each level come to the same. A pivot is confirmed two candles late;
  that both of those closed on its near side (`SwingIsAhead`) is part of what makes a swing.

Some formulas were moved from the MC modules to the modules they are about to be stated there as
theorems, and in `RiskPreview` the answers are a record from the start instead of growing by a
field per answer.

Only model-checked:

* liveness (`RecoveredPositionRecorded`, `JobsEnd`, `DecidedTradesEnd`, `ServiceRecovers`), which is out
  of the prover's reach;
* `ReplayAgrees` where a window or a warm-up is too short for `BothWarm`, which is a matter of how many candles
  the run has;
* the type invariant of the run `studies` as a whole: `StudiesTypeOK` says that failure codes
  are strings, and the installed provers do not take a literal for a member of `STRING`.

## 7. Plan

1. The incident list of `resumeResearch` and the archive quota, in `ResearchJobs` and
   `ResearchQuota`.
2. XMI2 protocols: freeze and reveal, quarantine, signed chain, checkpoints.
3. The XMI workspace's vault and replay; the throttles of the session route and of the
   public feed.

## 8. Not modelled

* Numerical code: indicators, position sizes, fills, scores, statistics of a report. The
  models draw what these decide, or keep the facts their callers tell apart; the values
  are the unit tests' business.
* Rendering, layout and forms; routes that only read; credentials, cookies, and the
  platform's routing.
* The XMI2 offline protocols: single processes over files.
* Of the research jobs: the incidents that `resumeResearch` asks a verified dataset for, the
  lifecycle log, the cap of 40 retained jobs, the archive quota (the same shape as the
  provider's without the minute). Of the research itself: partitioning, search and the
  promotion gates, pure functions of a finished run.

The notes in `PROJECT.json` ("components") say the same part by part.
