# Verification of the BotNet Council runtime in TLA+

The Council is a deterministic trading-research program: specialist agents vote on a market
snapshot, a council aggregates the votes, a risk governor turns the decision into an authorized
order or a veto, and a paper adapter fills it at a later bar opening. A pipeline runs that chain
once, a replay engine drives it over history, a service keeps scenarios and the operations that
replay them, and another learns the weights of the agents from judged outcomes; a telemetry bus
and a dashboard show it live. Paths below are relative to the repository; `botnet_council/`
stands for `src/botnet_council/`.

## 1. Inventory

### Components modelled

| Component | State it keeps | Operations | What makes it correct |
|---|---|---|---|
| Paper execution, `execution/paper.py` | cash, positions with marks, valuation time, filled authorization ids | `execute`, `mark_to_market` | one fill per authorization, inside its window; time never goes back; marks are never newer than the valuation; books balance; a reduction only reduces |
| Risk governor, `risk/governor.py` | none (policy) | `evaluate`, `reconcile` | what it authorizes stays inside the limits when it fills; restrictions never trap exposure |
| Backtest engine, `backtest/engine.py` | simulation clock, current mark, queued order, cadence index, ledger of the run | `run` (one loop), cancellation | causality of snapshot, mark, order and fill; the queue drains; every internal assertion holds |
| Pipeline, `pipeline.py`, with Council, `council/aggregator.py`, and context, `context/service.py`, `context/dispatch.py` | account of the adapter, cache of context answers | `run` and each of its stages, `enrich`, `aggregate` | a failed run leaves the holdings; a repeated request has the same context; a restrained Council adds no risk |
| Telemetry bus, `telemetry/publisher.py` | sequence, retained events, remembered ids, subscriber table, two reentrant locks | `publish`, `subscribe`, `unsubscribe`, `snapshot` | contiguous snapshots, callbacks in sequence order, exactly-once callbacks, no deadlock |
| Live stream, `api/app.py` (bootstrap route, `websocket_events`) and `web/src` (`api.ts`, `App.tsx`, `liveState.ts`, `requestGate.ts`) | session queue; browser socket, request ticket, live state | connect, subscribe, enqueue or lag, send; open, event, error, close, bootstrap answer, resync | what is shown as live is exact, never goes back, and catches up |
| Scenario operations, `scenarios.py`, `backtest/persistence.py` | tables of scenarios, operations and results; their files; cancellation events; daemon threads | define, start an acquisition or a backtest, cancel, the thread's steps, restart | what is completed has its result; a recorded end is final; every operation ends |
| Experiments, `experiments/` and the command lane of `api/app.py` | one saved record per experiment: lifecycle, context, forecast, outcome, evaluation | `create`, `run`, `run_random_batch` over the file repository | a locked forecast never changes; no outcome before its lock; a lifecycle only goes forward; nothing stays in progress unattended; what is selected can be run |
| Learning, `learning/` | immutable generations, recorded reviews, the active pointer | `initialize`, `propose`, `evaluate`, `promote`, `rollback` | every generation is earned by evidence that did not see its validation; the pointer has its line of ancestors |
| Experience store, `experience/store.py` | payload files, an index | `save`, reading by `query`, the trials and the temporal split | a row has its payload through crashes |
| Market-data cache, `market_data/cache.py`, `cached.py`, and the providers `kraken.py`, `freqtrade.py` | artifacts, Freqtrade's own file | `fetch_historical` (lookup, composition, missing ranges, download, store), `snapshot`, `inspect_availability` | answers are exact, can be read again, and never conflict |

### Components left out

| Component | Why |
|---|---|
| Specialist agents, `agents/` | pure statistics on floats of one snapshot, without state; `Pipeline` takes any signals that their contract admits |
| Freqtrade boundary, `backtest/freqtrade.py`, `authoritative.py`, `adapters/freqtrade.py` | starts an external process in a container and parses what it leaves; no order of steps of its own beyond one call |
| Episodes of runs, `backtest/episode.py` | a pure projection of a finished run |
| Telemetry contracts and serializers; domain contracts beyond those exchanged | shapes of payloads and validation of single values |
| Entry points, configuration, logging; dashboard views; generated contracts and their generator; files for the external runtime | wiring, rendering, generated code |

### How the components interact

`pipeline.run` and `engine.run` call, on one thread, governor → adapter → governor
(`evaluate`, `execute`, `reconcile`) and pass immutable contracts of `schemas.py`. Every step
publishes on the bus. The bus calls its handlers on the publishing thread; the websocket
session's handler hands the event to the event loop with `call_soon_threadsafe`, into a bounded
queue. A browser that connects asks `/api/bootstrap` for one bus snapshot and joins it with the
socket's events by sequence number. Scenario operations run engines on daemon threads, which is
where several publishers come from; they, the experiments and the pipeline fetch through one
`CachedMarketDataProvider`, several at once. Finished experiments become episodes of the
experience store, from which the Librarian and the Teacher draw their evidence; the active
generation is the weight that the Council of the next run aggregates with.

The hard behaviours, each at its line, are the `hazards` of `PROJECT.json`: two clocks in one
account, an order decided on the bar it must not meet, prices of two instants in one limit, two
threads and reentrant handlers on two locks, a subscription racing a snapshot, abandoned requests
that answer late, a restarted server, a cancellation that races completion, crashes between two
files, evidence that grows while it is used, and downloads that race each other and the venue.

## 2. Plan

1. **Done, first stage**: `PaperAccount`, `PaperExecution` ⇒ `AuthorizedLedger`; `RiskGovernor`;
   `BacktestEngine`; `EventBus`; `LiveState`, `EventStream`; `Experiments`;
   `PaperExecution_proofs`, `Experiments_proofs`.
2. **Done, second stage**: `MarketDataCache`; `ScenarioOperations`; `ExperienceStore`,
   `WeightLearning`; `Council`, `Pipeline` (a second client of `RiskGovernor` and
   `PaperAccount`); proofs about these four (`*_proofs`).
3. **Done, third stage**: all safety properties of the engine, of the bus and of the experiments;
   the line of ancestors of the active generation, the balance of the ledger, the whole of
   `RestraintNeverAddsRisk`, and the readability of the cache.
4. **Done, fourth stage**: the safety properties of the dashboard, so that every safety property
   of a passing run is a theorem; `EventBus` ⇒ `AtomicBus`, which is what `EventStream` takes for
   granted of a publication.
5. **Not planned**: the engine and the pipeline as refinements of `AuthorizedLedger`. They make
   their orders while they run, so that there is no fixed set of windows to map to; what would be
   gained is stated of them directly (`QueueMeetsNextOpening`, `QueuedOrdersSettle`), and the
   checks of the adapter are the same operators (`PaperAccount`).

No module that is or will be proved about declares a RECURSIVE operator.

## 3. The modules

| Module | Models | Correspondence |
|---|---|---|
| `PaperAccount` | the account and its two rules | pure operators: `CausallyRejected` = `_rejection_reason`, `EconomicallyRejected` = the checks of `execute` after it, `AfterFill`, `AfterMark`, `StrictlyReduces` |
| `PaperExecution` | the adapter under any calls | `MarkToMarket`, `FillOrder`, `RejectOrder` = the outcomes of the two methods; `processed` = `_processed`; `fills` is history |
| `AuthorizedLedger` | the promise | each authorization is used once at most, within its window, in time order |
| `RiskGovernor` | `evaluate`, `reconcile` | `CausalVeto`, `RestrictionVeto`, `LimitVeto` = the reason lists; `ProposedOrder` = sizing and flattening; `WithinLimits`, `Compliant` = `reconcile` |
| `BacktestEngine` | `run` | an event of the loop is three steps (`phase`): meet the opening, mark the account, decide. `Raised` phases are the `RuntimeError`s |
| `Retention` | what bus and dashboard share | the history limit, the bound of publications and `Newest`, the newest events of a sequence |
| `EventBus` | the bus | a `publish` in progress is a frame of its thread's stack: waiting for the dispatch lock, then calling the handlers of its copy of the table (`NextMatch` is the next one whose filter matches) |
| `AtomicBus` | what the bus promises | a publication is one step, after which the event is due to everybody subscribed at that moment; each is given it once, in order |
| `LiveState` | `liveState.ts` | pure functions under their names; `ApplyBootstrap` states what its loop over the buffered events comes to: those that follow each other from the snapshot on are applied, and the first after a gap is met by `ApplyEvent` |
| `EventStream` | session, bootstrap and browser | one action per callback, message, timer and answer |
| `Experiments` | `ExperimentService` and its repository | a caller's `step` is the next call of `create` or `run` that reaches the repository or the provider; `Save` is `repository.save` with its refusal and its failure; `Caught` is the `except` branch |
| `ScenarioOperations` | `HistoricalScenarioService` | `Define`, `StartAcquisition`, `StartBacktest` are the requests, `CancelLook`/`CancelSet` the two halves of `cancel` (a look at the table, then the event), `Step` the thread of `_acquire` and `_run` between its writes, `Restart` the end of the process and `_load_scenarios`, `_load_operations` |
| `ExperienceStore` | `save` of the store | `SaveBegin` = BEGIN IMMEDIATE and the look, `SavePayload`, `SaveRow` = insert and commit, `SaveFails` = a failed write or the end of the process; `IndependentTrials`, `Training` = `independent_trials`, `temporal_split` |
| `WeightLearning` | Librarian, Teacher and `WeightProfileStore`, over `ExperienceStore` | `Propose`, `Evaluate` are one call each; `promote` is `Promote`, `RecordReview`, `WriteProfile`, `WriteActive` under one lock, in the order of its writes; `Initialize`, `InitializePointer`, `Rollback`, `WriteFails`, `Crash` |
| `MarketDataCache` | a fetch, step by step | `Lookup`, `Compose`, `Plan` = the three looks of `fetch_historical` at the cache; `FetchPage`, `RateLimited`, `DownloadToFile`, `ReadFile` the providers; `Check` and `Write` the two halves of `store`; `Assemble` the composition afterwards; `CloseCandle`, `Revise`, `Restart` the world around it |
| `Council` | `aggregate` and the contract of its signals | pure operators on a round, a function from agents to signals |
| `Pipeline` | `run` over Council, governor and account | one action per stage; `stage` is the local variable of that name, with the context as a stage of its own and the Council in that of the agents; `Raise`, `MarkRaises` its exceptions; `Fetch`, `Enrich` the loop and the end of `ContextService.enrich` |
| `*_proofs` | theorems | see section 5 |
| `MC*` | small instances | constants only |

**Abstractions.**
*Money* is integral: prices and lots are natural numbers, rates are numerators, and cash is exact
in units of 1/Bps²; the 1e-9 tolerances of the code disappear. Sizes are rounded down to lots, as
a smaller order than the governor's is within the same limits. The order's average entry price is
left out: nothing reads it but reports. *One instrument* in the engine, as in the code; several
in the adapter and the pipeline. *Decisions* of the council in the engine are any target of a
small set; the checks of symbol list, confidence and volatility are one `restricted` flag, and the
checks on the integrity of a decision one `sound` flag, because each of them is a veto whatever
the rest says. In the pipeline the decision is the one `Council` makes of the round, `restricted`
is the confidence check or a free choice for volatility, and `sound` is free: an invalid signal or a
stale volatility, which a round does not show, vetoes whatever the rest says. The versions of the
context providers, which are part of the key of the context cache, do not change while the process
runs, and are left out. *Telemetry* of the
engine and the pipeline is left out, and `_emit` never fails. *Publication* is one step in
`EventStream`, as in `AtomicBus`, which `EventBus` implements. The session's `accept` and `subscribe` are one step: no
await between them suspends. A session ends with its connection; in the code it may live on until
the next event is sent, which only costs memory. *Time* in `EventStream` is absent: the
reconnection timer is a fair action.
*Experiments* are named by their evaluation time, in bars; the rest of the request is the same for
all, so that its immutability and the identity check hold by naming. A forecast is a deterministic
function of its context: both are named by the provenance of the context, which differs from one
build to the next. Bars are on time, one bar late or missing, and a history does not change during
a behaviour. The order in which a seed puts the candidates is any order. Reads of the API change
nothing and are left out, and so is `replace_records`, which nothing calls.
*Scenario operations*: a scenario is the digest of its definition; a backtest is its fetch, its
events with the look at the cancellation and the progress of each, and its files. A blind
scenario differs by the length of its window.
*Candles* are a number and a revision; one market, one interval. A file is there whole or not at
all (it is moved over its path), so digests always verify. Kraken's committed rows come in pages
and its row in progress is discarded; Freqtrade's own file keeps the rows that it has and is
extended by whole days. The rate limit is counted, its delays are not.
*Learning* is one agent in one scope, with its long and recent weight as numerators. The scores of
the Teacher are data: whether the change, half of it or nothing is accepted is a free choice, all
its checks before the score are modelled. Episodes are named by decision time, generation and run,
which is what their identities tell apart. Times that callers choose are constants.
*Signals* that do not act are one passive signal. The Council's means are quotients, rounded down
where they become a target.

## 4. The runs

| Run | Checks | Bounds and why they are enough |
|---|---|---|
| `MCPaperExecution` | three invariants, implements `AuthorizedLedger` | two markets, six orders (open and reduce on both sides, one in the other market, one with an impossible fee), two prices, two instants: early, late, expired and repeated submissions, gaps, overdraft by a cover, reversal attempts. Rates of a tenth empty the account in a few fills |
| `MCEngineBoundary` | `LongOnlyStaysSolvent`, `ConsistentlyPricedFillsReconcile`, `QueuedOrdersSettle` | seven bars, four of them decided on with every mix of prices, expired and fresh decisions, fees, slippage and a reserve; bars are available at their end |
| `MCEngineDelayed` | causality of queue and mark, internal assertions, trapped exposure, the fate of every approval | five bars, each published 0 to 3 half-bars late: before, at and after the next opening, and out of order; up to three approvals between two openings |
| `MCEventBus` | three invariants, implements `AtomicBus`, termination | two threads, three ids (repeats included), two handlers of which one publishes, history of two, three sequenced events: eviction, duplicates, nesting, subscriptions at every point |
| `MCEventStream` | four properties with convergence | three publications over two generations, queue of one, wire of one, limits of two, two kinds of fault out of four, a click: lag, abandoned requests, overflowing buffer and restart all occur |
| `MCExperiments` | five properties, three of them of concurrent commands | two evaluation times, a warmup and a horizon of one bar, all 27 histories of three bars, one or two lanes for two callers, one crash or failed write, batches of one or two: two runs of one experiment, a create that races a run, a batch over experiments already there |
| `MCScenarios` | two safety properties, every operation ends | two operations on one blind scenario (two of its three events), progress persisted at every second event, two faults: a cancellation at every step, a restart or failed write between any two writes, and a second one while the first is recovered from |
| `MCLearning` | four invariants | two learners, two trials that may train, one whose truth comes exactly at the cutoff, two to hold out, a rerun that is saved meanwhile, generations 0 to 2, three reviews, one fault: competing promotions, a promotion after a crash or a rollback, a branch; generation 2 can be a child of 1 or of 0 |
| `MCMarketDataCache` | three invariants | three candles, of which one closes during the run and one may be missing, one range and a snapshot that lacks a candle on either side of it, so that a fetch has several parts, two workers, both providers, pages of two rows, one revision, two restarts or failed writes, each restart perhaps with a new source or format version |
| `MCPipeline` | one invariant, two action properties | two runs over two markets and two times, two alpha agents of which one needs a context datum that may be absent, late or there, prices 2 and 3, limits that a position reaches: repeated requests, reductions, flat and silent rounds, failures at every stage |
| `MCEngineReserve`, `MCCacheUpgrade` | one property each, violated | see section 6 |

Each bound is a constant of the module and named there (`MaxSequence`, `MaxGeneration`,
`MaxRequests`, `MaxFaults`, `EndBar`, `MaxDelay`, `MaxReviews`, `MaxRevisions`, `MaxRuns`,
`Times`). Deadlock is not checked where the system may stop or a bound stops it: a replay that has
ended, a bus nobody publishes on, a dashboard with nothing new, learners at `MaxReviews`, a
pipeline after `MaxRuns`. The adapter, the experiment and scenario services and the cache never
stop, and their runs check it.

Every property of a passing run comes with a mutant: a definition of the module, next to the one
it would replace, with a bug that breaks the property. The type invariants are not part of the
runs; those of the components with proofs are theorems, or parts of an inductive invariant.

**What some properties leave out, on purpose.** `CallbacksFollowSequence` excepts an event that
a handler published while it was called: the dispatch lock is reentrant, so that event reaches
later subscribers of the table before the one it answers. The comment at `publisher.py:88` does
not mention it; no handler in the repository publishes. `NothingLostWhileLive` and `Converges`
except a refused event: `onMalformed` keeps the socket open, and a bootstrap that was already
answered resets the status to live without that event. `ConsistentlyPricedFillsReconcile` is for
long-only policies: with shorting, a sale at an opening above its reference is no adverse
slippage and may open a short larger than the limits. The decision cadence is counted in events
(`engine.py:293-296`), which are bars only when bars are published at their end.
`LifecycleOnlyExtends` is for one lane, which is what the API has (`app.py:140`) and what
`docs/issue-15-verification.md:47` asks of direct callers: with two, a run that is behind
saves its earlier state over a finished experiment. The other properties of `Experiments` need no
lane. `InProgressIsAttended` excepts what a crash or a failed last write left behind: no operation
of the service takes such an experiment up again, and `run` refuses it from then on.
`SeriesIsReadable` and `AnswersReload` except behaviours in which the venue revised a candle while
a fetch was under way, or a fetch downloaded again what another had just stored (`raced`): the
parts then hold two values of one candle, and every composition of the series raises
("conflicting") until a file is removed. That is what `docs/historical-scenarios.md` calls an
integrity error; `AnswerIsExact` needs no exception. `FailureLeavesHoldings` is about runs that
raise: a fill that does not reconcile is reported in the result and not raised, unlike in the
engine.

**Fairness.** `EventBus`: WF of a thread's progress in `publish` and SF of the return of a handler, which may
publish any number of times before; nobody has to call. `EventStream`: WF of each kind of
callback, of the session, of the browser's handlers and timer, and of the answers to requests;
nobody has to publish, click or fail. `ScenarioOperations`: WF of the next step of each thread;
nobody has to ask, cancel or restart, and threads wait for nothing but the lock, which is held
for one write. `PaperExecution`, `Experiments`, `WeightLearning`, `MarketDataCache` and
`Pipeline` have none: they are called, and no property of theirs is about progress. Nor has
`BacktestEngine`: `run` is a loop over a tuple made beforehand, which ends whatever its body does.

## 5. What is proved

Eight modules hold TLAPS proofs. Every theorem is for all values of the constants that the named
assumptions allow; TLC evaluates the assumptions in the runs.

| Module | Theorem | Property | Argument |
|---|---|---|---|
| `PaperExecution_proofs` | `PaperTypeOK` | `TypeOK` | inductive; lemmas `AfterFillFields`, `AfterMarkFields` describe the account after each operation |
| | `AuthorizationsFillOnce` | `AtMostOneFillPerAuthorization` | the check is on `_processed`: the invariant says that it is the set of ids of the ledger, which makes it inductive |
| | `LedgerInTimeOrder` | `FillsInTimeOrder` | the ledger is ordered because it is never ahead of the valuation time, which every fill is checked against and every mark moves |
| | `PaperMarksAreCausal` | `MarksAreCausal` | a fill of one symbol advances the clock of all: other marks only get older |
| | `LedgerExplainsPaperAccount` | `LedgerExplainsAccount` | `Balance` is a recursive function over the fills in order; that it exists for every length, and that one more fill adds one move, are `RunningBalance` and `BalanceOfOneMore` (a least length for which they fail leads to a contradiction) |
| | `ReduceOnlyOrdersShrink` | `ReduceOnlyFillsShrink` | `ReductionShrinks`, by the signs of the two quantities |
| | `OverdraftsAreReductions` | `OverdraftOnlyByReduction` | from the cash check and its exemption |
| | `PaperImplementsLedger` | `ImplementsLedger` | refinement: a fill is an abstract fill (by the two invariants above), anything else a stutter |
| `Experiments_proofs` | `ExperimentTypeOK` | `TypeOK` | part of the inductive invariant `IInv` |
| | `OutcomesFollowLocks` | `OutcomeFollowsLock` | not inductive alone: a caller may ask the oracle because of what it read back (`Backed`), and the repository keeps that because it refuses the records of all others (`Protected`, lemma `SaveKeepsBacking`) |
| | `ForecastsAreImmutable` | `LockedForecastIsImmutable` | every write goes through `Save`; by cases over the steps that save |
| | `ProgressIsAttended` | `InProgressIsAttended` | `RunInv`: a caller whose step comes after a save has the record of that save or knows that it is refused, and a record in progress has a caller whose next steps lead to its end; `Saves` splits on what the repository answers |
| | `SelectionsAreRunnable` | `SelectionIsRunnable` | what one fetch finds between two cutoffs is what the two fetches of the run find (`CandidatesAreComplete`), and histories stay |
| | `LifecyclesOnlyExtend` | `LifecycleOnlyExtends` | `LaneInv`: with one lane one caller is at work, and the stored record is the one that it has or extends |
| `ScenarioOperations_proofs` | `ScenarioTypeOK` | `TypeOK` | part of `IInv` |
| | `CompletedOperationsHaveResults` | `CompletedHasResult` | `OperationOK` relates the step of a thread to both copies of its record and to the files: a thread gets to its last step only past the result's write |
| | `DurableStatusesAreFinal` | `DurableStatusIsFinal` | behind a final record there is no thread any more, cancelling does not write, and a restart writes only records that are not final |
| `WeightLearning_proofs` | `IndexedEpisodesAreReadable` | `IndexedIsReadable` | a saver that may commit has written its payload, and payloads are never removed |
| | `GenerationsAreEarned` | `GenerationIsEarned` | what a learner found before it took the lock (`Founded`, `Judged`) is about immutable episodes, so nothing that happens meanwhile undoes it; the review is recorded before the profile is written |
| | `PromotionsNeverConflict` | `PromotionNeverConflicts` | one learner is inside the lock, and its number is above every stored one (`GreatestGeneration`, `NextIsNew`) |
| | `ActiveLineIsComplete` | `ActiveIsLineal` | `LineInv`: all stored generations are lineal, since a new one has a stored and smaller parent, the base of the proposal that was checked to be active; a generation outside of its line would be a least one |
| `MarketDataCache_proofs` | `AnswersAreExact` | `AnswerIsExact` | stored artifacts are exact and stay so, as candles only become older; selections of exact artifacts are causal; a store or an answer only follows the check of coverage (`CheckKeeps`) |
| | `SeriesStaysReadable` | `SeriesIsReadable` | `PoolInv`: the artifacts of the version and the results about to be stored (the pool) agree. Freqtrade's are rows of its own file, which keeps them. Kraken's agree because `missing_ranges` asks for absent candles only (`MissingIsAbsent`): wherever a part still to be downloaded has become known, it has the venue's value (`VenueReady`) |
| | `AnswersStayReloadable` | `AnswersReload` | an artifact is only replaced by a complete result for the same request out of the same pool, which has the same candles (`SameBars`), and a version that was given up is not taken up again (`UpgradesFollow`) |
| `Pipeline_proofs` | `FailuresLeaveHoldings` | `FailureLeavesHoldings` | a run under way has the holdings it began with until the fill, after which nothing raises |
| | `ContextsAreReproducible` | `ContextIsReproducible` | a context is a function of the cache's answers to its request, all of which are there, and none of which is replaced (`FetchKeeps`) |
| | `RestraintAddsNoRisk` | `RestraintNeverAddsRisk` | what is approved has somebody who asked for it, and is a strict reduction if all asked for one, which the adapter checks again at the fill; an order towards a flat target is sized within the position (`FlatOrdersReduce`), which `SizingInv` keeps true up to the fill |
| `Telemetry_proofs` | `BusTypes` | the types of all variables and `NestingInv` | only the innermost publication of a thread waits for the lock |
| | `SnapshotsAreContiguous` | `SnapshotIsContiguous`, in no run: its part in `ImplementsAtomicBus` is what a run checks | the numbering and the trimming are one step (`TrimmedAppend`) |
| | `EventsRetainedOnce` | `RetainedOnce` | `AlignedInv`: the newest ids remembered are those of the newest events retained, place by place |
| | `CallbacksInOrder` | `CallbacksFollowSequence` | `LockInv` (all dispatches in progress are of the owner of the lock, however nested), `NestedInv`, and `AwaitedInv`: a handler that still waits for a dispatch has been called with later numbers only from within it |
| | `EverythingDelivered` | `QuiescentDelivery` | `OwedInv`: what a handler is owed is what it was given and what a dispatch in progress still has for it; `CopiesInv` and `DeliveredInv` make it once |
| | `BusIsAtomic` | `ImplementsAtomicBus` | refinement: what is due to a handler is what dispatches in progress still have for it (`OwedInv`), which are all nested in each other (`LockInv`, `NestedInv`); `CauseInv`: every publication but the outermost one of a thread was made by the handler that runs below it |
| | `CallbacksStrictlyInOrder` | the order without the exception, in no run, assuming `Unanswering` | where no handler publishes there is one frame at most on a stack (`OneFrame`) |
| | `LiveViewsAreExact` | `LiveViewIsExact` | `StreamInv`: every message anywhere was published, every answer is a snapshot of some past moment, and the view is a stretch of the log of its generation that ends at its watermark; `ApplyEvent` and `ApplyBootstrap` extend it at that end only |
| | `ViewsOnlyAdvance` | action property `ViewNeverRegresses` | the answer of the current ticket is not behind the view (`NotBehind`), because the view only advances while live, and asking makes it not live; other answers are ignored |
| | `NothingIsLostWhileLive` | `NothingLostWhileLive` | `OnTheWay`: the wire, the queue and the callbacks, one after the other, are the log from some event `k` on, and everything up to `k` has been applied, is covered by the answer to the current request or waits in the buffer (`Reached`) |
| `BacktestEngine_proofs` | `EngineTypes` | `TypeOK` | part of `EngineInv` |
| | `OrdersMeetTheNextOpening` | `QueueMeetsNextOpening` | `QueueInv`: no bar opens between the authorization of the queued order and now, because every opening is an event that meets the queue first |
| | `RunAssertionsHold` | `AssertionsHold` | `PastInv`, `MarkInv`: the clock of the account and the market time of the mark are never ahead of the event |
| | `DecisionsUseTheNewestMark` | `DecidesOnNewestMark` | an event at which a bar opens does not mark with an older bar |
| | `QueuedReductionsStayValid` | `QueuedReductionStaysValid` | the position only changes at the opening that empties the queue |
| | `MarksNeverRegress` | action property `MarkNeverRegresses`, in no run | bars published out of order do not pass the check of the market time |
| | `LongOnlyAccountsAreSolvent` | `LongOnlyStaysSolvent` | `LongOnlyInv`: an order that sells is a reduction, which the adapter keeps within the position, and a purchase is refused beyond the cash |
| | `ConsistentFillsReconcile` | `ConsistentlyPricedFillsReconcile` | `AffordableInv`: the queued purchase was within the limits at its reference price, the adapter refuses a worse price, and the limits only get easier with a better one (`LimitsAreMonotone`) |
| | `PromptOrdersSettle` | `QueuedOrdersSettle`, assuming `MaxDelay = 0` | a decision is at a bar's end, which is the next opening: the queue is empty at the next decision |
| | `NewestApprovalsSettle` | `NewestApprovalSettles` | `NewestInv`: the queued order is the newest approval, so what it replaced had met no opening (`QueueInv`), and an outcome comes with an opening after which only newer approvals are made |
| | `ConsistentExposureIsNeverTrapped` | `ConsistentlyPricedExposureIsNeverTrapped`, assuming `Tradable` | the order that flattens is no larger than the position, is no smaller than a lot, and passes every veto |

**Sums.** Balances and sums over finite sets are recursive functions, which the library makes total
by `CHOOSE`. That such a function exists, and that it has the values the proofs use, is shown by a
least counterexample: the numbers (or the cardinalities) for which it fails have no least one, as
`<` is well-founded on `Nat`. That takes no induction theorem with an operator parameter.

**Assumptions.** An authorization id determines its order (it is a digest of the terms,
`governor.py:421`); times are naturals and prices positive (`OrderAssumption`). `None` is not a
context, a record, an operation, an episode, a generation, an order, a price, a mark, an error or
a reason (the `*Assumption`s of the modules). Callers, symbols and agents are finitely many. Saving a file is atomic (`temporary.replace(path)`). One `WeightProfileStore` object
serves a directory, which is what its lock covers; savers of the experience store may be several
processes. Episodes are finitely many, context providers offer disjoint capabilities (the
constructor of `ContextService` refuses others).

Some theorems have a hypothesis of their own. `PromptOrdersSettle` needs `MaxDelay = 0`, bars that
are available at their end: `MCEngineQueue` shows that the property is false otherwise.
`ConsistentExposureIsNeverTrapped` needs `Tradable`: fees and slippage within the policy's maxima,
and a lot at any price within its largest order; else no order is ever approved at that price.
`CallbacksStrictlyInOrder` needs `Unanswering`: the one handler of the repository, `enqueue`
(`app.py:762`), does not publish.

**Model-checked only.** Liveness (`PublishTerminates`, `Converges`, `OperationsEnd`) is
out of the prover's reach. What the runs of section 6 refute is false. Everything else that a
passing run checks is a theorem.

## 6. Findings

Two of the configurations are runs that state what the repository says and show that the code
does otherwise:

* `MCEngineReserve` (`AuthorizedFillsReconcile`): limits are checked with the position at its mark
  and the order at the last close, so an authorized order can fail post-fill reconciliation, which
  ends the replay (`engine.py:238`).
* `MCCacheUpgrade` (`StaleVersionIsRefreshed`): an artifact's path has no version in it. After an
  upgrade of the provider or of the file format the old artifact is a miss for `load`, and an
  obstacle that `store` refuses to overwrite (`cache.py:124-127`), now and on every later request;
  `docs/market-data.md` promises that a stale version is refreshed.

Five more were met on the way. Each has a configuration that shows it with TLC
(`tlc -config <name>.cfg <module>`), beside the runs:

* `MCEngineQueue` (`MCBacktestEngine`, `QueuedOrdersSettle`): with bars published late the queue
  is a variable that an approval between two openings overwrites; the replaced order stays
  *queued* in the ledger for ever (`engine.py:418`). `NewestApprovalSettles` states what holds all
  the same: nothing else is lost, and nothing that was replaced is acted on.
* `MCEngineTrapped` (`MCBacktestEngine`, `ExposureIsNeverTrapped`): a zero target can be vetoed
  when the capped order, sized at a close below the mark, would cross through flat
  (`governor.py:112`).
* `MCStreamStuck` (`MCEventStream`, `ResynchronizingIsUnderWay`): a gap found while a bootstrap is
  applied shows *resynchronizing* and requests nothing (`liveState.ts:54`).
* `MCScenarioRetry` (`MCScenarioOperations`, `AnsweredScenarioIsStored`): a scenario enters the
  table before it is written; when the write fails, a retry is answered with 201 from the table
  and the scenario is gone after a restart (`scenarios.py:250`), although
  `docs/historical-scenarios.md:50` says that the route stores it.
* `MCCacheRedundant` (`MCMarketDataCache`, `OnlyAbsentIsDownloaded`): when another fetch stores the
  missing parts between the look of `load_range` and that of `missing_ranges`, nothing is missing
  and the whole request is downloaded again (`cached.py:61-66`), although
  `docs/historical-scenarios.md:27-29` says that only absent ranges are.

In each case of the engine and the stream the neighbouring passing run shows the condition under
which the promise holds; for the cache, `raced` is that condition.

## 7. Not modelled

* The numbers of forecasts, scores, metrics, round trips and agents: floating-point statistics
  whose values no control depends on beyond the choices that the modules leave open.
* Parsing: rows of Kraken and of Freqtrade's files, context payloads, HTTP bodies and telemetry
  payloads. The modules take what the parsers admit.
* Corruption of files: digests and schemas are checked by the code at every read; the modules
  have the files that the code wrote.
* Two `WeightProfileStore` objects on one directory: the lock is of one object, and the API and the
  command line make one each.
* The filters of `query` and the rebuild of an index in `ExperienceStore`; the other REST routes,
  which are projections of tables; the external runtime of Freqtrade.
