# Verification of the gold signal system

The repository (`src/`) is an XAUUSD signal system: a FastAPI process that streams prices from
Capital.com, runs a signal pipeline once per cycle, stores recommendations, validates their
outcomes, executes them as broker orders and serves a dashboard. Paths below are relative to
`src/src/gold_signal_system/` unless they start with `src/`.

## Inventory

| Component | State it keeps | Operations | What is hard | What makes it correct |
|---|---|---|---|---|
| Broker execution (`capital_execution.py`) | rows of `execution_orders`, the broker session | execute a recommendation, process pending entries, refresh outcomes | threads of HTTP requests, of the background cycle and of the tick handler; lost answers; silent confirms; crash between two writes | a signal is submitted once, the position limit holds, the row tells what the broker did |
| API orchestration (`api.py`) | worker tasks, three locks, latest tick, status dictionaries | start, stop, supervise workers; cycles with retries; auto execution; backtest jobs | cancelled tasks whose threads run on; done callbacks; state read before an await | requests are answered, workers run exactly while the market is open, a stale price is not served as live |
| Live price stream (`capital_stream.py`) | websocket, session tokens, subscription | connect, ping, handle message, reconnect | reconnect loops, stop during connect | ticks in order, one at a time |
| Event bus (`event_bus.py`) | a bounded queue per subscriber | subscribe, publish, stream | full queues, subscribers that come and go | the newest events arrive in order, nobody blocks |
| Signal pipeline (`pipeline.py`, `strategy_brain.py`, `risk_engine.py`, `recommendation_builder.py`) | persisted recommendations | run a cycle, validate pending signals | gates evaluated twice; several cycles at once | a blocked signal is never recommended |
| Outcome validation (`outcome_validator.py`, `paper_trading.py`, `performance.py`) | outcome of each signal, statistics | walk the candles after the signal, take posted outcomes | several validators, a crash between writes, candles still forming, an entry persisted without its candle | an outcome is final and counted once |
| Execution control (`execution_control.py`) | control settings, recorded decisions | evaluate the gates on session, direction and vote relation; update settings | settings changed between evaluation and submission; evaluated twice per attempt | no order is submitted that the settings in force forbid; each decision is recorded as it was made |
| Optimization, walk-forward, start-up (`optimization.py`, `walk_forward.py`, `startup_state.py`) | profiles in memory and in a table, the rollback stack, thresholds | make candidates, activate, roll back, reload at start | memory, table and thresholds are written one after the other; the flag moves in two statements; ids are counted | the thresholds in use are those of the active profile; a rollback returns to the previous one |
| Ensemble weights, risk limits (`model_ensemble.py`, `dynamic_weights.py`, `model_runtime.py`, `risk_engine.py`) | weights configured and in force, the last ones of the adaptation, limits, three rows of settings | vote, adapt, post weights and limits, load at a start | cycles adapt the weights while they are replaced; memory and rows are written one after the other; a start loads them from two places | what the operator has set is what is in force, and what a restart loads |
| Market hours (`market_hours.py`, `market_sessions.py`) | none | is the market open, next transition | boundaries, week wrap, daily break | every minute has one state; the next transition is in the future |
| Data engine, providers (`data_engine.py`, `providers.py`) | candles | validate, aggregate, fetch with fallback | gaps and duplicates | incomplete candles never reach the pipeline |
| Technical analysis (`indicator_engine.py`, `market_regime.py`, `multi_timeframe.py`, `smc_engine.py`, `trade_plan_engine.py`) | none | read a chart, make and score entry plans, select one | three ways to compute a stop, four for targets, a scale per timeframe | stop, entry and targets are in the order a trade meets them |
| News (`news_intelligence/`, `news_filter.py`) | stories, macro events, analyses, one row with the state of the news | collect, post, analyse, aggregate, answer the cycle | collectors awaited one by one, an aggregate read in a thread and written later, analyses that expire | a blocking story blocks while it is valid, and no longer |
| Backtest jobs (`api.py`, `walk_forward.py`, `startup_state.py`) | rows of runs, their children, one list of trades, report folders | run for a user or for a market closure, time out, import reports at a start | threads that outlive their timeout, one list for all runs, status written before the results, ids a client may use again | a completed run has its results, and they are its own |
| Configuration, contracts, health, dashboard, forecast models | none, or data only | settings, text, I/O, numerical models | numerical | not modelled, see `PROJECT.json` |

How they interact. The price stream awaits `_publish_price_tick` for each tick; it runs
`refresh_execution_outcomes` and then `process_pending_entries` in worker threads
(`asyncio.to_thread`). The background task runs a cycle in a thread, and then
`_auto_execute_if_armed`; HTTP endpoints call the same `_execute_recommendation`, which holds
`broker_execution_lock` around the thread, while the tick handler takes no lock. The market
supervisor starts and cancels the background task and the price stream; a cancelled task leaves
its thread running, without the lock. All threads share `execution_orders` (PostgreSQL, one
statement per write, no transaction around a submission) and the broker account.

Signal cycles run in worker threads under `cycle_execution_lock`, with two exceptions: the
validation of pending signals runs a cycle on the event loop, and a backtest replays cycles in a
thread of its own, both on the same storage object and the same model engine and without the
lock. Cycles read the state of the news from the table the news handlers write, and the
market supervisor starts a backtest for each closure of the market.

## Modules

| Module | What it is |
|---|---|
| `CapitalExecution` | the broker execution path, its callers and the order table |
| `MCCapitalExecution` | the module instantiated for TLC, with the symmetry of equivalent threads |
| `CapitalExecutionProofs` | the inductive invariants and the theorems of `CapitalExecution` and of `OrderOutcomes` |
| `OrderOutcomes` | `CapitalExecution` composed with the outcome columns and their refresh |
| `OutcomeValidation` | the outcome of a recommendation: the walk over the candles, the writes of a cycle, posted outcomes |
| `MCOutcomeValidation` | the module instantiated for TLC, with the shapes of candles |
| `OutcomeValidationProofs` | the inductive invariants, the lemmas about the walk, and the theorems |
| `SignalPipeline` | one signal cycle, from the rows of the provider to the gates of execution |
| `DataQuality`, `MarketAnalysis`, `SmartMoney`, `TradePlans`, `StrategyGates` | the operators it is made of: candles, chart, SMC setup, entry plans, judges |
| `MCSignalPipeline` | charts, ballots and judges for TLC |
| `SignalPipelineProofs` | lemmas about plans and evaluations, the invariant of a cycle, the theorems |
| `SignalCycles` | cycles beside each other: lock, retries, ids, the shared storage and model engine |
| `SignalCyclesProofs` | the inductive invariant and the theorems |
| `BacktestJobs` | backtests of users and of market closures, their threads, rows and reports |
| `BacktestJobsProofs` | lemmas about the trading week and the list of trades, the inductive invariant and the theorems |
| `MarketHours` | the trading week with its daily break |
| `NewsIntelligence` | the news service: handlers on the event loop beside the cycle thread |
| `NewsAnalysis`, `NewsState` | what one story means; the state made from the active analyses |
| `MCNewsIntelligence` | stories, events and provider answers for TLC |
| `NewsIntelligenceProofs` | lemmas about sums and extremes, the inductive invariant and the theorems |
| `LiveWorkers` | the tasks that make the system live: supervisor, background cycle, price stream, restart, shutdown; the status of the price |
| `LiveWorkersProofs` | the inductive invariant and the theorems |
| `ProfileHistory` | abstract: activations and rollbacks as an undo history |
| `OptimizationProfiles` | the strategy profiles in memory and in the table, and the thresholds; implements `ProfileHistory` |
| `OperatorSettings` | `OptimizationProfiles` composed with the weights of the models and the risk limits: requests, cycles that adapt the weights, the start that loads all of it |
| `OptimizationProfilesProofs` | the inductive invariants, the theorems and both refinements |

### CapitalExecution

A *thread* is one `asyncio.to_thread` call. Executors (`Manual`: HTTP endpoints; `Background`:
the background cycle) run `execute_recommendation`; `Tickers` run the tick handler. A step of a
thread reaches from one write or broker call to the next, so everything that can happen between
two of them is an interleaving of the model.

| State | Code |
|---|---|
| `row[s]` | `execution_orders.status` of the row with key `capital-signal-<s>`; `NONE` when there is no row |
| `pc`, `sub`, `price`, `todo`, `verdict` | the local variables of the running call: program point, signal, price it was given, rows listed and not handled, the broker's answer |
| `lock` | `broker_execution_lock` |
| `detached` | threads whose asyncio task was cancelled |
| `positions`, `deals` | the broker's account |
| `uncertain`, `raced`, `cancels`, `crashes` | history, for the properties |

`create_execution_order` upserts by the idempotency key and `update_execution_order` updates by
it; for the status both are `Write`. `Request`, `Begin`, the `Gate*` actions and `Finish` are
`_execute_recommendation` and `execute_recommendation`; `SubmitRaises`, `SubmitBlocked`, `Reserve`,
`Post*`, `Record*`, `Confirm*` are `_submit_market_order` and the client's calls; `Tick`,
`ListPending`, `Pend*`, `EndTick` are `_publish_price_tick` and `process_pending_entries`;
`CancelBackground`, `CancelStream` are `_stop_live_workers`; `Crash` is a restart of the process.

Abstractions. A price is one of `away` and `near` (outside or inside
`capital_execution_max_price_deviation` of the entry) or `none`; the levels are shared by the
signals. A gate that does not look at the price reads settings, a clock and the control unit,
which change at any time: any evaluation may refuse. The broker decides when it receives the POST;
its confirmation may be late, empty or raise. A POST without a `dealReference` may or may not have
opened the position. The outcome columns and the deal ids, which nothing in this path reads, are in
`OrderOutcomes`. Not modelled: the account snapshot, the size of an order, positions opened by hand, more than 200 pending rows (the page of
`process_pending_entries`), and storage that raises.

### OrderOutcomes

`OrderOutcomes` extends `CapitalExecution`: each of its steps is one of the execution together with what that
step writes to the other columns of the row, or a step of `refresh_execution_outcomes`. The tick handler
refreshes before it lists the pending entries; the endpoints (`Readers`) refresh in threads of their own.

| State | Code |
|---|---|
| `outcome[s]` | the outcome of the order: PENDING, WIN or LOSS |
| `deal[s]` | which of `deal_reference` and `deal_id` are not NULL |
| `kept[t]` | the columns a ticker listed with its pending rows and upserts again |
| `due[r]`, `won[r]` | the orders a refresh has listed and not written, and those whose target its price has reached |
| `redone` | history |

`Upsert` is `create_execution_order` (a NULL id keeps the stored one, the outcome is replaced), `SetId` is
`update_execution_order` (a NULL id replaces it), `List`, `Judge` are the refresh. `losses` and `wins` are what one price says
of each signal's levels, so that neither levels nor prices are needed. A row whose levels are not hit is written back
without a change of its outcome, which is no step. `MaxMishaps` bounds cancellations and crashes together.

### OutcomeValidation

A *run* is one `validate_signal_outcomes`, from the moment its cycle reads the candles to its last
write; a *poster* is one `POST /api/paper/outcome`. Cycles overlap: `_run_cycle_with_retries`
holds `cycle_execution_lock`, but `_validate_pending_signals` (`api.py:867`) runs a cycle without it,
and a cancelled task gives it up while its thread goes on. A step reaches from one statement of the storage to the next.

| State | Code |
|---|---|
| `chart`, `oldest` | the candles of the cycle timeframe, and the first one the cycle still gets (`CandleStore.get(limit=300)`, a restart) |
| `born[s]` | `signal_time`: the last candle of the cycle that made the signal |
| `status[s]`, `entered[s]` | `outcome_status` and `entry_triggered` in the recommendation's `raw_json` |
| `rows[s]`, `counted[s]` | rows of `signal_outcomes`; calls of `record_model_outcome` |
| `pc`, `window`, `listed`, `sub`, `verdict` | program point, candles, recommendations listed and not handled, signal and outcome at hand |
| `overlap`, `posted`, `changed`, `posts`, `faults` | history and bounds |

`Start`, `Recommend`/`Hold`, `List`, `Judge`, `Save`, `Count`, `Finish` are the end of
`run_signal_cycle` in the order of its statements; `Validate` and the operators it rests on are
`SignalOutcomeValidator.validate`; `PostSave`, `PostUpdate`, `PostCount` are `ingest_paper_outcome`;
`Widen` is the upsert of a bucket that is still forming. A write that fails (`ok` false) is tried
once more, which may insert two rows or none, and its caller goes on. `Crash` loses the actors and
keeps the tables.

Abstractions. A BUY and a SELL are one trade: prices are positions along its direction, with the
stop, the entry, the first target and the other two targets (both a WIN) as four levels. Times are
indices of candles, and a signal expires `Life` candles after it was made. Not modelled: the moves,
prices and risk multiples stored with an outcome, HOLD recommendations (they become NO_TRADE at
once), recommendations without a target (where the code takes the entry for it), the fall-back
to the source timeframe when the cycle timeframe has fewer than 40 candles, and storage whose
reads raise.

### SignalPipeline

The stages of `run_signal_cycle` are the actions, in their order: `Clean` (candles and data quality), `Analyse`
(snapshot, SMC, calendar), `Vote` (models and ensemble), `Decide` (timeframes, news, first evaluation, gates),
`Plan` (candidates, selection, risk, second evaluation, the gates that are repeated), `Build` (data quality gate,
`RecommendationBuilder`, readiness) and `Execute` (control unit and preflight). What a stage reads from outside
is a choice among the CONSTANTS; what a later stage reads of it is a variable with the name it has in the code.

| Operators | Code |
|---|---|
| `DataQuality` | `clean_candles`, the quality report and its blocking reasons |
| `MarketAnalysis` | indicator snapshot and structure, regime, confirmation by other timeframes |
| `SmartMoney` | liquidity levels, sweeps, fair value gaps, draw on liquidity |
| `TradePlans` | entry, stop, targets, score and selection of the six entry types |
| `StrategyGates` | ensemble, both evaluations of the strategy, risk checks, status of the builder, calendar |

Abstractions. A price is a number of ticks from the last close; a chart gives the last candles and the averages
and oscillators computed from more of them; the ATR is 20 ticks times the scale of the chart. Confidence, weights and ratios
are whole percents, or hundredths and thousandths where the code compares finer than that. Not modelled: texts and
payloads, the indicators' formulas, the models behind the votes, time zones, and the drift of the ensemble's weights.

### SignalCycles

What a cycle decides is left out: a cycle is known by its process. Requests run in worker threads
under the lock, `Validations` on the event loop, `Jobs` in threads, `Readers` are handlers that
ask for the latest recommendation. A step reaches to the next statement or await; code on the event loop is
uninterrupted there, while threads go on.

| State | Code |
|---|---|
| `pc`, `attempt`, `rec`, `picked` | local variables: program point, attempts of `_run_cycle_with_retries`, id of the saved recommendation, id the reader has fetched |
| `lock`, `abandoned`, `loop` | `cycle_execution_lock`, threads whose task was cancelled, who occupies the event loop |
| `rows`, `snapshots` | `trade_recommendations`, `signal_snapshots`: the cycle each id's row is of |
| `listed`, `lastId`, `plans` | the list in memory, `_last_recommendation_id`, the entry plans by id |
| `weights` | who has set the weights of the model engine last |
| `shared`, `astray`, `repeated`, `fellBack` | history: cycles beside others, cycles that took something of another, a repeated INSERT, a failed INSERT |

### BacktestJobs

A job is `<<run, kind, n>>`: the id it works under, who asked for it (a closure, or a client for a BACKTEST or a
WALK_FORWARD) and a number. Jobs are told apart from runs because a run's id is no one's own: `_run_backtest_job_sync` takes
the client's `run_id` as it is (`api.py:1335`), which may be one that exists, one that is at work or the key of a closure, and
`_next_backtest_run_id` (`:1243`) is a second and a count read without a lock. Any number of jobs, one after the other or
at once, may therefore write the rows of one run.

A job waits for one of `Workers` threads, creates the row of its run or takes over the one that is there, replays its
folds, marks the row COMPLETED and writes trades, metrics and reports, one statement per step. `Trigger`, `Answer` and
`Timeout` are `_trigger_market_close_backtest` and `wait_for`; a thread goes on after its timeout, while a job that still
waits for one is taken back. `Restart` is `bootstrap_runtime_state`: RUNNING rows become INTERRUPTED and reports are
imported. The clock (`now`) passes through `Instants`, and `market_hours_state` of `MarketHours` gives the closure each is in.

| State | Code |
|---|---|
| `lastKey`, `task` | `last_market_close_backtest_key`, the job `market_close_backtest_task` waits for |
| `threads` | the local variables of the jobs: program point, folds, trades made and taken |
| `pool` | `storage.backtest_trades`, the list all replays append to, with the run_id under which a trade was saved |
| `status`, `summary` | `backtest_runs`: status, and the job and number of trades of `summary_json` |
| `trades`, `metrics` | `backtest_trades`, and the other rows of a run (metrics, folds, reports): the jobs they are of |
| `folders`, `copies` | report folders, rows imported from folders |
| `begun`, `cut`, `met`, `mixed`, `doubled` | history: jobs begun; jobs whose thread died or could not note its failure; jobs that ran beside another one on their run; walk-forward jobs that replayed while another thread changed the list or were given another run's trades; jobs whose INSERT was repeated |

`DeleteTrades` also filters the list in memory and appends to it, as `save_backtest_trades` does; what others append while it filters
may be lost. A walk-forward job reads its trades from the tables of the service, which are keyed by the run id and, before, by
`len(self.runs) + 1` (`walk_forward.py:70`), so jobs that replay at once may share a number: `CollectFolds` lets any
of them receive what another one collects, which is more than the code does.
Not modelled: what a replay trades (a job of an id in `Quiet` finds none, any other none or one of `Finds` per fold), the content
of metrics, and what a replay does to the live tables (`SignalCycles`).

### NewsIntelligence

A handler holds the event loop except while it awaits a collector; the signal cycle aggregates in its thread,
with its read (`CycleReads`) and its upsert (`CycleWrites`) between any two statements of a handler. Any statement may fail.

| State | Code |
|---|---|
| `stories`, `events`, `analyses` | `news_items`, `macro_events`, `news_ai_analysis` |
| `row` | the row of `strategy_news_state` |
| `handler`, `cycle` | where a handler or the aggregation is, and what it has read |
| `now`, `faults` | the clock, and a bound |

`CollectRunNow`, `CollectorAnswers`, `CollectorFails`, `SaveNewsItem`, `SaveAiAnalysis` are `collect_run_now` in
its order; `AnalyzerFails` is an analyzer that answers with nothing (`ai_analyzer.py:161`), after which the next story is taken; `ManualNews`, `ManualMacroEvent`, `SaveMacroEvent`, `UpdateMacroActual` the posted ones; `HandlerReads`,
`HandlerWrites` the aggregation at the end of each. A text is the set of keyword groups found in it (`NewsAnalysis`).
Not modelled: the health of sources, the texts and hashes of stories, the risk window the dashboard shows, and
`validation.py`, whose evaluation is called by nothing.

### LiveWorkers

Everything runs on one event loop, so a step reaches from one await to the next. A cancelled task
ends later, when its clean-up is done; meanwhile whoever awaits it is suspended.

| State | Code |
|---|---|
| `supervisor`, `shutdown` | where `_market_supervisor_runner` and `shutdown_event` await: the timer, a cancelled `cycle`, a cancelled `stream`, the supervisor |
| `cycle`, `cycles` | `background_cycle_task`, and what became of every background task |
| `stream`, `streams` | `price_stream_task`, and the state of every stream task |
| `restart` | `_restart_background_cycle_after_failure`; `due` once the supervisor sleeps longer than the second it waits |
| `status`, `tick` | `latest_price_stream_status`, and whether `latest_price_tick` is from before a pause |
| `open` | `market_hours_state(runtime).is_open` |
| `swallowed`, `failures` | history and bound |

`Wake` is one round of the supervisor; `Stop`, `CycleStopped`, `StopStream`, `StreamStopped` are
`_stop_live_workers` from await to await, for both of its callers; `Shutdown`, `SupervisorEnded` are
`shutdown_event`; `Authenticate`, `Subscribe`, `Reconnect` are `stream_forever` and `_connect_once`;
`Tick` is the first half of `_publish_price_tick`. `StreamStopped` also marks the last tick as old: the
code leaves it where it is.

Assumed settings: the market pause, the background cycle and the live stream are enabled. Not modelled:
the cycle inside the background task (`SignalCycles`, `OutcomeValidation`, `CapitalExecution`), the backtest a
closed market triggers (`BacktestJobs`), health records, the ping task.

### OptimizationProfiles

`start`, `activate` and `rollback` of `ThresholdOptimizationService` are called by endpoints that run
on the event loop without an await, so each is one step. A statement of the storage that raises cuts the
operation where it is; a crash in the middle of one is such a cut followed by `Restart`.

| State | Code |
|---|---|
| `rows`, `flags` | `optimization_profiles`: `parameters_json` by `profile_id`, and the rows with `is_active` |
| `profiles`, `stack` | `self.profiles`, `self.rollback_stack` |
| `thresholds` | the profile given to `strategy_brain.set_threshold_profile`, or those of the environment (`Runtime`) |
| `made`, `faults` | history and bounds |

`Candidate` is one candidate of `start`: appended to memory, then saved by an upsert, which also clears the
flag of the row. `Activate` and `Rollback` are the services with their endpoints; `Cuts` says how far
`set_active_optimization_profile` came. `Restart` is the constructor followed by `bootstrap_runtime_state`.
`profiles` keeps ids, parameters and flags; a set of parameters is a number.

Assumed: PostgreSQL storage, and a first start that has saved the default profile. Not modelled:
`optimization_runs`, `optimization_profile_versions` and `optimization_rollbacks`, which nothing here reads
back into a profile, and names and dates.

`ProfileHistory` is what a user of the two endpoints relies on: `active` and the way back. Under the mapping
`active` is the id of the active profile in memory, `past` is the stack, and `broken` says that a statement
has failed, after which nothing is promised.

### OperatorSettings

`OperatorSettings` extends `OptimizationProfiles`: a request about profiles, or a step about the other settings, or
a start of the process, which loads both. A handler occupies the event loop until it returns; the threads of cycles run
beside it, and a step of theirs reaches to the next statement or assignment.

| State | Code |
|---|---|
| `configured`, `engine`, `last` | `configured_model_weights`, `model_engine.model_weights`, `_last_effective_weights` of the adaptation |
| `limits` | `risk_engine.limits`: the fields that differ from `RiskLimits()` |
| `weightsRow`, `limitsRow`, `stateRow` | `system_settings` under `model_weights.active` and `risk_limits.active`, the active row of `model_weight_profiles` |
| `handler` | the next assignment or statement of `POST /api/settings/model-weights` |
| `step`, `base`, `result` | the local variables of a cycle that weighs: where it is, the weights it started from, those it came to |
| `torn` | history: settings whose last POST met a cycle, a failing statement or a crash |
| `posted`, `lapses`, `calls` | bounds |

`PostWeights`, `ReplaceEngine` and `ForgetLast` are the three assignments of the POST (`api.py:1551`), between which the thread
of a cycle may begin; `Meet` notes such a cycle in `torn`. Weights are known by their origin, the set of the posted weights that went into them: `Calculated` is the adaptation, in which
a model keeps its configured weight or moves a small step from its last one. `Reuse` is the cycle on bad data, and also
`record_model_outcome`, which moves the weights in force. `Start(fails)` is the constructor followed by the bootstrap
with the statements that fail; the constructor and the bootstrap both ask for the active weights, and an answer of
"nothing" is not told from an error. `calculate` reads and writes `last` in one step. Not modelled: the numbers,
the bounds of a model (`PUT /api/models/weights/profile` keeps them in memory only), other fields of the settings.

## Properties and runs

Bounds: `MaxDeals` (positions the broker opens for one signal), `MaxCancels` (tasks cancelled over
their running thread), `MaxCrashes`. They bound what the environment does; the code's own
`MaxOpen` is the configured default, 1.

| Run | Instance | What it shows |
|---|---|---|
| `execution_races` | a market and a planned signal, two requests, one ticker, `MaxDeals` 2 | `LockProtectsMarketEntries`: the lock keeps claimed rows of market entries from being overwritten. `OvershootBounded`: an executor and a ticker can both count before either posts, so the account exceeds the limit by one, never by two; four possible positions make the bound meaningful |
| `execution_restart` | one planned signal, a request, the background cycle, a ticker, one cancellation, one crash, all price levels | `ResubmittedOnlyIfExcused`, `ClaimsAreKept`, `ConfirmedMeansOpened`, `EveryDealAudited`: what the row still guarantees after lost answers and restarts |
| `execution_live` | the same threads, one cancellation, weak fairness of started threads, strong fairness of the lock | `RequestsAnswered`, `ReadyResolves` |
| `orders` | one planned signal, the background cycle, a ticker, a reader, one mishap (a cancellation or a crash) | `FirstHitStands`: a settled outcome becomes its opposite only by a refresh that had listed the order before, or by the tick handler writing an entry back. `OutcomeGoesWithItsAttempt`: the submission clears an outcome only for a new or a failed attempt |
| `outcome_walk` | a limit order, one run, charts of 4 candles of 6 shapes, `Life` 2, one candle widened or some forgotten, one fault | `OutcomeIsFirstPassage`: an outcome put together over several validations is the one the whole chart gives by definition, unless a candle before the entry reached a level. `SavedOnce`, `FinalRowExists` |
| `outcome_races` | a market order, two runs, a poster with a final and a non-final outcome, one fault, `Life` 1 | `CountedFromRow`, `FinalStays`, and `Settles`: whatever overlaps, fails or crashes, every recommendation gets an outcome for good |
| `decisions` | ten charts, one of them with fewer than 30 candles, with and without an SMC setup; every combination of feeds, contexts, ballots, calendars, timeframes, news, controls and allowed statuses | `ActionableOnlyIfClear`: an executable recommendation had no veto from any judge, although the second evaluation replaces the first and only two vetoes are repeated. `PlanIsOrdered`. `NoSellIsExecutable`: see the findings |
| `cycles` | any three of two requests (one of them of the background runner), a validation, a backtest and a reader; two attempts, one fault, one crash | `LockIsHeldWhileWorking`, `SnapshotIsOfItsRow`, `AloneIsAttributed`, `OneRecommendationPerRequest`: what cycles may take of each other, and what retries leave |
| `jobs` | a daily break and the weekly close after it (instants 92, 93, 117 in hours), a closure that trades and one that does not, a BACKTEST a client posts with the id of the first closure, two worker threads, one mishap | `OneThreadPerClosure`, `CompletedIsWhole`, `TradesAreItsOwn` over jobs that use one run one after the other or at once, and `ClosureIsAnswered`: a closure that lasts gets its job answered, even if a thread hangs |
| `news` | two handlers, one source, a CRITICAL story, a HIGH event, an unfit provider answer, three analyses, `Limit` 2, three instants, one failing statement | `ServedIsAlive`, `AnswerHeedsTheNews`, `CollectedIsAnalysed`: the state of the news between handlers and the cycle thread |
| `workers` | three background tasks, two streams, two failures, any number of openings, closings and reconnections | `NoOrphan`, `StatusIsTrue`, `PausesWhenClosed`, `ResumesWhenOpen`, `ShutdownEnds` |
| `settings` | three profiles, a stack of two, one failed statement about a profile; one cycle, two posts of weights, one field of the limits, two failing statements about settings; four requests or restarts | `UndoHistory`: the profiles implement `ProfileHistory`, also composed with the rest. `ThresholdsFollow`, `ProfilesPreserved`. `WeightsAreConfigured`: no weights of before a POST are in force or come back after it, unless it met a cycle or was cut short. `SettingsSurvive`: a restart loads what is in force |

The bounds of the outcome runs: `MaxCandles` and `Life` leave room for a candle before the entry, the
entry, one after it and an expiry; `Recommend` is bounded so that the chart passes the expiry, or
`Settles` would fail for the end of the chart. `MaxChanges` bounds candles widened or forgotten,
`MaxPosts` posts, `MaxFaults` crashes and failed writes: one of each is what a hazard needs. Runs
are not bounded.

The bounds of `workers`: one task runs, one may still be awaited and a third replaces one that failed, so
three names suffice, and two for streams, because a stream is awaited before the next one starts.
`MaxFailures` is 2 so that the task of a restart can fail as well.

The bounds of `settings`: three profiles and a stack of two let an activation and a rollback meet a candidate made
between them, and one more set of parameters than ids lets a saved profile be overwritten. Two posts of weights
tell the second from what the first left; one cycle is enough to carry weights over a POST, and a second one would only do the
same. Four requests or restarts are a POST, a cycle's share in it, a second POST and a restart; two failing
statements reach a start that can read neither of the two places the weights are kept in.

The bounds of `orders`: the hazard is one row between three writers (a submission, a ticker, a reader), so one signal
is enough; a mishap of each kind occurs, but not both in one behaviour. A request beside the background cycle
would only double the submission, which `execution_races` covers.

The bounds of `decisions`: a cycle is seven steps, so nothing is cut off; the choices are the bound. The ten charts reach every
regime that can be reached, every structural bias, each side of each sweep and a setup around the price; the ballots
reach agreement, conflict, abstention and each side of the two thresholds.

The bounds of `cycles`: each hazard is two processes around one shared variable, and the third one reads or writes
between them; a second fault would only use up the attempts, which one fault and a crash do as well.

The bounds of `jobs`: the two closures and the client's run are three writers of one list, and the client's run shares its rows with a closure,
before, after or beside it; a second id of a client's own would only have rows nobody shares. Two workers are what it takes for two jobs to run at once
while a third one waits. A fold of one trade (`Finds`) or none tells the
trades of two jobs apart, and so does the length of what is taken from the list. One fold per closure lets another job replay inside it. One mishap cuts a job at any of its statements.

The bounds of `news`: three analyses under a limit of two push one out of sight; three instants let an analysis
end before, during and after an aggregation; two handlers and the cycle interleave their reads and writes.

Why the bounds of the execution runs are enough: each hazard needs two threads over one row (an executor and a ticker,
or two executors after a cancellation), one lost answer, one crash and a second position; each run
contains those it is about. One more signal only adds an independent row, except for the position
limit, which is why `execution_races` has two.

Fairness. A started thread runs: each broker call has a timeout and each statement of the storage
ends. `asyncio.Lock` wakes its waiters in order, so a waiter that finds it free again and again
gets it (strong fairness of `Begin`). Requests, ticks, cancellations, crashes and the broker
closing a position are not fair: nothing forces them. `Settles` assumes that the market goes on
printing candles, that cycles go on running (`_background_live_cycle_runner` repeats and survives any
exception of a cycle) and that a started post ends; crashes, failures and posts are bounded, not fair. In `LiveWorkers` timers
fire, cancelled tasks end and awaits return (weak fairness); the market, ticks, failures, reconnections
and the shutdown are not fair. In `BacktestJobs` only the supervisor's round and the
answer or the timeout of `wait_for` are fair: they are on the event loop, while a worker thread may hang. `PausesWhenClosed` and `ResumesWhenOpen` are about a market that stays
closed or open long enough, with no shutdown.

## Proofs

`CapitalExecutionProofs` proves, for any sets of signals and threads and any bounds, from the
assumptions named in `CapitalExecution` (ids and threads are distinct from their null values,
executors are not tickers, the limit is positive):

| Theorem | Property | Inductive invariant |
|---|---|---|
| `TypeCorrect` | `TypeOK` | `ThreadInv`: a busy thread has a signal, and only executors wait and gate |
| `DealsAudited`, `ConfirmationsTrue` | `EveryDealAudited`, `ConfirmedMeansOpened` | `AuditInv`: past `Reserve` the row is written, and a verdict `opened` in a thread's hands is true |
| `SubmittedOnceUnlessExcused`, `ClaimsKept` | `ResubmittedOnlyIfExcused`, `ClaimsAreKept` | `ClaimInv`: for a signal without an excuse, a row is claimed from `Reserve` on and one thread at most is on its way to the broker |
| `LockProtects` | `LockProtectsMarketEntries` | `LockInv` and `MarketInv`: the one attached executor past `Begin` holds the lock, tickers only handle planned entries, and the row an executor gates for a market entry stays unclaimed |
| `Overshoot` | `OvershootBounded` | `LimitInv`: each thread between the count and its POST has left room for itself, and there are two at most |

`OutcomeValidationProofs` proves, for any sets of signals, runs and posters, any charts and any bounds,
from `SetAssumption`, `NatAssumption` and `FiniteAssumption`:

| Theorem | Property | Inductive invariant |
|---|---|---|
| `CountsHaveRows` | `CountedFromRow` | `OwingInv`: counted outcomes and actors between their row and their count are no more than the rows, in every interleaving |
| `FinalOutcomesStay` | `FinalStays` | `AloneInv`: without overlap one actor is at work, and what it has listed is not final |
| `OutcomeSavedOnce`, `FinalOutcomesRecorded` | `SavedOnce`, `FinalRowExists` | `LedgerInv`: a signal is open, closed, or in the hands of the one run that has its row or its count to write |

These use no fact about `Validate`: the bookkeeping is right whatever the walk says. What the walk says is the last theorem,
which adds the walk's own lemmas to them:

| Theorem | Property | Inductive invariant |
|---|---|---|
| `OutcomesAreFirstPassages` | `OutcomeIsFirstPassage` | `PassageInv`: while no two actors overlapped and no candle was changed or forgotten, every window is a prefix of the chart; a persisted entry is the first candle of the chart that touches it, and lies inside the window of every active run; and a final status is `Told` by the chart: by an entry candle and the first candle from there that ends the trade, by a deadline passed without an entry, or by a candle before the entry that tempts |

`OutcomeIsFirstPassage` alone is not inductive: a run that starts from a persisted entry reads a walk that is only right because an
earlier run saw that entry in a shorter chart. `Told` is what survives a longer chart. `Walk` is a recursive function of the
index of a candle, and the library's induction theorems cannot be instantiated by the provers, so both the
existence of that function (`WalkExists`) and what it returns (`WaitsForEntry`, `EntryStays`, `WaitsAgain`,
`FollowsTrade`) are proved by the least index at which they would fail; `LeastNatural` gets it from
`FS_StrictSubsetOrderingWellFounded` and `WFMin`. The first attempt at `CloseSays` failed for a good reason: `Close` was a `CASE` whose
guards overlap (a candle can reach the target and the stop), which TLA+ leaves undetermined although TLC takes the
first; it is now the chain of `IF`s that the code has.

`LiveWorkersProofs` proves, for any sets of tasks and any bound, from `WorkerAssumption` and
`BoundAssumption`:

| Theorem | Property | Inductive invariant |
|---|---|---|
| `TypeCorrect` | `TypeOK` | itself |
| `NothingOrphaned` | `NoOrphan` | `CycleInv`: before the shutdown no restart is under way while the supervisor awaits a background task, because a restart that is still pending has its failed task in the variable, and a stop that meets a failed task raises; `StreamInv` |
| `StatusTrusted` | `StatusIsTrue` | `StreamInv`: only `stream` lives, and a closed status means there is none; LIVE is written together with a tick, and every pause that marks the tick as old has changed the status before |

`NoOrphan` speaks of background tasks only until a shutdown begins, and has to: a restart that fires while
the shutdown awaits the task is forgotten by the assignment of None that follows.

`OptimizationProfilesProofs` proves, for any bounds, from `BoundAssumption` and `SettingsAssumption`:

| Theorem | Property | Inductive invariant |
|---|---|---|
| `ThresholdsFollowProfile` | `ThresholdsFollow` | `Clean`: as long as no statement has failed, the rows are `1..n`, memory is their image (`Mirrored`), one row is active, and the stack holds saved ids |
| `SavedProfilesPreserved` | `ProfilesPreserved` | the same: the next id is `n + 1`, which no row has |
| `ImplementsHistory` | `UndoHistory` | the same: what is pushed and popped is in memory, so every step is a step of `ProfileHistory` or a stutter |
| `SettingsImplementProfiles` | `SettingsSpec => Spec` | every step of `OperatorSettings` is one of `OptimizationProfiles` or leaves its state alone, so the theorems above hold of the composition |
| `WeightsStayConfigured` | `WeightsAreConfigured` | `Whole`: while `weights` is not torn, the engine, the adaptation, the base and the result of each cycle under way and the rows have the configured weights as their only origin, up to the statement the handler has reached |
| `SettingsAreSaved` | `SettingsSurvive` | the same, and the row of the limits equals the limits while they are not torn |

`Mirrored` is needed because the new id is a length: only a table without gaps makes it a free one. After a
failure the rows may have gaps, and nothing is promised. `Whole` speaks of cycles under way because a cycle writes
back what it read before: the property, which looks at the variables in force only, is not inductive.

`SignalPipelineProofs` proves, for any charts, ballots, calendars, contexts, limits and thresholds, from
`ChartAssumption`, `BallotAssumption` and the assumptions on the thresholds:

| Theorem | Property | Argument |
|---|---|---|
| `ActionableIsClear` | `ActionableOnlyIfClear` | `CycleInvariantHolds`: each stage leaves to the next ones what it has decided, so the vetoes that are not repeated are found again in the inputs of the second evaluation |
| `StructuralPlansOrdered` | `PlanIsOrdered` | lemmas about one plan: the stop is behind the entry, the first target ahead of it, each further target ahead of the one before, for each entry type and direction |
| `SellsAreBlocked` | `NoSellIsExecutable` | the order of a SELL plan is what the last risk check refuses |

The last part of `CapitalExecutionProofs` is about `OrderOutcomes`; it proves, for any sets of signals, threads and readers
and any bounds:

| Theorem | Property | Argument |
|---|---|---|
| `ImplementsExecution` | `OrdersSpec => Spec` | every step is one of `CapitalExecution` or leaves its state alone, so all its theorems hold of the composition |
| `SettledByTheFirstHit` | `FirstHitStands` | an order that is due and not redone still has the outcome it was listed with |
| `OutcomesGoWithAttempts` | `OutcomeGoesWithItsAttempt` | the gates and `Reserve` overwrite a claimed row only where `raced` records it |

`SignalCyclesProofs` proves, for any sets of requests, validations, jobs and readers and any bounds, from
`ActorAssumption`:

| Theorem | Property | Inductive invariant |
|---|---|---|
| `TypeCorrect` | `TypeOK` | itself: the types, and the points each kind of process can be at |
| `LockFollowsWork` | `LockIsHeldWhileWorking` | `LockInv`: a thread its task has left behind works or has ended, so it never takes the lock again |
| `SnapshotsFit` | `SnapshotIsOfItsRow` | `SnapshotInv`: a cycle on its way to the snapshot holds the id of its own row, and what is kept under an id is of the cycle of that row, or of one whose INSERT failed |
| `OneRowPerRequest` | `OneRecommendationPerRequest` | `RowInv`: before its INSERT a cycle has no row, whichever attempt it is at |
| `AloneIsSafe` | `AloneIsAttributed` | `AloneInv`: of two processes that are busy both are noted; a cycle that is not noted finds its own weights and its own id in the shared variables |

`BacktestJobsProofs` proves, for any hours, instants, ids, posts, workers, numbers of folds, trades and mishaps, from `HoursAssumption`,
`RestAssumption` and `JobsAssumption`:

| Theorem | Property | Inductive invariant |
|---|---|---|
| `ClosureIsContiguous` | | arithmetic of days and weeks: a closure is an interval that starts at its key, weekly closures and breaks do not leave and enter each other, so a key does not come back after another one |
| `ClosuresAreAlone` | `OneThreadPerClosure` | `ThreadInv`: a job of a closure is of the one noted last, or of one that is past; by `ClosureIsContiguous` a closure that is triggered has no job at work |
| `OnlyPostsMeet` | | `MetInv`: of two jobs at once on one run one was posted, since a closure has one job; so timeouts, retries and restarts alone never make two jobs mix their rows |
| `CompletedRunsAreWhole` | `CompletedIsWhole` | `RowInv` with `Stands`: a COMPLETED run has all it needs of the job in its summary, or that job is past its COMPLETED and goes on to write it; another job can have come between only if the two met |
| `StoredTradesAreOwn`, `BacktestsStoreTheirOwn` | `TradesAreItsOwn` | `PointInv`: while a walk-forward run replays and no other thread has changed the list, the last `made` items of the list are its own (`OwnEnd`); what is taken has the length the summary gets; the trades an earlier job left under the id are deleted before the INSERT; and a run that is COMPLETED while a job works on it is of that job or of one it has met |

`RestAssumption` says that a daily break is no longer than the weekend. The defaults of `config.py:160` give an hour and two
days, and no break unless it is enabled, but nothing checks the settings, and the theorem needs it: with a break of 23 hours and a weekend of two,
the break's key comes back after the weekend's. The supervisor remembers one key, so it starts the break's job again while the
thread of the first one, which timed out before it had a row, is still at work; TLC finds that behaviour when the assumption is left out.

`ClaimInv` is needed because the property alone is not inductive: a second POST is prevented by the
row, not by the number of positions, so the invariant follows the claim through every thread that
may still write it.

`NewsIntelligenceProofs` proves, for any handlers, stories, events, provider answers and bounds, from
`ItemsAssumption` and `LimitAssumption`:

| Theorem | Property | Inductive invariant |
|---|---|---|
| `ServedStateIsAlive` | `ServedIsAlive` | `DrawnInv`: what a handler or the cycle has read are rows of the table, however long it keeps them; `RowInv`: the row is the neutral one or ends with an analysis that counts |
| `AnswersHeedTheNews` | `AnswerHeedsTheNews` | `CycleInv`: the rows the cycle holds are still what its query selects from the analyses there were when it read, at the time it read |
| `CollectionsAreAnalysed` | `CollectedIsAnalysed` | `FetchedInv`: a story fetched that is relevant enough is in the batch, in hand with its row stored, or analysed |

`ItemsAssumption` says that a relevance or an impact is one of the words of `models.py`, as its validators see to, and that
validities are natural numbers. Each of the three properties looks at the moment of a write or of a read; the invariant has to
say what is true in between, while the table grows under the rows a thread carries. The table is only appended to
(`TableGrows`), which is why a selection made of its first rows stays what it was. That a state leaning to BUY has no analysis
pointing DOWN needs the sign of a sum: `SumSigns` proves by a minimal subset, with `FS_StrictSubsetOrderingWellFounded`, that a sum of
numbers that are not positive is not positive, and `TotalsAreSigned` applies it to the fold in `Aggregate`. A query is modelled as the set of the positions it
selects, not as a sequence, because the fold does not depend on the order and a selection from a sequence cannot be
reasoned about with the installed provers.

Only model-checked: liveness. The prover has no rule for `WF_`, `SF_` or `ENABLED` here. Every invariant and every action
property that a run checks is a theorem, over the constants its module's assumptions allow.

## Findings

Where the code does something else than a document or a test of the repository says. The models follow the code, and
the properties make the exemption where the code needs one.

* `src/docs/capital_execution.md:35` promises that execution is blocked unless
  "The signal was not already submitted". A POST whose answer is lost, or a confirm that raises, is
  written FAILED (`capital_execution.py:265`), and `:235` lets a FAILED row be executed again.
  `ResubmittedOnlyIfExcused` says when.
* `src/docs/capital_execution.md:34` promises that the open positions are below the
  limit. The count and the POST are not atomic, and the tick handler (`api.py:223`) runs outside the
  lock. `OvershootBounded` says by how much they exceed it.
* `validate` starts with the persisted `entry_triggered` (`outcome_validator.py:93`) and
  walks every candle after the signal. A limit order whose target is reached before it is filled is
  WAITING_FOR_ENTRY at first, ENTRY_TRIGGERED when it is filled, and WIN at the next cycle.
  `OutcomeIsFirstPassage` excludes charts that reach a level before the entry.
* `src/docs/implementation-progress.md:8` promises LOSS for a candle that touches stop and
  target; a bucket that is still forming (`pipeline.py:251`, gate off by default) is judged on what it
  has so far, and a final outcome is not revisited.
* `src/docs/capital_execution.md:32` promises that execution is blocked unless "The latest
  price is not stale". `get_latest_price` (`api.py:636`) serves the last tick of a stream that was stopped,
  the gate at `capital_execution.py:313` waits for a status nothing sets, and `latest_price_stale_seconds`
  is not read. `StatusIsTrue` says what the status LIVE is worth.
* `src/Changes/production_hardening_tasks/09_market_regime.md:60` lists "Block weak signals" for a CHOPPY
  market. That gate (`pipeline.py:372`) marks the first evaluation only, and the second one replaces it.
* `src/Changes/05_strategy.md:160` says when SELL is allowed. It never is: the check for a price that is too
  close to the opposite level (`risk_engine.py:82`) asks whether the first target is at or below the entry,
  as it is for every SELL. `NoSellIsExecutable` holds, and is proved.
* `src/Changes/news_feature_plan/05_PHASE_NEWS_STATE_AND_STRATEGY_WEIGHTING.md:228` allows blocking "only around
  scheduled high-impact events"; an analysis of such an event blocks for 120 minutes from the moment it is stored
  (`news_intelligence/ai_analyzer.py:298`), whenever the event is due.

An observation no document contradicts: `ShutdownEnds` needs its exception `swallowed`. A shutdown that
meets the supervisor in the middle of `_stop_live_workers` has its cancellation suppressed there
(`api.py:349`, `:359`); the supervisor goes on and `shutdown_event` waits for it for ever.

Observations about the strategy profiles, which the properties exempt and no run refutes:

* `src/Changes/production_hardening_tasks/04_threshold_optimization.md:88` asks that the active profile "is
  loaded dynamically", and `:70` that the strategy loads it from the database. A start reloads the profiles and tells the strategy
  nothing (`startup_state.py:66`), so it works with the thresholds of the environment until somebody activates
  a profile; `ThresholdsFollow` allows `Runtime` for this reason.
* `:90` asks that "Previous profiles are preserved". A list that fails at start leaves only the default in
  memory; the next candidate gets id 2 (`optimization.py:152`) and its upsert overwrites the saved
  profile 2. `ProfilesPreserved` stops at the first failure for this reason.

What the properties exempt is what the code does not guarantee. Where a hazard of `PROJECT.json` is exempt wholly or in part (a price
older than its stream, a POST of weights that meets a cycle, cycles that were not alone, validators that overlap, statements
cut off by a crash), its note says what is left for the property to cover.

Other observations, which no document contradicts:

* `BLOCKED_NO_VALID_ENTRY_PLAN` is never given: `trade_plan_engine.py:199` selects a plan whenever there is a direction.
  An SMC plan takes its last two targets from the draw on liquidity, on whichever side of the entry that is, so
  `PlanIsOrdered` is about the other five types.
* `news_filter.current_risk` answers with the first event it finds in a window: a MEDIUM event masks a later HIGH one.
* No snapshot has an `adx`, so `TRENDING_DOWN` (`market_regime.py:55`) is not reached; the penalties for
  structure in `strategy_brain.py:98` differ between BUY and SELL; `special_volatility_mode` changes nothing.
* `_last_recommendation_id` is one variable of the storage that reads write as well (`AloneIsAttributed`
  exempts cycles that were not alone), and backtests run on the storage and the engine of the live system.
* After a restart the report folder of a market closure is imported again as a second run; a crash between
  COMPLETED and the writes of the results leaves a COMPLETED run without them; an error in `create_backtest_run`
  leaves a closure without a row; and `trades.csv` of a walk-forward run holds the whole list of trades
  (`walk_forward.py:147`).
* `POST /api/settings/risk-limits` starts from `RiskLimits()`: a second POST with other fields resets the fields of the first.
  `PUT /api/execution/control` writes a model filled with defaults: a PUT of some fields enables the sessions and directions
  it does not name.
* `src/Changes/persist_remaining_state_prompt.md:250` asks that "No manual dashboard setting should disappear after restart"; the bounds of
  `PUT /api/models/weights/profile` are kept in memory only. `SettingsSurvive` is about the weights and the limits.
* At a start a query of the active weights that fails is taken for "there are none", and the bootstrap saves the configured
  weights over the adapted ones. `recalculate_model_weights` uses a name `timeframe` that is not defined.
* Nothing keeps the ids of backtests apart (`api.py:1335`, `:1243`). A `run_id` that is posted again replaces the run; while two jobs work
  on one id, the row may be COMPLETED with the summary of one and the trades or metrics of the other, and after a crash
  between the statements the new summary may stand beside the old trades. `met` and `cut` exempt these
  cases and `OnlyPostsMeet` says that it takes a client's post. A repeated INSERT stores the trades twice (`doubled`).
* The rows of `walk_forward.py` are kept under `len(self.runs) + 1` while they are made (`:70`): two runs that replay at once may have
  one number, and each may then receive the other's trades.
* `process_pending_entries` records a decision without a signal id for each pending order and tick.
* A story that is collected twice is analysed twice, and the second analysis is valid from then on.
* A new submission of an order clears its outcome and keeps its stored deal ids and the reason of the old outcome.

## Not modelled, and why

* The event bus (`event_bus.py`): every publication is one uninterrupted step of the event loop, so a bounded
  queue that drops its oldest entry has no interleaving to go wrong in; only the websocket reads it.
* The arithmetic of the dynamic weights, the metrics and the scores of optimization and backtests, and the
  indicators: floating point formulas without control of their own.
* The forecast models, the providers' requests and parsing, the aggregation of candles to longer timeframes,
  the dashboard, scripts and settings: numerical code and pure I/O.
* Read-only endpoints, listings and statistics.
* The history of decisions and the editing of settings in the control unit; its rules are in `SignalPipeline`.
* In the run `jobs`, a WALK_FORWARD of a client: the module has it and the theorems hold of it, but beside a closure that is one
  already it would only enlarge the instance. Overlapping walk-forward jobs are in the run, as the jobs of two closures.

## What could follow

* The refinement of the list of trades by one list per run, and of the handlers of news by one upsert of the state.
* A composition of `SignalCycles` with `CapitalExecution`, so that the id a request executes under is followed
  from the INSERT to the order.
