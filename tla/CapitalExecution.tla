--------------------------- MODULE CapitalExecution ---------------------------
(***************************************************************************)
(* The broker execution path: capital_execution.py (the service that turns *)
(* a recommendation into a Capital.com order), its callers in api.py (the  *)
(* HTTP endpoints, the background cycle and the price-tick handler) and    *)
(* the execution_orders table of storage.py.                               *)
(*                                                                         *)
(* A thread is one asyncio.to_thread call.  An executor runs               *)
(* execute_recommendation under broker_execution_lock; a ticker handles    *)
(* one price tick, ends in process_pending_entries and takes no lock.  A   *)
(* step of a thread reaches from one write or broker call to the next;     *)
(* everything between two steps of a thread may be interleaved with the    *)
(* other threads, with the cancellation of the asyncio task that awaits    *)
(* the thread (the thread runs on), and with a crash of the process.       *)
(*                                                                         *)
(* Of an order row this module keeps the status.  Nothing here reads the   *)
(* outcome columns; OrderOutcomes adds them.                               *)
(***************************************************************************)
EXTENDS Naturals, FiniteSets

CONSTANTS
  Signals,      \* ids of persisted BUY/SELL recommendations
  Planned,      \* those whose entry_type is not MARKET
  Manual,       \* threads of the HTTP execution endpoints
  Background,   \* threads of the background cycle's auto execution
  Tickers,      \* threads of the price-tick handler
  Levels,       \* price levels the market visits, see PriceLevels
  NoSignal, NoThread,
  MaxOpen,      \* capital_execution_max_open_positions
  MaxDeals,     \* bound: positions the broker opens for one signal
  MaxCancels,   \* bound: cancellations of a task over its running thread
  MaxCrashes    \* bound: process crashes

\* Where the live price stands: away from the planned entry (further than
\* capital_execution_max_price_deviation) or near it.  "none": get_latest_price
\* has no price to give.
NoPrice     == "none"
PriceLevels == {"away", "near", NoPrice}

ASSUME SignalAssumption == Planned \subseteq Signals /\ NoSignal \notin Signals
ASSUME ThreadAssumption == /\ (Manual \cup Background) \cap Tickers = {}
                           /\ NoThread \notin Manual \cup Background \cup Tickers
ASSUME LevelAssumption  == Levels \subseteq PriceLevels
ASSUME BoundAssumption  == /\ MaxOpen \in Nat \ {0}
                           /\ MaxDeals \in Nat
                           /\ MaxCancels \in Nat
                           /\ MaxCrashes \in Nat

Executors == Manual \cup Background
Threads   == Executors \cup Tickers

VARIABLES
  row,          \* execution_orders: the status of the row of each signal
  pc,           \* what each thread does next
  sub,          \* the signal a thread is executing
  price,        \* the price level the thread was given
  todo,         \* the rows a ticker listed and has not handled
  verdict,      \* the broker's decision on the order a thread posted
  lock,         \* holder of broker_execution_lock
  detached,     \* running threads whose asyncio task was cancelled
  positions,    \* open positions at the broker, <<signal, n>>
  deals,        \* history: positions the broker ever opened per signal
  uncertain,    \* history: signals marked FAILED after the broker had the order
  raced,        \* history: signals whose claimed row was overwritten
  cancels,      \* history: tasks cancelled while their thread ran
  crashes

threadVars  == <<pc, sub, price, todo, verdict>>
brokerVars  == <<positions, deals>>
historyVars == <<uncertain, raced, cancels>>
vars == <<row, pc, sub, price, todo, verdict, lock, detached, positions, deals,
          uncertain, raced, cancels, crashes>>

-------------------------------------------------------------------------------
(* Data                                                                    *)

Statuses == {"NONE", "BLOCKED", "PENDING_ENTRY", "READY", "SUBMITTED",
             "CONFIRMED", "REJECTED", "FAILED"}

Verdicts == {"none", "opened", "refused", "noref"}

ProgramPoints == {"idle", "wait", "gate", "submit", "post", "record", "confirm",
                  "fail", "tick", "pend"}

Deals == Signals \X (1..MaxDeals)

\* Mutant: an order without a dealReference does not count as submitted.
ClaimedOnlyIfFinal == {"READY", "CONFIRMED", "REJECTED"}

\* execute_recommendation answers DUPLICATE for a row in one of these.
Claimed == {"READY", "SUBMITTED", "CONFIRMED", "REJECTED"}

-------------------------------------------------------------------------------
(* The execution_orders table                                              *)

\* create_execution_order upserts by idempotency key, update_execution_order
\* updates by it: both replace the status whatever it was.
Write(s, status) == row' = [row EXCEPT ![s] = status]

\* A thread that has not claimed the row itself replaces its status.
NoteStaleWrite(s) ==
  raced' = IF row[s] \in Claimed THEN raced \cup {s} ELSE raced

-------------------------------------------------------------------------------
(* Thread bookkeeping                                                      *)

Running(t)  == pc[t] # "idle"
Attached(t) == Running(t) /\ t \notin detached

\* Mutant: the coroutine leaves without giving the lock back.
FinishHoldingLock(t) ==
  /\ pc' = [pc EXCEPT ![t] = IF t \in Tickers THEN "pend" ELSE "idle"]
  /\ sub' = [sub EXCEPT ![t] = NoSignal]
  /\ price' = [price EXCEPT ![t] = IF t \in Tickers THEN @ ELSE NoPrice]
  /\ verdict' = [verdict EXCEPT ![t] = "none"]
  /\ detached' = IF t \in Tickers THEN detached ELSE detached \ {t}
  /\ UNCHANGED <<todo, lock>>

\* The thread has answered for its signal.  An executor's thread ends and its
\* coroutine, if it is still there, leaves the lock; a ticker goes on to the
\* next row of its list.
Finish(t) ==
  /\ pc' = [pc EXCEPT ![t] = IF t \in Tickers THEN "pend" ELSE "idle"]
  /\ sub' = [sub EXCEPT ![t] = NoSignal]
  /\ price' = [price EXCEPT ![t] = IF t \in Tickers THEN @ ELSE NoPrice]
  /\ verdict' = [verdict EXCEPT ![t] = "none"]
  /\ lock' = IF lock = t THEN NoThread ELSE lock
  /\ detached' = IF t \in Tickers THEN detached ELSE detached \ {t}
  /\ UNCHANGED todo

Goto(t, point) ==
  /\ pc' = [pc EXCEPT ![t] = point]
  /\ UNCHANGED <<sub, price, todo, lock, detached>>

-------------------------------------------------------------------------------
(* Executors: _execute_recommendation and execute_recommendation           *)

\* A request, or the auto execution at the end of a background cycle, reads the
\* latest price and then waits for broker_execution_lock.  The background task
\* runs one cycle at a time; a cancelled one may have left its thread behind.
Request(t, s, p) ==
  /\ ~Running(t)
  /\ t \in Background => \A a \in Background : ~Attached(a)
  /\ pc' = [pc EXCEPT ![t] = "wait"]
  /\ sub' = [sub EXCEPT ![t] = s]
  /\ price' = [price EXCEPT ![t] = p]
  /\ UNCHANGED <<row, todo, verdict, lock, detached, brokerVars, historyVars, crashes>>

\* Mutant: the thread starts without waiting for the lock.
BeginWithoutLock(t) ==
  /\ pc[t] = "wait"
  /\ IF row[sub[t]] \in Claimed
       THEN Finish(t)
       ELSE /\ pc' = [pc EXCEPT ![t] = "gate"]
            /\ UNCHANGED <<sub, price, todo, verdict, lock, detached>>
  /\ UNCHANGED <<row, brokerVars, historyVars, crashes>>

\* The lock is free: the thread starts and looks for the signal's order row.
Begin(t) ==
  /\ pc[t] = "wait"
  /\ lock = NoThread
  /\ IF row[sub[t]] \in Claimed
       THEN Finish(t)
       ELSE /\ lock' = t
            /\ pc' = [pc EXCEPT ![t] = "gate"]
            /\ UNCHANGED <<sub, price, todo, verdict, detached>>
  /\ UNCHANGED <<row, brokerVars, historyVars, crashes>>

\* The price gates of _preflight_block_reason: no price, or a market entry the
\* price has left.
PriceBlocks(s, p) == p = NoPrice \/ (s \notin Planned /\ p # "near")

\* _pending_entry_reason: a planned entry the price has not reached.
Waits(s, p) == s \in Planned /\ p # "near"

\* A preflight gate refuses.  The gates that do not look at the price (the
\* configuration, the control unit, confidence, risk status, expiry) read
\* settings and a clock that change at any time: any evaluation may refuse.
GateBlocks(t) ==
  /\ pc[t] = "gate"
  /\ Write(sub[t], "BLOCKED")
  /\ NoteStaleWrite(sub[t])
  /\ Finish(t)
  /\ UNCHANGED <<brokerVars, uncertain, cancels, crashes>>

GateDefers(t) ==
  /\ pc[t] = "gate"
  /\ ~PriceBlocks(sub[t], price[t])
  /\ Waits(sub[t], price[t])
  /\ Write(sub[t], "PENDING_ENTRY")
  /\ NoteStaleWrite(sub[t])
  /\ Finish(t)
  /\ UNCHANGED <<brokerVars, uncertain, cancels, crashes>>

GatePasses(t) ==
  /\ pc[t] = "gate"
  /\ ~PriceBlocks(sub[t], price[t])
  /\ ~Waits(sub[t], price[t])
  /\ Goto(t, "submit")
  /\ UNCHANGED <<row, verdict, brokerVars, historyVars, crashes>>

-------------------------------------------------------------------------------
(* _submit_market_order                                                    *)

\* Selecting the account or listing the positions raised.
SubmitRaises(t) ==
  /\ pc[t] = "submit"
  /\ Write(sub[t], "FAILED")
  /\ NoteStaleWrite(sub[t])
  /\ Finish(t)
  /\ UNCHANGED <<brokerVars, uncertain, cancels, crashes>>

\* Mutant: the limit itself still passes.
LimitExceeded == Cardinality(positions) > MaxOpen

LimitReached == Cardinality(positions) >= MaxOpen

SubmitBlocked(t) ==
  /\ pc[t] = "submit"
  /\ LimitReached
  /\ Write(sub[t], "BLOCKED")
  /\ NoteStaleWrite(sub[t])
  /\ Finish(t)
  /\ UNCHANGED <<brokerVars, uncertain, cancels, crashes>>

\* Mutant: the order is sent before its row is written.
ReserveUnwritten(t) ==
  /\ pc[t] = "submit"
  /\ ~LimitReached
  /\ Goto(t, "post")
  /\ UNCHANGED <<row, verdict, brokerVars, historyVars, crashes>>

\* The open positions are below the limit: the row is written READY.
Reserve(t) ==
  /\ pc[t] = "submit"
  /\ ~LimitReached
  /\ Write(sub[t], "READY")
  /\ NoteStaleWrite(sub[t])
  /\ Goto(t, "post")
  /\ UNCHANGED <<verdict, brokerVars, uncertain, cancels, crashes>>

\* The broker opens a position for s.
OpenPosition(s) ==
  /\ deals[s] < MaxDeals
  /\ deals' = [deals EXCEPT ![s] = @ + 1]
  /\ positions' = positions \cup {<<s, deals[s] + 1>>}

\* POST /positions answers.  With a dealReference the broker has opened or
\* refused the deal; without one the position may or may not be open.
PostAnswered(t, v) ==
  /\ pc[t] = "post"
  /\ \/ v \in {"opened", "noref"} /\ OpenPosition(sub[t])
     \/ v \in {"refused", "noref"} /\ UNCHANGED brokerVars
  /\ verdict' = [verdict EXCEPT ![t] = v]
  /\ Goto(t, "record")
  /\ UNCHANGED <<row, historyVars, crashes>>

\* Mutant: the exception is swallowed and no row is written.
PostRaisesUnwritten(t) ==
  /\ pc[t] = "post"
  /\ Finish(t)
  /\ UNCHANGED <<row, brokerVars, historyVars, crashes>>

\* POST /positions raises and the broker does not have the order (a refused
\* connection, an HTTP error, a second 401).
PostRaises(t) ==
  /\ pc[t] = "post"
  /\ Write(sub[t], "FAILED")
  /\ Finish(t)
  /\ UNCHANGED <<brokerVars, historyVars, crashes>>

\* POST /positions times out, or its answer is lost, after the position opened.
PostLost(t) ==
  /\ pc[t] = "post"
  /\ OpenPosition(sub[t])
  /\ uncertain' = uncertain \cup {sub[t]}
  /\ Goto(t, "fail")
  /\ UNCHANGED <<row, verdict, raced, cancels, crashes>>

RecordFailure(t) ==
  /\ pc[t] = "fail"
  /\ Write(sub[t], "FAILED")
  /\ Finish(t)
  /\ UNCHANGED <<brokerVars, historyVars, crashes>>

\* The row becomes SUBMITTED with the answer's dealReference; an order without
\* one is not confirmed.
Record(t) ==
  /\ pc[t] = "record"
  /\ Write(sub[t], "SUBMITTED")
  /\ IF verdict[t] = "noref"
       THEN Finish(t)
       ELSE Goto(t, "confirm") /\ UNCHANGED verdict
  /\ UNCHANGED <<brokerVars, historyVars, crashes>>

\* _confirm_with_retries: the broker states its verdict.
ConfirmAnswered(t) ==
  /\ pc[t] = "confirm"
  /\ Write(sub[t], IF verdict[t] = "opened" THEN "CONFIRMED" ELSE "REJECTED")
  /\ Finish(t)
  /\ UNCHANGED <<brokerVars, historyVars, crashes>>

\* Mutants: silence counts as acceptance; silence puts the order back in the
\* pending list.
ConfirmSilentAccepts(t) ==
  /\ pc[t] = "confirm"
  /\ Write(sub[t], "CONFIRMED")
  /\ Finish(t)
  /\ UNCHANGED <<brokerVars, historyVars, crashes>>

ConfirmSilentRequeues(t) ==
  /\ pc[t] = "confirm"
  /\ Write(sub[t], "PENDING_ENTRY")
  /\ Finish(t)
  /\ UNCHANGED <<brokerVars, historyVars, crashes>>

\* No attempt returned a status: the row is REJECTED whatever the verdict was.
ConfirmSilent(t) ==
  /\ pc[t] = "confirm"
  /\ Write(sub[t], "REJECTED")
  /\ Finish(t)
  /\ UNCHANGED <<brokerVars, historyVars, crashes>>

ConfirmRaises(t) ==
  /\ pc[t] = "confirm"
  /\ Write(sub[t], "FAILED")
  /\ uncertain' = uncertain \cup {sub[t]}
  /\ Finish(t)
  /\ UNCHANGED <<brokerVars, raced, cancels, crashes>>

-------------------------------------------------------------------------------
(* Tickers: _publish_price_tick                                            *)

\* A tick of the price stream, which handles one at a time.  The handler first
\* awaits refresh_execution_outcomes ...
Tick(t, p) ==
  /\ ~Running(t)
  /\ \A k \in Tickers : ~Attached(k)
  /\ pc' = [pc EXCEPT ![t] = "tick"]
  /\ price' = [price EXCEPT ![t] = p]
  /\ UNCHANGED <<row, sub, todo, verdict, lock, detached>>
  /\ UNCHANGED <<brokerVars, historyVars, crashes>>

\* ... and then starts process_pending_entries, which lists the pending rows.
ListPending(t) ==
  /\ pc[t] = "tick"
  /\ t \notin detached
  /\ todo' = [todo EXCEPT ![t] = {s \in Signals : row[s] = "PENDING_ENTRY"}]
  /\ pc' = [pc EXCEPT ![t] = "pend"]
  /\ UNCHANGED <<row, sub, price, verdict, lock, detached>>
  /\ UNCHANGED <<brokerVars, historyVars, crashes>>

\* One listed order is gated again, on the row as it was listed.
PendBlocks(t, s) ==
  /\ pc[t] = "pend"
  /\ s \in todo[t]
  /\ Write(s, "BLOCKED")
  /\ NoteStaleWrite(s)
  /\ todo' = [todo EXCEPT ![t] = @ \ {s}]
  /\ UNCHANGED <<pc, sub, price, verdict, lock, detached>>
  /\ UNCHANGED <<brokerVars, uncertain, cancels, crashes>>

PendWaits(t, s) ==
  /\ pc[t] = "pend"
  /\ s \in todo[t]
  /\ Waits(s, price[t])
  /\ todo' = [todo EXCEPT ![t] = @ \ {s}]
  /\ UNCHANGED <<row, pc, sub, price, verdict, lock, detached>>
  /\ UNCHANGED <<brokerVars, historyVars, crashes>>

PendPasses(t, s) ==
  /\ pc[t] = "pend"
  /\ s \in todo[t]
  /\ ~PriceBlocks(s, price[t]) /\ ~Waits(s, price[t])
  /\ todo' = [todo EXCEPT ![t] = @ \ {s}]
  /\ sub' = [sub EXCEPT ![t] = s]
  /\ pc' = [pc EXCEPT ![t] = "submit"]
  /\ UNCHANGED <<row, price, verdict, lock, detached, brokerVars, historyVars, crashes>>

\* The tick is handled, or the thread of a cancelled handler returns.
EndTick(t) ==
  /\ pc[t] = "pend" \/ (pc[t] = "tick" /\ t \in detached)
  /\ todo[t] = {}
  /\ pc' = [pc EXCEPT ![t] = "idle"]
  /\ price' = [price EXCEPT ![t] = NoPrice]
  /\ detached' = detached \ {t}
  /\ UNCHANGED <<row, sub, todo, verdict, lock, brokerVars, historyVars, crashes>>

-------------------------------------------------------------------------------
(* The environment                                                         *)

\* _stop_live_workers cancels the background task.  While it waits for the lock
\* nothing of it is left; otherwise `async with` gives the lock back and the
\* thread goes on without it.
CancelBackground(t) ==
  /\ t \in Background
  /\ Attached(t)
  /\ IF pc[t] = "wait"
       THEN /\ Finish(t)
            /\ UNCHANGED cancels
       ELSE /\ cancels < MaxCancels
            /\ cancels' = cancels + 1
            /\ detached' = detached \cup {t}
            /\ lock' = IF lock = t THEN NoThread ELSE lock
            /\ UNCHANGED threadVars
  /\ UNCHANGED <<row, brokerVars, uncertain, raced, crashes>>

\* _stop_live_workers cancels the price stream, and with it the tick handler.
CancelStream(t) ==
  /\ t \in Tickers
  /\ Attached(t)
  /\ cancels < MaxCancels
  /\ cancels' = cancels + 1
  /\ detached' = detached \cup {t}
  /\ UNCHANGED <<row, threadVars, lock, brokerVars, uncertain, raced, crashes>>

\* The process dies and restarts: the rows and the positions are still there,
\* and no startup code looks at them.
Crash ==
  /\ crashes < MaxCrashes
  /\ crashes' = crashes + 1
  /\ pc' = [t \in Threads |-> "idle"]
  /\ sub' = [t \in Threads |-> NoSignal]
  /\ price' = [t \in Threads |-> NoPrice]
  /\ todo' = [t \in Threads |-> {}]
  /\ verdict' = [t \in Threads |-> "none"]
  /\ lock' = NoThread
  /\ detached' = {}
  /\ UNCHANGED <<row, brokerVars, historyVars>>

\* The broker closes a position at its stop or profit level.
ClosePosition(d) ==
  /\ d \in positions
  /\ positions' = positions \ {d}
  /\ UNCHANGED <<row, threadVars, lock, detached, deals, historyVars, crashes>>

-------------------------------------------------------------------------------
Init ==
  /\ row = [s \in Signals |-> "NONE"]
  /\ pc = [t \in Threads |-> "idle"]
  /\ sub = [t \in Threads |-> NoSignal]
  /\ price = [t \in Threads |-> NoPrice]
  /\ todo = [t \in Threads |-> {}]
  /\ verdict = [t \in Threads |-> "none"]
  /\ lock = NoThread
  /\ detached = {}
  /\ positions = {}
  /\ deals = [s \in Signals |-> 0]
  /\ uncertain = {}
  /\ raced = {}
  /\ cancels = 0
  /\ crashes = 0

\* What a started thread does until it ends.
SubmitStep(t) ==
  \/ SubmitRaises(t) \/ SubmitBlocked(t) \/ Reserve(t)
  \/ \E v \in Verdicts \ {"none"} : PostAnswered(t, v)
  \/ PostRaises(t) \/ PostLost(t) \/ RecordFailure(t) \/ Record(t)
  \/ ConfirmAnswered(t) \/ ConfirmSilent(t) \/ ConfirmRaises(t)

GateStep(t) == GateBlocks(t) \/ GateDefers(t) \/ GatePasses(t)

TickStep(t) ==
  \/ \E s \in Signals : PendBlocks(t, s) \/ PendWaits(t, s) \/ PendPasses(t, s)
  \/ ListPending(t)
  \/ EndTick(t)

ThreadStep(t) ==
  \/ t \in Executors /\ GateStep(t)
  \/ t \in Tickers /\ TickStep(t)
  \/ SubmitStep(t)

Next ==
  \/ \E t \in Executors : \E s \in Signals, p \in Levels : Request(t, s, p)
  \/ \E t \in Executors : Begin(t)
  \/ \E t \in Tickers, p \in Levels \ {NoPrice} : Tick(t, p)
  \/ \E t \in Threads : ThreadStep(t)
  \/ \E t \in Background : CancelBackground(t)
  \/ \E t \in Tickers : CancelStream(t)
  \/ Crash
  \/ \E d \in Deals : ClosePosition(d)

Spec == Init /\ [][Next]_vars

\* A started thread runs: every broker call has a timeout and the storage
\* answers.  asyncio.Lock wakes its waiters in turn, so one that finds the lock
\* free again and again gets it.
Fairness ==
  /\ \A t \in Threads : WF_vars(ThreadStep(t))
  /\ \A t \in Executors : SF_vars(Begin(t))

FairSpec == Spec /\ Fairness

-------------------------------------------------------------------------------
(* Properties                                                              *)

TypeOK ==
  /\ row \in [Signals -> Statuses]
  /\ pc \in [Threads -> ProgramPoints]
  /\ sub \in [Threads -> Signals \cup {NoSignal}]
  /\ price \in [Threads -> PriceLevels]
  /\ todo \in [Threads -> SUBSET Signals]
  /\ verdict \in [Threads -> Verdicts]
  /\ lock \in Executors \cup {NoThread}
  /\ detached \in SUBSET Threads
  /\ positions \in SUBSET Deals
  /\ deals \in [Signals -> 0..MaxDeals]
  /\ uncertain \in SUBSET Signals
  /\ raced \in SUBSET Signals
  /\ cancels \in 0..MaxCancels
  /\ crashes \in 0..MaxCrashes

\* "The signal was not already submitted" (docs/capital_execution.md), as far as
\* the order row can hold it: the broker opens a second position for a signal
\* only after an attempt was written FAILED although the broker had the order,
\* or after a thread overwrote a row that another one had claimed.
ResubmittedOnlyIfExcused ==
  \A s \in Signals : deals[s] > 1 => s \in uncertain \cup raced

\* broker_execution_lock does its part: while no task has been cancelled over
\* its running thread, a claimed row is overwritten only for a planned entry,
\* which the tick handler submits without the lock.
LockProtectsMarketEntries ==
  \A s \in Signals \ Planned : cancels = 0 => s \notin raced

\* The check of the open-position limit and the POST are not atomic.  While no
\* task has been cancelled the tick handler can put the account over
\* capital_execution_max_open_positions by one position, and by no more.
OvershootBounded ==
  cancels = 0 => Cardinality(positions) <= MaxOpen + 1

\* A row says CONFIRMED only if the broker did open a position for the signal,
\* whatever the threads, the cancellations and the crashes did.
ConfirmedMeansOpened ==
  \A s \in Signals : row[s] = "CONFIRMED" => deals[s] > 0

\* Every position the broker opened has an audit row written before it.
EveryDealAudited ==
  \A s \in Signals : deals[s] > 0 => row[s] # "NONE"

\* What the DUPLICATE answer rests on: a claimed row is given up, so that the
\* signal may be submitted again, only by an attempt that failed before any
\* position was open, by one that ended in FAILED although the broker had the
\* order, or by a thread that overwrote what another one had claimed.
ClaimsAreKept ==
  [][\A s \in Signals :
       row[s] \in Claimed /\ row'[s] \notin Claimed
         => \/ s \in uncertain' \cup raced'
            \/ deals[s] = 0 /\ row'[s] = "FAILED"]_vars

\* Every caller of _execute_recommendation gets its answer: nobody keeps the
\* lock and no step of the submission waits for another thread.
RequestsAnswered ==
  \A t \in Executors : pc[t] = "wait" ~> pc[t] = "idle"

\* Without a crash no order stays READY: the attempt ends in another status.
ReadyResolves ==
  \A s \in Signals : row[s] = "READY" ~> row[s] # "READY"

===============================================================================
