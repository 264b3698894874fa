----------------------------- MODULE LiveWorkers -----------------------------
(***************************************************************************)
(* The tasks that make the system live (api.py): the market supervisor     *)
(* starts the background cycle and the price stream while the market is    *)
(* open and cancels them when it closes; the shutdown handler cancels the  *)
(* supervisor and then the workers; a background task that fails restarts. *)
(*                                                                         *)
(* Everything here runs on one event loop: a step reaches from one await   *)
(* to the next.  A task that was cancelled ends some time later, when its  *)
(* clean-up is done.                                                       *)
(***************************************************************************)
EXTENDS Naturals

CONSTANTS
  Cycles,         \* background tasks, reused once they are over
  Streams,        \* price stream tasks, reused once they are over
  None,
  MaxFailures     \* bound: background tasks that end with an exception

ASSUME WorkerAssumption == None \notin Cycles \cup Streams
ASSUME BoundAssumption == MaxFailures \in Nat

VARIABLES
  open,           \* market_hours_state(runtime).is_open
  supervisor,     \* where _market_supervisor_runner awaits
  shutdown,       \* where shutdown_event awaits
  cycle,          \* background_cycle_task
  cycles,         \* what became of each background task
  stream,         \* price_stream_task
  streams,        \* what became of each price stream task
  restart,        \* _restart_background_cycle_after_failure
  status,         \* latest_price_stream_status
  tick,           \* latest_price_tick
  swallowed,      \* history: the supervisor's cancellation was suppressed
  failures        \* history: background tasks that failed

marketVars  == <<open, swallowed, failures>>
handlerVars == <<supervisor, shutdown>>
workerVars  == <<cycle, cycles, stream, streams, restart>>
priceVars   == <<status, tick>>
vars == <<marketVars, handlerVars, workerVars, priceVars>>

Handlers == {"supervisor", "shutdown"}

\* "over": cancelled and ended, or never started.
CycleStates  == {"running", "cancelled", "failed", "over"}
Connections  == {"authenticating", "connecting", "connected"}
StreamStates == Connections \cup {"cancelled", "over"}
Statuses == {"WAITING_FOR_STREAM", "CONNECTING", "STREAMING", "RECONNECTING", "LIVE",
             "MARKET_CLOSED", "SHUTDOWN"}

CycleDone(c) == cycles[c] \in {"failed", "over"}

-------------------------------------------------------------------------------
(* The market and the price stream                                         *)

MarketTurns ==
  /\ open' = ~open
  /\ UNCHANGED <<swallowed, failures, handlerVars, workerVars, priceVars>>

\* _connect_once authenticates, connects and subscribes.
Authenticate(s) ==
  /\ streams[s] = "authenticating"
  /\ streams' = [streams EXCEPT ![s] = "connecting"]
  /\ status' = "CONNECTING"
  /\ UNCHANGED <<marketVars, handlerVars, cycle, cycles, stream, restart, tick>>

Subscribe(s) ==
  /\ streams[s] = "connecting"
  /\ streams' = [streams EXCEPT ![s] = "connected"]
  /\ status' = "STREAMING"
  /\ UNCHANGED <<marketVars, handlerVars, cycle, cycles, stream, restart, tick>>

\* _publish_price_tick up to its first await.
Tick(s) ==
  /\ streams[s] = "connected"
  /\ tick' = "live"
  /\ status' = "LIVE"
  /\ UNCHANGED <<marketVars, handlerVars, workerVars>>

\* Whatever _connect_once raises; also when the server closes the connection.
Reconnect(s) ==
  /\ streams[s] \in Connections
  /\ streams' = [streams EXCEPT ![s] = "authenticating"]
  /\ status' = "RECONNECTING"
  /\ UNCHANGED <<marketVars, handlerVars, cycle, cycles, stream, restart, tick>>

StreamEnds(s) ==
  /\ streams[s] = "cancelled"
  /\ streams' = [streams EXCEPT ![s] = "over"]
  /\ UNCHANGED <<marketVars, handlerVars, cycle, cycles, stream, restart, priceVars>>

-------------------------------------------------------------------------------
(* The background cycle                                                    *)

CycleEnds(c) ==
  /\ cycles[c] = "cancelled"
  /\ cycles' = [cycles EXCEPT ![c] = "over"]
  /\ UNCHANGED <<marketVars, handlerVars, cycle, stream, streams, restart, priceVars>>

\* Mutant: a task that failed is left for the supervisor to replace.
CycleFailsForGood(c) ==
  /\ failures < MaxFailures
  /\ cycles[c] = "running"
  /\ cycles' = [cycles EXCEPT ![c] = "failed"]
  /\ failures' = failures + 1
  /\ UNCHANGED <<open, swallowed, handlerVars, cycle, stream, streams, restart, priceVars>>

\* _background_cycle_done: an exception the runner did not catch.
CycleFails(c) ==
  /\ failures < MaxFailures
  /\ cycles[c] = "running"
  /\ restart = "none"                             \* bound: one restart at a time
  /\ cycles' = [cycles EXCEPT ![c] = "failed"]
  /\ restart' = "pending"
  /\ failures' = failures + 1
  /\ UNCHANGED <<open, swallowed, handlerVars, cycle, stream, streams, priceVars>>

CreateCycle ==
  \E c \in Cycles : /\ c # cycle /\ CycleDone(c)
                    /\ cycle' = c
                    /\ cycles' = [cycles EXCEPT ![c] = "running"]

\* Mutant: whatever is running, a new one is started.
RestartBlindly ==
  /\ restart # "none"
  /\ restart' = "none"
  /\ CreateCycle
  /\ UNCHANGED <<marketVars, handlerVars, stream, streams, priceVars>>

\* _restart_background_cycle_after_failure, a second after the failure.
Restart ==
  /\ restart # "none"
  /\ restart' = "none"
  /\ IF cycle # None /\ ~CycleDone(cycle) THEN UNCHANGED <<cycle, cycles>> ELSE CreateCycle
  /\ UNCHANGED <<marketVars, handlerVars, stream, streams, priceVars>>

-------------------------------------------------------------------------------
(* _start_live_workers and _stop_live_workers                              *)

StartWorkers ==
  /\ IF cycle = None \/ CycleDone(cycle) THEN CreateCycle ELSE UNCHANGED <<cycle, cycles>>
  /\ IF stream = None
       THEN \E s \in Streams : /\ streams[s] = "over"
                               /\ stream' = s
                               /\ streams' = [streams EXCEPT ![s] = "authenticating"]
       ELSE UNCHANGED <<stream, streams>>
  /\ status' = IF status \in {"MARKET_CLOSED", "SHUTDOWN"} THEN "CONNECTING" ELSE status

\* The supervisor sleeps for 30 seconds at least, longer than a restart waits.
Sleep ==
  /\ supervisor' = "asleep"
  /\ restart' = IF restart = "pending" THEN "due" ELSE restart
  /\ UNCHANGED shutdown

Moves(h, point) ==
  IF h = "supervisor" THEN supervisor' = point /\ UNCHANGED <<shutdown, restart>>
                      ELSE shutdown' = point /\ UNCHANGED <<supervisor, restart>>

Returns(h) ==
  IF h = "supervisor" THEN Sleep ELSE shutdown' = "ended" /\ UNCHANGED <<supervisor, restart>>

Reason(h) == IF h = "supervisor" THEN "MARKET_CLOSED" ELSE "SHUTDOWN"

\* Mutant: the stream is cancelled and not awaited.
StopStreamAtOnce(h) ==
  /\ streams' = IF stream = None THEN streams ELSE [streams EXCEPT ![stream] = "cancelled"]
  /\ stream' = None
  /\ status' = Reason(h)
  /\ Returns(h)

\* The second half of _stop_live_workers: the stream.
StopStream(h) ==
  IF stream = None
    THEN /\ status' = Reason(h)
         /\ Returns(h)
         /\ UNCHANGED <<stream, streams>>
    ELSE /\ streams' = [streams EXCEPT ![stream] = "cancelled"]
         /\ Moves(h, "stream")
         /\ UNCHANGED <<stream, status>>

\* The first half: the cycle.  Awaiting a task that has failed raises.
Stop(h) ==
  IF cycle = None
    THEN StopStream(h) /\ UNCHANGED <<cycle, cycles>>
  ELSE IF cycles[cycle] = "failed"
    THEN Returns(h) /\ UNCHANGED <<cycle, cycles, stream, streams, status>>
  ELSE /\ cycles' = [cycles EXCEPT ![cycle] = "cancelled"]
       /\ Moves(h, "cycle")
       /\ UNCHANGED <<cycle, stream, streams, status>>

At(h, point) == IF h = "supervisor" THEN supervisor = point ELSE shutdown = point

\* What is awaited is the task that was cancelled, whatever cycle holds by now.
CycleStopped(h) ==
  /\ At(h, "cycle")
  /\ \A c \in Cycles : cycles[c] # "cancelled"
  /\ cycle' = None
  /\ StopStream(h)
  /\ UNCHANGED <<marketVars, cycles, tick>>

\* Mutant: the variable still holds the stream that was stopped.
StreamStoppedKept(h) ==
  /\ At(h, "stream")
  /\ streams[stream] = "over"
  /\ status' = Reason(h)
  /\ Returns(h)
  /\ UNCHANGED <<marketVars, cycle, cycles, stream, streams, tick>>

\* The last tick stays, from now on it is from before the pause.
StreamStopped(h) ==
  /\ At(h, "stream")
  /\ streams[stream] = "over"
  /\ stream' = None
  /\ status' = Reason(h)
  /\ Returns(h)
  /\ tick' = IF tick = "live" THEN "old" ELSE tick
  /\ UNCHANGED <<marketVars, cycle, cycles, streams>>

-------------------------------------------------------------------------------
(* The supervisor and the shutdown                                         *)

Wake ==
  /\ supervisor = "asleep"
  /\ restart # "due"
  /\ IF open THEN StartWorkers /\ Sleep ELSE Stop("supervisor")
  /\ UNCHANGED <<marketVars, tick>>

\* Mutant: the supervisor's handler catches the cancellation as well.
ShutdownSwallowed ==
  /\ shutdown = "none"
  /\ shutdown' = "supervisor"
  /\ UNCHANGED <<marketVars, supervisor, workerVars, priceVars>>

\* shutdown_event cancels the supervisor.  A supervisor that awaits a worker
\* suppresses the CancelledError as if it were the worker's, and goes on.
Shutdown ==
  /\ shutdown = "none"
  /\ shutdown' = "supervisor"
  /\ IF supervisor = "asleep"
       THEN supervisor' = "cancelled" /\ UNCHANGED swallowed
       ELSE swallowed' = TRUE /\ UNCHANGED supervisor
  /\ UNCHANGED <<open, failures, workerVars, priceVars>>

SupervisorEnded ==
  /\ shutdown = "supervisor"
  /\ supervisor = "cancelled"
  /\ Stop("shutdown")
  /\ UNCHANGED <<marketVars, tick>>

Init ==
  /\ open \in BOOLEAN /\ swallowed = FALSE /\ failures = 0
  /\ supervisor = "asleep" /\ shutdown = "none"
  /\ cycle = None /\ cycles = [c \in Cycles |-> "over"]
  /\ stream = None /\ streams = [s \in Streams |-> "over"]
  /\ restart = "none"
  /\ status = "WAITING_FOR_STREAM" /\ tick = "none"

Workers ==
  \/ \E c \in Cycles : CycleEnds(c) \/ CycleFails(c)
  \/ \E s \in Streams : Authenticate(s) \/ Subscribe(s) \/ Tick(s) \/ Reconnect(s) \/ StreamEnds(s)
  \/ Restart

Next ==
  \/ MarketTurns \/ Workers \/ Wake \/ Shutdown \/ SupervisorEnded
  \/ \E h \in Handlers : CycleStopped(h) \/ StreamStopped(h)

Spec == Init /\ [][Next]_vars

\* Timers fire, cancelled tasks end, and awaits return.
Fairness ==
  /\ WF_vars(Wake) /\ WF_vars(SupervisorEnded) /\ WF_vars(Restart)
  /\ \A c \in Cycles : WF_vars(CycleEnds(c))
  /\ \A s \in Streams : WF_vars(StreamEnds(s))
  /\ \A h \in Handlers : WF_vars(CycleStopped(h)) /\ WF_vars(StreamStopped(h))

FairSpec == Spec /\ Fairness

-------------------------------------------------------------------------------
(* Properties                                                              *)

TypeOK ==
  /\ open \in BOOLEAN /\ swallowed \in BOOLEAN /\ failures \in 0..MaxFailures
  /\ supervisor \in {"asleep", "cycle", "stream", "cancelled"}
  /\ shutdown \in {"none", "supervisor", "cycle", "stream", "ended"}
  /\ cycle \in Cycles \cup {None} /\ cycles \in [Cycles -> CycleStates]
  /\ stream \in Streams \cup {None} /\ streams \in [Streams -> StreamStates]
  /\ restart \in {"none", "pending", "due"}
  /\ status \in Statuses /\ tick \in {"none", "live", "old"}

\* A worker that lives is the one its variable names: there is one background
\* cycle and one stream at most, and the supervisor can stop it.  (A restart
\* that fires during the shutdown may be lost sight of.)
NoOrphan ==
  /\ shutdown = "none" => \A c \in Cycles : CycleDone(c) \/ c = cycle
  /\ \A s \in Streams : streams[s] = "over" \/ s = stream

\* While prices are refused because the market is closed, no stream is left that
\* could change the status again.
PausedMeansQuiet ==
  status \in {"MARKET_CLOSED", "SHUTDOWN"} => \A s \in Streams : streams[s] = "over"

\* latest_price_stream_status can be trusted: a closed market has no stream, and a
\* price whose status is LIVE was sent since the last pause.  The price execution is
\* given may be older, but only under another status: nothing forgets it.
StatusIsTrue == PausedMeansQuiet /\ (status = "LIVE" => tick = "live")

Quiet == /\ \A c \in Cycles : CycleDone(c)
         /\ \A s \in Streams : streams[s] = "over"

Live == /\ \E c \in Cycles : cycles[c] = "running"
        /\ \E s \in Streams : streams[s] \in Connections

\* A market that stays closed finds all workers stopped, also after a failure
\* that made the first stop raise.
PausesWhenClosed == <>[](~open /\ shutdown = "none") => <>[]Quiet

\* A market that stays open finds the workers running, however often it turned
\* and whatever failed before.
ResumesWhenOpen == <>[](open /\ shutdown = "none") => <>[]Live

\* A shutdown comes to its end, unless its cancellation met the supervisor in
\* the middle of stopping the workers.
ShutdownEnds == shutdown = "supervisor" ~> shutdown = "ended" \/ swallowed

=============================================================================
