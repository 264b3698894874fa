-------------------------- MODULE LiveWorkersProofs --------------------------
(***************************************************************************)
(* Proofs about LiveWorkers, for any sets of tasks and any bound.          *)
(***************************************************************************)
EXTENDS LiveWorkers, TLAPS

Closed == status \in {"MARKET_CLOSED", "SHUTDOWN"}

\* The stream: the variable names the only one that lives, and a closed market
\* has none.
StreamInv ==
  /\ \A s \in Streams : streams[s] = "over" \/ s = stream
  /\ Closed => stream = None

\* The cycle, until the shutdown begins.  A restart that may still find the
\* supervisor awake has its failed task in the variable, so the supervisor's
\* next stop raises and no restart falls into a stop.
CycleInv ==
  shutdown = "none" =>
    /\ supervisor # "cancelled"
    /\ \A c \in Cycles : CycleDone(c) \/ c = cycle
    /\ supervisor = "cycle" => /\ cycle # None
                               /\ cycles[cycle] \in {"cancelled", "over"}
                               /\ restart = "none"
    /\ restart = "pending" => cycle # None /\ cycles[cycle] = "failed"

PriceInv == status = "LIVE" => tick = "live"

IInv == TypeOK /\ StreamInv /\ CycleInv /\ PriceInv

-------------------------------------------------------------------------------

(* Only a shutdown leaves "none", and nothing comes back to it. *)
LEMMA ShutdownStays ==
  ASSUME TypeOK, [Next]_vars, shutdown # "none"
  PROVE  shutdown' # "none"
<1>1. CASE UNCHANGED vars
  BY <1>1 DEF vars, handlerVars
<1>2. ASSUME NEW h \in Handlers, At(h, "cycle"), StopStream(h)  PROVE shutdown' # "none"
  BY <1>2 DEF StopStream, Returns, Sleep, Moves, Handlers
<1>3. ASSUME NEW h \in Handlers, Stop(h)  PROVE shutdown' # "none"
  BY <1>3 DEF Stop, StopStream, Returns, Sleep, Moves, Handlers
<1>4. CASE Wake
  BY <1>3, <1>4 DEF Wake, Sleep, Handlers
<1>5. CASE SupervisorEnded
  BY <1>3, <1>5 DEF SupervisorEnded, Handlers
<1>6. ASSUME NEW h \in Handlers, CycleStopped(h) \/ StreamStopped(h)  PROVE shutdown' # "none"
  BY <1>2, <1>6 DEF CycleStopped, StreamStopped, Returns, Sleep, Handlers
<1>7. CASE MarketTurns \/ Workers \/ Shutdown
  BY <1>7 DEF MarketTurns, Workers, Shutdown, CycleEnds, CycleFails, Restart, Authenticate,
              Subscribe, Tick, Reconnect, StreamEnds, handlerVars
<1> QED
  BY <1>1, <1>4, <1>5, <1>6, <1>7 DEF Next

LEMMA TypeStep ==
  ASSUME TypeOK, [Next]_vars
  PROVE  TypeOK'
<1> USE DEF TypeOK, Handlers, CycleStates, StreamStates, Connections, Statuses, Reason
<1>1. CASE UNCHANGED vars
  BY <1>1 DEF vars, marketVars, handlerVars, workerVars, priceVars
<1>2. CASE MarketTurns
  BY <1>2 DEF MarketTurns, handlerVars, workerVars, priceVars
<1>3. ASSUME NEW c \in Cycles, CycleEnds(c)  PROVE TypeOK'
  BY <1>3 DEF CycleEnds, marketVars, handlerVars, priceVars
<1>4. ASSUME NEW c \in Cycles, CycleFails(c)  PROVE TypeOK'
  BY <1>4, BoundAssumption DEF CycleFails, handlerVars, priceVars
<1>5. ASSUME NEW s \in Streams, Authenticate(s) \/ Subscribe(s) \/ Tick(s) \/ Reconnect(s) \/ StreamEnds(s)
      PROVE  TypeOK'
  BY <1>5 DEF Authenticate, Subscribe, Tick, Reconnect, StreamEnds,
              marketVars, handlerVars, workerVars, priceVars
<1>6. CASE Restart
  BY <1>6 DEF Restart, CreateCycle, marketVars, handlerVars, priceVars
<1>7. CASE Shutdown
  BY <1>7 DEF Shutdown, workerVars, priceVars
<1>8. ASSUME NEW h \in Handlers, StopStream(h),
             UNCHANGED <<open, swallowed, failures>>,
             cycle' \in Cycles \cup {None}, cycles' \in [Cycles -> CycleStates],
             tick' \in {"none", "live", "old"}
      PROVE  TypeOK'
  <2>1. CASE stream = None
    BY <1>8, <2>1 DEF StopStream, Returns, Sleep
  <2>2. CASE stream # None
    BY <1>8, <2>2 DEF StopStream, Moves
  <2> QED
    BY <2>1, <2>2
<1>9. ASSUME NEW h \in Handlers, Stop(h), UNCHANGED <<marketVars, tick>>  PROVE TypeOK'
  <2>1. CASE cycle = None
    BY <1>8, <1>9, <2>1 DEF Stop, marketVars
  <2>2. CASE cycle # None /\ cycles[cycle] = "failed"
    BY <1>9, <2>2 DEF Stop, Returns, Sleep, marketVars
  <2>3. CASE cycle # None /\ cycles[cycle] # "failed"
    BY <1>9, <2>3 DEF Stop, Moves, marketVars
  <2> QED
    BY <2>1, <2>2, <2>3
<1>10. CASE Wake
  <2>1. CASE open
    BY <1>10, <2>1 DEF Wake, StartWorkers, CreateCycle, Sleep, marketVars
  <2>2. CASE ~open
    BY <1>9, <1>10, <2>2 DEF Wake
  <2> QED
    BY <2>1, <2>2
<1>11. CASE SupervisorEnded
  BY <1>9, <1>11 DEF SupervisorEnded
<1>12. ASSUME NEW h \in Handlers, CycleStopped(h)  PROVE TypeOK'
  BY <1>8, <1>12 DEF CycleStopped, marketVars
<1>13. ASSUME NEW h \in Handlers, StreamStopped(h)  PROVE TypeOK'
  BY <1>13 DEF StreamStopped, Returns, Sleep, marketVars
<1> QED
  BY <1>1, <1>2, <1>3, <1>4, <1>5, <1>6, <1>7, <1>10, <1>11, <1>12, <1>13 DEF Next, Workers

-------------------------------------------------------------------------------

LEMMA StreamStep ==
  ASSUME TypeOK, StreamInv, [Next]_vars
  PROVE  StreamInv'
<1> USE DEF StreamInv, Closed
<1>m. ASSUME UNCHANGED <<stream, streams, status>>  PROVE StreamInv'
  BY <1>m
<1>1. CASE UNCHANGED vars
  BY <1>1, <1>m DEF vars, workerVars, priceVars
<1>2. CASE MarketTurns \/ Restart \/ Shutdown
  BY <1>2, <1>m DEF MarketTurns, Restart, Shutdown, workerVars, priceVars
<1>3. ASSUME NEW c \in Cycles, CycleEnds(c) \/ CycleFails(c)  PROVE StreamInv'
  BY <1>3, <1>m DEF CycleEnds, CycleFails, priceVars
<1>4. ASSUME NEW s \in Streams, Authenticate(s) \/ Subscribe(s) \/ Tick(s) \/ Reconnect(s)
      PROVE  StreamInv'
  <2>1. streams[s] # "over" /\ s = stream
    BY <1>4 DEF Authenticate, Subscribe, Tick, Reconnect, Connections
  <2>2. /\ status' \notin {"MARKET_CLOSED", "SHUTDOWN"}
        /\ stream' = stream
        /\ \A p \in Streams : p # s => streams'[p] = streams[p]
    BY <1>4 DEF TypeOK, Authenticate, Subscribe, Tick, Reconnect, workerVars
  <2> QED
    BY <2>1, <2>2
<1>5. ASSUME NEW s \in Streams, StreamEnds(s)  PROVE StreamInv'
  <2>1. /\ UNCHANGED <<stream, status>>
        /\ \A p \in Streams : streams'[p] = "over" \/ streams'[p] = streams[p]
    BY <1>5 DEF TypeOK, StreamEnds, priceVars
  <2> QED
    BY <2>1
<1>6. ASSUME NEW h \in Handlers, StopStream(h)  PROVE StreamInv'
  <2>1. CASE stream = None
    BY <1>6, <2>1 DEF StopStream
  <2>2. CASE stream # None
    <3>1. /\ UNCHANGED <<stream, status>>
          /\ \A p \in Streams : p # stream => streams'[p] = streams[p]
      BY <1>6, <2>2 DEF StopStream, TypeOK
    <3> QED
      BY <2>2, <3>1
  <2> QED
    BY <2>1, <2>2
<1>7. ASSUME NEW h \in Handlers, Stop(h)  PROVE StreamInv'
  BY <1>6, <1>7, <1>m DEF Stop
<1>8. CASE Wake
  <2>1. CASE open /\ stream = None
    <3>1. /\ status' \notin {"MARKET_CLOSED", "SHUTDOWN"}
          /\ \E s \in Streams : /\ stream' = s
                                /\ \A p \in Streams : p # s => streams'[p] = streams[p]
      BY <1>8, <2>1 DEF Wake, StartWorkers, TypeOK
    <3> QED
      BY <2>1, <3>1, WorkerAssumption
  <2>2. CASE open /\ stream # None
    <3>1. status' = status /\ UNCHANGED <<stream, streams>>
      BY <1>8, <2>2 DEF Wake, StartWorkers
    <3> QED
      BY <3>1
  <2>3. CASE ~open
    BY <1>7, <1>8, <2>3 DEF Wake, Handlers
  <2> QED
    BY <2>1, <2>2, <2>3
<1>9. CASE SupervisorEnded
  BY <1>7, <1>9 DEF SupervisorEnded, Handlers
<1>10. ASSUME NEW h \in Handlers, CycleStopped(h)  PROVE StreamInv'
  BY <1>6, <1>10 DEF CycleStopped
<1>11. ASSUME NEW h \in Handlers, StreamStopped(h)  PROVE StreamInv'
  BY <1>11 DEF StreamStopped
<1> QED
  BY <1>1, <1>2, <1>3, <1>4, <1>5, <1>8, <1>9, <1>10, <1>11 DEF Next, Workers

LEMMA CycleStep ==
  ASSUME TypeOK, CycleInv, [Next]_vars
  PROVE  CycleInv'
<1>0. SUFFICES ASSUME shutdown = "none", shutdown' = "none"  PROVE CycleInv'
  BY ShutdownStays DEF CycleInv
<1> USE DEF CycleInv, CycleDone, Handlers
<1>m. ASSUME UNCHANGED <<supervisor, cycle, cycles, restart>>  PROVE CycleInv'
  BY <1>0, <1>m
<1>1. CASE UNCHANGED vars
  BY <1>1, <1>m DEF vars, handlerVars, workerVars
<1>2. CASE MarketTurns
  BY <1>2, <1>m DEF MarketTurns, handlerVars, workerVars
<1>3. ASSUME NEW s \in Streams, Authenticate(s) \/ Subscribe(s) \/ Tick(s) \/ Reconnect(s) \/ StreamEnds(s)
      PROVE  CycleInv'
  BY <1>3, <1>m DEF Authenticate, Subscribe, Tick, Reconnect, StreamEnds, handlerVars, workerVars
<1>4. ASSUME NEW c \in Cycles, CycleEnds(c)  PROVE CycleInv'
  <2>1. /\ UNCHANGED <<supervisor, cycle, restart>>
        /\ cycles[c] = "cancelled"
        /\ \A d \in Cycles : cycles'[d] = IF d = c THEN "over" ELSE cycles[d]
    BY <1>4 DEF CycleEnds, handlerVars, TypeOK
  <2> QED
    BY <1>0, <2>1 DEF TypeOK
<1>5. ASSUME NEW c \in Cycles, CycleFails(c)  PROVE CycleInv'
  <2>1. cycles[c] = "running" /\ UNCHANGED <<supervisor, cycle>>
    BY <1>5 DEF CycleFails, handlerVars
  <2>2. c = cycle /\ supervisor # "cycle"
    BY <1>0, <2>1
  <2>3. \A d \in Cycles : cycles'[d] = IF d = c THEN "failed" ELSE cycles[d]
    BY <1>5 DEF CycleFails, TypeOK
  <2> QED
    BY <1>0, <2>1, <2>2, <2>3, WorkerAssumption
<1>c. ASSUME cycle = None \/ CycleDone(cycle), CreateCycle
      PROVE  /\ \A c \in Cycles : CycleDone(c)' \/ c = cycle'
             /\ cycle' \in Cycles
  <2>1. PICK c \in Cycles : cycle' = c /\ cycles' = [cycles EXCEPT ![c] = "running"]
    BY <1>c DEF CreateCycle
  <2>2. \A d \in Cycles : d # c => cycles'[d] = cycles[d]
    BY <2>1 DEF TypeOK
  <2> QED
    BY <1>0, <1>c, <2>1, <2>2, WorkerAssumption
<1>6. CASE Restart
  <2>1. supervisor # "cycle" /\ restart' = "none" /\ supervisor' = supervisor
    BY <1>0, <1>6 DEF Restart, handlerVars
  <2>2. CASE cycle # None /\ ~CycleDone(cycle)
    BY <1>0, <1>6, <2>1, <2>2 DEF Restart
  <2>3. CASE ~(cycle # None /\ ~CycleDone(cycle))
    BY <1>0, <1>6, <1>c, <2>1, <2>3 DEF Restart
  <2> QED
    BY <2>2, <2>3
<1>7. CASE Wake
  <2>1. CASE open
    <3>1. supervisor' = "asleep" /\ restart' # "pending"
      BY <1>7, <2>1 DEF Wake, Sleep, TypeOK
    <3>2. \A c \in Cycles : CycleDone(c)' \/ c = cycle'
      <4>1. CASE cycle = None \/ CycleDone(cycle)
        BY <1>7, <1>c, <2>1, <4>1 DEF Wake, StartWorkers
      <4>2. CASE ~(cycle = None \/ CycleDone(cycle))
        <5>1. UNCHANGED <<cycle, cycles>>
          BY <1>7, <2>1, <4>2 DEF Wake, StartWorkers
        <5> QED
          BY <1>0, <5>1
      <4> QED
        BY <4>1, <4>2
    <3> QED
      BY <3>1, <3>2
  <2>2. CASE ~open /\ cycle = None
    <3>1. UNCHANGED <<cycle, cycles>> /\ supervisor' \in {"asleep", "stream"}
      BY <1>7, <2>2 DEF Wake, Stop, StopStream, Returns, Sleep, Moves
    <3>2. restart' # "pending"
      BY <1>0, <1>7, <2>2 DEF Wake, Stop, StopStream, Returns, Sleep, Moves
    <3> QED
      BY <1>0, <3>1, <3>2
  <2>3. CASE ~open /\ cycle # None /\ cycles[cycle] = "failed"
    <3>1. UNCHANGED <<cycle, cycles>> /\ supervisor' = "asleep" /\ restart' # "pending"
      BY <1>7, <2>3 DEF Wake, Stop, Returns, Sleep, TypeOK
    <3> QED
      BY <1>0, <3>1
  <2>4. CASE ~open /\ cycle # None /\ cycles[cycle] # "failed"
    <3>1. /\ cycles' = [cycles EXCEPT ![cycle] = "cancelled"]
          /\ supervisor' = "cycle"
          /\ UNCHANGED <<cycle, restart>>
      BY <1>7, <2>4 DEF Wake, Stop, Moves
    <3>2. restart = "none"
      BY <1>0, <1>7, <2>4 DEF Wake, TypeOK
    <3> QED
      BY <1>0, <2>4, <3>1, <3>2 DEF TypeOK
  <2> QED
    BY <2>1, <2>2, <2>3, <2>4
<1>8. ASSUME NEW h \in Handlers, CycleStopped(h)  PROVE CycleInv'
  <2>1. h = "supervisor" /\ supervisor = "cycle"
    BY <1>0, <1>8 DEF CycleStopped, At
  <2>2. restart = "none" /\ cycle # None /\ cycles[cycle] = "over"
    BY <1>0, <1>8, <2>1 DEF CycleStopped, TypeOK
  <2>3. cycle' = None /\ cycles' = cycles
    BY <1>8 DEF CycleStopped
  <2>4. supervisor' \in {"asleep", "stream"} /\ restart' = "none"
    BY <1>8, <2>1, <2>2 DEF CycleStopped, StopStream, Returns, Sleep, Moves
  <2> QED
    BY <1>0, <2>2, <2>3, <2>4
<1>9. ASSUME NEW h \in Handlers, StreamStopped(h)  PROVE CycleInv'
  <2>1. h = "supervisor"
    BY <1>0, <1>9 DEF StreamStopped, At
  <2>2. supervisor' = "asleep" /\ restart' # "pending" /\ UNCHANGED <<cycle, cycles>>
    BY <1>9, <2>1 DEF StreamStopped, Returns, Sleep, TypeOK
  <2> QED
    BY <1>0, <2>2
<1>10. CASE Shutdown \/ SupervisorEnded
  BY <1>0, <1>10 DEF Shutdown, SupervisorEnded
<1> QED
  BY <1>1, <1>2, <1>3, <1>4, <1>5, <1>6, <1>7, <1>8, <1>9, <1>10 DEF Next, Workers

-------------------------------------------------------------------------------

LEMMA PriceStep ==
  ASSUME PriceInv, [Next]_vars
  PROVE  PriceInv'
<1> USE DEF PriceInv
<1>1. CASE UNCHANGED vars
  BY <1>1 DEF vars, priceVars
<1>2. CASE MarketTurns \/ Restart \/ Shutdown
  BY <1>2 DEF MarketTurns, Restart, Shutdown, priceVars
<1>3. ASSUME NEW c \in Cycles, CycleEnds(c) \/ CycleFails(c)  PROVE PriceInv'
  BY <1>3 DEF CycleEnds, CycleFails, priceVars
<1>4. ASSUME NEW s \in Streams, Authenticate(s) \/ Subscribe(s) \/ Tick(s) \/ Reconnect(s) \/ StreamEnds(s)
      PROVE  PriceInv'
  BY <1>4 DEF Authenticate, Subscribe, Tick, Reconnect, StreamEnds, priceVars
<1>5. ASSUME NEW h \in Handlers  PROVE Reason(h) # "LIVE"
  BY DEF Reason
<1>6. ASSUME NEW h \in Handlers, StopStream(h), UNCHANGED tick  PROVE PriceInv'
  BY <1>5, <1>6 DEF StopStream
<1>7. ASSUME NEW h \in Handlers, Stop(h), UNCHANGED tick  PROVE PriceInv'
  BY <1>6, <1>7 DEF Stop
<1>8. CASE Wake
  BY <1>7, <1>8 DEF Wake, StartWorkers, Handlers
<1>9. CASE SupervisorEnded
  BY <1>7, <1>9 DEF SupervisorEnded, Handlers
<1>10. ASSUME NEW h \in Handlers, CycleStopped(h)  PROVE PriceInv'
  BY <1>6, <1>10 DEF CycleStopped
<1>11. ASSUME NEW h \in Handlers, StreamStopped(h)  PROVE PriceInv'
  BY <1>5, <1>11 DEF StreamStopped
<1> QED
  BY <1>1, <1>2, <1>3, <1>4, <1>8, <1>9, <1>10, <1>11 DEF Next, Workers

-------------------------------------------------------------------------------

THEOREM Invariance == Spec => []IInv
<1>1. Init => IInv
  <2> SUFFICES ASSUME Init  PROVE IInv
    OBVIOUS
  <2>1. TypeOK
    <3>1. open \in BOOLEAN /\ swallowed \in BOOLEAN
      BY DEF Init
    <3>2. failures \in 0..MaxFailures
      BY BoundAssumption DEF Init
    <3>3. cycles \in [Cycles -> CycleStates] /\ streams \in [Streams -> StreamStates]
      BY DEF Init, CycleStates, StreamStates
    <3> QED
      BY <3>1, <3>2, <3>3 DEF Init, TypeOK, Statuses
  <2>2. StreamInv
    BY DEF Init, StreamInv, Closed
  <2>3. CycleInv
    BY DEF Init, CycleInv, CycleDone
  <2>4. PriceInv
    BY DEF Init, PriceInv
  <2> QED
    BY <2>1, <2>2, <2>3, <2>4 DEF IInv
<1>2. IInv /\ [Next]_vars => IInv'
  BY TypeStep, StreamStep, CycleStep, PriceStep DEF IInv
<1> QED
  BY <1>1, <1>2, PTL DEF Spec

(* Every variable of the workers keeps its type. *)
THEOREM TypeCorrect == Spec => []TypeOK
<1>1. IInv => TypeOK
  BY DEF IInv
<1> QED
  BY <1>1, Invariance, PTL

(* A background cycle or a stream that lives is the one its variable names, so   *)
(* _stop_live_workers stops all there is.                                        *)
THEOREM NothingOrphaned == Spec => []NoOrphan
<1>1. IInv => NoOrphan
  BY DEF IInv, StreamInv, CycleInv, NoOrphan
<1> QED
  BY <1>1, Invariance, PTL

(* The status can be trusted: a closed market has no stream left that could      *)
(* write another one, and a LIVE price is from after the last pause.             *)
THEOREM StatusTrusted == Spec => []StatusIsTrue
<1>1. IInv => StatusIsTrue
  BY WorkerAssumption DEF IInv, StreamInv, PriceInv, Closed, PausedMeansQuiet, StatusIsTrue
<1> QED
  BY <1>1, Invariance, PTL

=============================================================================
