------------------------ MODULE CapitalExecutionProofs ------------------------
(***************************************************************************)
(* Proofs about CapitalExecution, for any number of signals, threads,      *)
(* positions, cancellations and crashes; and, at the end, about            *)
(* OrderOutcomes: its steps are steps of CapitalExecution, so everything   *)
(* proved here holds with the outcomes as well, and who may change an      *)
(* outcome that is settled.                                                *)
(***************************************************************************)
EXTENDS OrderOutcomes, FiniteSetTheorems, TLAPS

(* A thread in the middle of a signal knows the signal; only executors wait *)
(* for the lock and gate a request; only tickers walk a list of rows.       *)
Busy == {"wait", "gate", "submit", "post", "record", "confirm", "fail"}

ThreadInv ==
  \A t \in Threads :
    /\ pc[t] \in Busy => sub[t] \in Signals
    /\ pc[t] \in {"wait", "gate"} => t \in Executors
    /\ pc[t] \in {"tick", "pend"} => t \in Tickers

LEMMA TypeInit == Init => TypeOK /\ ThreadInv
<1>1. Init => TypeOK
  BY BoundAssumption DEF Init, TypeOK, Statuses, ProgramPoints,
     Verdicts, PriceLevels, NoPrice, Deals, Threads, Executors
<1>2. Init => ThreadInv
  BY DEF Init, ThreadInv, Busy, Threads, Executors
<1> QED BY <1>1, <1>2

-------------------------------------------------------------------------------
(* Every step keeps the types and ThreadInv                                *)

LEMMA TypeStep ==
  TypeOK /\ ThreadInv /\ [Next]_vars => TypeOK' /\ ThreadInv'
<1> SUFFICES ASSUME TypeOK, ThreadInv, [Next]_vars
             PROVE  TypeOK' /\ ThreadInv'
  OBVIOUS
<1>b. ASSUME NEW t \in Threads, pc[t] \in Busy
      PROVE  sub[t] \in Signals
  BY <1>b DEF ThreadInv
<1>w. ASSUME NEW s \in Signals, NEW status \in Statuses, Write(s, status)
      PROVE  row' \in [Signals -> Statuses]
  BY <1>w DEF TypeOK, Write
<1> USE BoundAssumption, LevelAssumption, ThreadAssumption
    DEF TypeOK, ThreadInv, Busy, ProgramPoints, Verdicts, PriceLevels, NoPrice, Deals,
        Statuses, brokerVars, historyVars, threadVars, Threads, Executors
<1>1. ASSUME NEW t \in Executors, NEW s \in Signals, NEW p \in Levels, Request(t, s, p)
      PROVE  TypeOK' /\ ThreadInv'
  BY <1>1 DEF Request, Running
<1>2. ASSUME NEW t \in Executors, Begin(t)
      PROVE  TypeOK' /\ ThreadInv'
  BY <1>2 DEF Begin, Finish
<1>3. ASSUME NEW t \in Tickers, NEW p \in Levels, Tick(t, p)
      PROVE  TypeOK' /\ ThreadInv'
  BY <1>3 DEF Tick, Running
(* A thread that writes the row of its signal and ends.                     *)
<1>4. ASSUME NEW t \in Threads, pc[t] \in Busy, Finish(t), row' \in [Signals -> Statuses],
             raced' \in SUBSET Signals, uncertain' \in SUBSET Signals,
             UNCHANGED <<positions, deals, cancels, crashes>>
      PROVE  TypeOK' /\ ThreadInv'
  BY <1>4 DEF Finish
<1>5. ASSUME NEW t \in Executors, GateStep(t)
      PROVE  TypeOK' /\ ThreadInv'
  <2>1. CASE GateBlocks(t)
    BY <1>4, <1>b, <1>w, <2>1 DEF GateBlocks, NoteStaleWrite
  <2>2. CASE GateDefers(t)
    BY <1>4, <1>b, <1>w, <2>2 DEF GateDefers, NoteStaleWrite
  <2>3. CASE GatePasses(t)
    BY <2>3 DEF GatePasses, Goto
  <2> QED BY <1>5, <2>1, <2>2, <2>3 DEF GateStep
<1>6. ASSUME NEW t \in Tickers, TickStep(t)
      PROVE  TypeOK' /\ ThreadInv'
  <2>1. ASSUME NEW s \in Signals, PendBlocks(t, s)
        PROVE  TypeOK' /\ ThreadInv'
    BY <1>w, <2>1 DEF PendBlocks, NoteStaleWrite
  <2>2. ASSUME NEW s \in Signals, PendWaits(t, s)
        PROVE  TypeOK' /\ ThreadInv'
    BY <2>2 DEF PendWaits
  <2>3. ASSUME NEW s \in Signals, PendPasses(t, s)
        PROVE  TypeOK' /\ ThreadInv'
    BY <2>3 DEF PendPasses
  <2>4. CASE ListPending(t)
    BY <2>4 DEF ListPending
  <2>5. CASE EndTick(t)
    BY <2>5 DEF EndTick
  <2> HIDE DEF TypeOK, ThreadInv
  <2> QED BY <1>6, <2>1, <2>2, <2>3, <2>4, <2>5 DEF TickStep
<1>7. ASSUME NEW t \in Threads, SubmitStep(t)
      PROVE  TypeOK' /\ ThreadInv'
  <2>1. CASE SubmitRaises(t) \/ SubmitBlocked(t)
    BY <1>4, <1>b, <1>w, <2>1 DEF SubmitRaises, SubmitBlocked, NoteStaleWrite
  <2>2. CASE Reserve(t)
    BY <1>b, <1>w, <2>2 DEF Reserve, NoteStaleWrite, Goto
  <2>3. ASSUME NEW v \in Verdicts \ {"none"}, PostAnswered(t, v)
        PROVE  TypeOK' /\ ThreadInv'
    BY <2>3 DEF PostAnswered, OpenPosition, Goto
  <2>4. CASE PostLost(t)
    BY <2>4 DEF PostLost, OpenPosition, Goto
  <2>5. CASE PostRaises(t) \/ RecordFailure(t) \/ ConfirmRaises(t)
    BY <1>4, <1>b, <1>w, <2>5 DEF PostRaises, RecordFailure, ConfirmRaises
  <2>6. CASE Record(t)
    <3>1. CASE verdict[t] = "noref"
      BY <1>4, <1>b, <1>w, <2>6, <3>1 DEF Record
    <3>2. CASE verdict[t] # "noref"
      BY <1>b, <1>w, <2>6, <3>2 DEF Record, Goto
    <3> QED BY <3>1, <3>2
  <2>7. CASE ConfirmAnswered(t) \/ ConfirmSilent(t)
    BY <1>4, <1>b, <1>w, <2>7 DEF ConfirmAnswered, ConfirmSilent
  <2> HIDE DEF TypeOK, ThreadInv
  <2> QED BY <1>7, <2>1, <2>2, <2>3, <2>4, <2>5, <2>6, <2>7 DEF SubmitStep
<1>8. ASSUME NEW t \in Background, CancelBackground(t)
      PROVE  TypeOK' /\ ThreadInv'
  <2>1. CASE pc[t] = "wait"
    BY <1>4, <1>8, <2>1 DEF CancelBackground
  <2>2. CASE pc[t] # "wait"
    BY <1>8, <2>2 DEF CancelBackground
  <2> QED BY <2>1, <2>2
<1>9. ASSUME NEW t \in Tickers, CancelStream(t)
      PROVE  TypeOK' /\ ThreadInv'
  BY <1>9 DEF CancelStream
<1>10. CASE Crash
  BY <1>10 DEF Crash
<1>11. ASSUME NEW d \in Deals, ClosePosition(d)
       PROVE  TypeOK' /\ ThreadInv'
  BY <1>11 DEF ClosePosition
<1>12. CASE UNCHANGED vars
  BY <1>12 DEF vars
<1> HIDE DEF TypeOK, ThreadInv, Deals, Threads, Executors, PriceLevels, NoPrice
<1>13. ASSUME NEW t \in Threads, ThreadStep(t)
       PROVE  TypeOK' /\ ThreadInv'
  BY <1>5, <1>6, <1>7, <1>13 DEF ThreadStep
<1>14. CASE Next
  BY <1>1, <1>2, <1>3, <1>8, <1>9, <1>10, <1>11, <1>13, <1>14 DEF Next
<1> QED BY <1>12, <1>14

(* The state of the execution path is well-typed in every behaviour: rows,  *)
(* threads, lock and broker hold only values the code can give them.        *)
THEOREM TypeCorrect == Spec => []TypeOK
<1>1. Spec => [](TypeOK /\ ThreadInv)
  BY TypeInit, TypeStep, PTL DEF Spec
<1> QED BY <1>1, PTL

-------------------------------------------------------------------------------
(* The inductive invariants                                                *)

Posted   == {"post", "record", "confirm"}
LockHeld == {"gate", "submit", "post", "record", "confirm", "fail"}

(* A signal nobody has excused: no attempt at it ended in FAILED after the  *)
(* broker had the order, and no thread overwrote its claimed row.           *)
Excused(s) == s \in uncertain \cup raced

(* Why such a signal is posted once: its row is claimed from Reserve on,    *)
(* while one thread and no other is on its way to the broker.               *)
ClaimInv ==
  \A s \in Signals : ~Excused(s) =>
    /\ deals[s] <= 1
    /\ deals[s] = 1 => row[s] \in Claimed
    /\ \A t \in Threads : sub[t] = s =>
         /\ pc[t] \in Posted => row[s] \in Claimed
         /\ pc[t] = "post" => deals[s] = 0
         /\ pc[t] # "fail"
    /\ \A t, u \in Threads :
         /\ sub[t] = s /\ pc[t] \in Posted
         /\ sub[u] = s /\ pc[u] \in Posted
         => t = u

(* A thread that has passed Reserve has written its row, and a verdict      *)
(* "opened" it carries is the broker's.                                     *)
AuditInv ==
  /\ \A s \in Signals : deals[s] > 0 => row[s] # "NONE"
  /\ \A s \in Signals : row[s] = "CONFIRMED" => deals[s] > 0
  /\ \A t \in Threads :
       /\ pc[t] \in Posted \cup {"fail"} => row[sub[t]] # "NONE"
       /\ pc[t] \in {"record", "confirm"} /\ verdict[t] = "opened" => deals[sub[t]] > 0

(* Who holds the lock: the one executor whose task still awaits it.  The    *)
(* price stream handles one tick at a time, and only planned entries are    *)
(* ever put in its hands.                                                   *)
LockInv ==
  /\ cancels = 0 => detached = {}
  /\ \A t \in Executors : pc[t] \in LockHeld /\ t \notin detached => lock = t
  /\ \A k, l \in Tickers : Attached(k) /\ Attached(l) => k = l
  /\ \A s \in Signals : row[s] = "PENDING_ENTRY" => s \in Planned
  /\ \A k \in Tickers :
       /\ pc[k] \in Busy => sub[k] \in Planned
       /\ pc[k] \in Busy \cup {"pend"} => todo[k] \subseteq Planned

(* While no task has been cancelled the row an executor gates for a market  *)
(* entry stays unclaimed until the executor writes it.                      *)
MarketInv ==
  cancels = 0 =>
    /\ \A t \in Executors :
         pc[t] \in {"gate", "submit"} /\ sub[t] \notin Planned
           => row[sub[t]] \notin Claimed
    /\ raced \subseteq Planned

(* Each thread between the count of the positions and its POST has left     *)
(* room for itself: there is an executor and a ticker at most.              *)
LimitInv ==
  /\ IsFiniteSet(positions)
  /\ cancels = 0 =>
       /\ Cardinality(positions) <= MaxOpen + 1
       /\ \A t \in Threads : pc[t] = "post" => Cardinality(positions) <= MaxOpen
       /\ \A t, u \in Threads :
            pc[t] = "post" /\ pc[u] = "post" /\ t # u => Cardinality(positions) < MaxOpen

-------------------------------------------------------------------------------
(* A step of the system is one of these                                    *)

LEMMA StepCases ==
  ASSUME Next
  PROVE  \/ \E t \in Executors, s \in Signals, p \in Levels : Request(t, s, p)
         \/ \E t \in Executors :
              \/ Begin(t) \/ GateBlocks(t) \/ GateDefers(t) \/ GatePasses(t)
         \/ \E k \in Tickers, p \in Levels : Tick(k, p)
         \/ \E k \in Tickers, s \in Signals :
              \/ PendBlocks(k, s) \/ PendWaits(k, s) \/ PendPasses(k, s)
         \/ \E k \in Tickers : ListPending(k) \/ EndTick(k) \/ CancelStream(k)
         \/ \E t \in Threads :
              \/ SubmitRaises(t) \/ SubmitBlocked(t) \/ Reserve(t)
              \/ PostRaises(t) \/ PostLost(t) \/ RecordFailure(t) \/ Record(t)
              \/ ConfirmAnswered(t) \/ ConfirmSilent(t) \/ ConfirmRaises(t)
         \/ \E t \in Threads, v \in Verdicts \ {"none"} : PostAnswered(t, v)
         \/ \E t \in Background : CancelBackground(t)
         \/ Crash
         \/ \E d \in Deals : ClosePosition(d)
<1>1. ASSUME NEW t \in Threads, ThreadStep(t)
      PROVE  \/ t \in Executors /\ GateStep(t)
             \/ t \in Tickers /\ TickStep(t)
             \/ SubmitStep(t)
  BY <1>1 DEF ThreadStep
<1> QED BY <1>1 DEF Next, GateStep, TickStep, SubmitStep

-------------------------------------------------------------------------------
(* The audit trail                                                         *)

LEMMA AuditStep ==
  ASSUME TypeOK, ThreadInv, AuditInv, [Next]_vars
  PROVE  AuditInv'
<1> USE BoundAssumption, ThreadAssumption
    DEF TypeOK, ThreadInv, AuditInv, Busy, Posted, Deals, Threads, Executors,
        brokerVars, historyVars, threadVars
<1>1. ASSUME NEW t \in Executors, NEW s \in Signals, NEW p \in Levels, Request(t, s, p)
      PROVE  AuditInv'
  BY <1>1 DEF Request, Running
<1>2. ASSUME NEW t \in Executors, Begin(t)
      PROVE  AuditInv'
  BY <1>2 DEF Begin, Finish
<1>3. ASSUME NEW t \in Executors, GateBlocks(t) \/ GateDefers(t)
      PROVE  AuditInv'
  <2>1. CASE GateBlocks(t)
    BY <2>1 DEF GateBlocks, Write, Finish
  <2>2. CASE GateDefers(t)
    BY <2>2 DEF GateDefers, Write, Finish
  <2> HIDE DEF AuditInv
  <2> QED BY <1>3, <2>1, <2>2
<1>4. ASSUME NEW t \in Executors, GatePasses(t)
      PROVE  AuditInv'
  BY <1>4 DEF GatePasses, Goto
<1>5. ASSUME NEW k \in Tickers, NEW p \in Levels, Tick(k, p)
      PROVE  AuditInv'
  BY <1>5 DEF Tick
<1>6. ASSUME NEW k \in Tickers, NEW s \in Signals,
             PendBlocks(k, s) \/ PendWaits(k, s) \/ PendPasses(k, s)
      PROVE  AuditInv'
  <2>2. CASE PendBlocks(k, s)
    BY <2>2 DEF PendBlocks, Write
  <2>3. CASE PendWaits(k, s) \/ PendPasses(k, s)
    BY <2>3 DEF PendWaits, PendPasses
  <2> HIDE DEF AuditInv
  <2> QED BY <1>6, <2>2, <2>3
<1>7. ASSUME NEW k \in Tickers, ListPending(k) \/ EndTick(k) \/ CancelStream(k)
      PROVE  AuditInv'
  BY <1>7 DEF ListPending, EndTick, CancelStream
<1>8. ASSUME NEW t \in Threads, SubmitRaises(t) \/ PostRaises(t) \/ RecordFailure(t)
      PROVE  AuditInv'
  <2>1. /\ sub[t] \in Signals /\ Write(sub[t], "FAILED")
        /\ Finish(t) /\ deals' = deals
    BY <1>8 DEF SubmitRaises, PostRaises, RecordFailure
  <2> QED BY <2>1 DEF Write, Finish
<1>9. ASSUME NEW t \in Threads, SubmitBlocked(t)
      PROVE  AuditInv'
  BY <1>9 DEF SubmitBlocked, Write, Finish
<1>10. ASSUME NEW t \in Threads, Reserve(t)
       PROVE  AuditInv'
  BY <1>10 DEF Reserve, Write, Goto
<1>11. ASSUME NEW t \in Threads, PostLost(t)
       PROVE  AuditInv'
  BY <1>11 DEF PostLost, OpenPosition, Goto
<1>12. ASSUME NEW t \in Threads, NEW v \in Verdicts \ {"none"}, PostAnswered(t, v)
       PROVE  AuditInv'
  BY <1>12 DEF PostAnswered, OpenPosition, Goto
<1>13. ASSUME NEW t \in Threads, Record(t)
       PROVE  AuditInv'
  <2>1. CASE verdict[t] = "noref"
    BY <1>13, <2>1 DEF Record, Write, Finish
  <2>2. CASE verdict[t] # "noref"
    BY <1>13, <2>2 DEF Record, Write, Goto
  <2> QED BY <2>1, <2>2
<1>14. ASSUME NEW t \in Threads, ConfirmAnswered(t)
       PROVE  AuditInv'
  BY <1>14 DEF ConfirmAnswered, Write, Finish
<1>15. ASSUME NEW t \in Threads, ConfirmSilent(t)
       PROVE  AuditInv'
  BY <1>15 DEF ConfirmSilent, Write, Finish
<1>16. ASSUME NEW t \in Threads, ConfirmRaises(t)
       PROVE  AuditInv'
  BY <1>16 DEF ConfirmRaises, Write, Finish
<1>17. ASSUME NEW t \in Background, CancelBackground(t)
       PROVE  AuditInv'
  BY <1>17 DEF CancelBackground, Finish
<1>18. CASE Crash
  BY <1>18 DEF Crash
<1>19. ASSUME NEW d \in Deals, ClosePosition(d)
       PROVE  AuditInv'
  BY <1>19 DEF ClosePosition
<1>20. CASE UNCHANGED vars
  BY <1>20 DEF vars
<1> HIDE DEF TypeOK, ThreadInv, AuditInv, Deals, Threads, Executors
<1>21. CASE Next
  BY StepCases, <1>21, <1>1, <1>2, <1>3, <1>4, <1>5, <1>6, <1>7, <1>8, <1>9, <1>10, <1>11,
     <1>12, <1>13, <1>14, <1>15, <1>16, <1>17, <1>18, <1>19
<1> QED BY <1>20, <1>21

LEMMA AuditInvariant == Spec => [](TypeOK /\ ThreadInv /\ AuditInv)
<1>1. Init => AuditInv
  BY DEF Init, AuditInv, Posted, Threads
<1> QED BY <1>1, TypeInit, TypeStep, AuditStep, PTL DEF Spec

(* Every position the broker opened has an audit row written before it: the *)
(* attempt reserves its row before it posts, and no write takes it away.    *)
THEOREM DealsAudited == Spec => []EveryDealAudited
<1>1. AuditInv => EveryDealAudited
  BY DEF AuditInv, EveryDealAudited
<1> QED BY <1>1, AuditInvariant, PTL

(* A row says CONFIRMED only if the broker opened a position for it: what   *)
(* _submit_market_order writes after the confirm is the broker's verdict.   *)
THEOREM ConfirmationsTrue == Spec => []ConfirmedMeansOpened
<1>1. AuditInv => ConfirmedMeansOpened
  BY DEF AuditInv, ConfirmedMeansOpened
<1> QED BY <1>1, AuditInvariant, PTL

-------------------------------------------------------------------------------
(* A signal is submitted once unless it is excused                         *)

LEMMA ClaimStep ==
  ASSUME TypeOK, ThreadInv, ClaimInv, [Next]_vars
  PROVE  ClaimInv'
<1> USE BoundAssumption, ThreadAssumption
    DEF TypeOK, ThreadInv, ClaimInv, Excused, Busy, Posted, Claimed, Deals,
        Threads, Executors, brokerVars, historyVars, threadVars
<1>1. ASSUME NEW t \in Executors, NEW s \in Signals, NEW p \in Levels, Request(t, s, p)
      PROVE  ClaimInv'
  BY <1>1 DEF Request, Running
<1>2. ASSUME NEW t \in Executors, Begin(t)
      PROVE  ClaimInv'
  BY <1>2 DEF Begin, Finish
<1>3. ASSUME NEW t \in Executors, GateBlocks(t) \/ GateDefers(t)
      PROVE  ClaimInv'
  <2>1. CASE GateBlocks(t)
    BY <2>1 DEF GateBlocks, Write, NoteStaleWrite, Finish
  <2>2. CASE GateDefers(t)
    BY <2>2 DEF GateDefers, Write, NoteStaleWrite, Finish
  <2> HIDE DEF ClaimInv
  <2> QED BY <1>3, <2>1, <2>2
<1>4. ASSUME NEW t \in Executors, GatePasses(t)
      PROVE  ClaimInv'
  BY <1>4 DEF GatePasses, Goto
<1>5. ASSUME NEW k \in Tickers, NEW p \in Levels, Tick(k, p)
      PROVE  ClaimInv'
  BY <1>5 DEF Tick
<1>6. ASSUME NEW k \in Tickers, NEW s \in Signals,
             PendBlocks(k, s) \/ PendWaits(k, s) \/ PendPasses(k, s)
      PROVE  ClaimInv'
  <2>2. CASE PendBlocks(k, s)
    BY <2>2 DEF PendBlocks, Write, NoteStaleWrite
  <2>3. CASE PendWaits(k, s)
    BY <2>3 DEF PendWaits
  <2>4. CASE PendPasses(k, s)
    BY <2>4 DEF PendPasses
  <2> HIDE DEF ClaimInv
  <2> QED BY <1>6, <2>2, <2>3, <2>4
<1>7. ASSUME NEW k \in Tickers, ListPending(k) \/ EndTick(k) \/ CancelStream(k)
      PROVE  ClaimInv'
  BY <1>7 DEF ListPending, EndTick, CancelStream
<1>8. ASSUME NEW t \in Threads, SubmitRaises(t)
      PROVE  ClaimInv'
  BY <1>8 DEF SubmitRaises, Write, NoteStaleWrite, Finish
<1>9. ASSUME NEW t \in Threads, SubmitBlocked(t)
      PROVE  ClaimInv'
  BY <1>9 DEF SubmitBlocked, Write, NoteStaleWrite, Finish
<1>10. ASSUME NEW t \in Threads, Reserve(t)
       PROVE  ClaimInv'
  <2>1. CASE row[sub[t]] \in Claimed
    BY <1>10, <2>1 DEF Reserve, Write, NoteStaleWrite, Goto
  <2>2. CASE row[sub[t]] \notin Claimed
    <3>1. sub[t] \in Signals /\ deals[sub[t]] \in Nat
      BY <1>10, BoundAssumption DEF Reserve
    <3>2. ~Excused(sub[t]) => deals[sub[t]] <= 1 /\ deals[sub[t]] # 1
      BY ONLY ClaimInv, <2>2, <3>1 DEF ClaimInv
    <3>3. ~Excused(sub[t]) =>
            \A u \in Threads : sub[u] = sub[t] => pc[u] \notin Posted
      BY <2>2, <3>1
    <3>4. /\ row'[sub[t]] \in Claimed
          /\ \A s \in Signals \ {sub[t]} : row'[s] = row[s]
          /\ pc' = [pc EXCEPT ![t] = "post"]
          /\ UNCHANGED <<sub, deals, uncertain, raced>>
      BY <1>10, <2>2 DEF Reserve, Write, NoteStaleWrite, Goto
    <3>5. pc \in [Threads -> ProgramPoints] /\ t \in Threads
      OBVIOUS
    <3> QED BY ONLY ClaimInv, <3>1, <3>2, <3>3, <3>4, <3>5
            DEF ClaimInv, Excused, Posted, Claimed
  <2> QED BY <2>1, <2>2
<1>11. ASSUME NEW t \in Threads, PostRaises(t)
       PROVE  ClaimInv'
  BY <1>11 DEF PostRaises, Write, Finish
<1>12. ASSUME NEW t \in Threads, PostLost(t)
       PROVE  ClaimInv'
  BY <1>12 DEF PostLost, OpenPosition, Goto
<1>13. ASSUME NEW t \in Threads, RecordFailure(t)
       PROVE  ClaimInv'
  BY <1>13 DEF RecordFailure, Write, Finish
<1>14. ASSUME NEW t \in Threads, NEW v \in Verdicts \ {"none"}, PostAnswered(t, v)
       PROVE  ClaimInv'
  BY <1>14 DEF PostAnswered, OpenPosition, Goto
<1>15. ASSUME NEW t \in Threads, Record(t)
       PROVE  ClaimInv'
  <2>1. sub[t] \in Signals /\ Write(sub[t], "SUBMITTED")
    BY <1>15 DEF Record
  <2>2. /\ pc[t] = "record" /\ UNCHANGED <<deals, uncertain, raced>>
        /\ Finish(t) \/ Goto(t, "confirm")
    BY <1>15 DEF Record
  <2>3. CASE Finish(t)
    BY <2>1, <2>2, <2>3 DEF Write, Finish
  <2>4. CASE Goto(t, "confirm")
    BY <2>1, <2>2, <2>4 DEF Write, Goto
  <2> QED BY <2>2, <2>3, <2>4
<1>16. ASSUME NEW t \in Threads, ConfirmAnswered(t) \/ ConfirmSilent(t)
       PROVE  ClaimInv'
  <2>1. CASE ConfirmAnswered(t)
    BY <2>1 DEF ConfirmAnswered, Write, Finish
  <2>2. CASE ConfirmSilent(t)
    BY <2>2 DEF ConfirmSilent, Write, Finish
  <2> HIDE DEF ClaimInv
  <2> QED BY <1>16, <2>1, <2>2
<1>17. ASSUME NEW t \in Threads, ConfirmRaises(t)
       PROVE  ClaimInv'
  BY <1>17 DEF ConfirmRaises, Write, Finish
<1>18. ASSUME NEW t \in Background, CancelBackground(t)
       PROVE  ClaimInv'
  <2>1. CASE pc[t] = "wait"
    BY <1>18, <2>1 DEF CancelBackground, Finish
  <2>2. CASE pc[t] # "wait"
    BY <1>18, <2>2 DEF CancelBackground
  <2> QED BY <2>1, <2>2
<1>19. CASE Crash
  BY <1>19 DEF Crash
<1>20. ASSUME NEW d \in Deals, ClosePosition(d)
       PROVE  ClaimInv'
  BY <1>20 DEF ClosePosition
<1>21. CASE UNCHANGED vars
  BY <1>21 DEF vars
<1> HIDE DEF TypeOK, ThreadInv, ClaimInv, Deals, Threads, Executors
<1>22. CASE Next
  BY StepCases, <1>22, <1>1, <1>2, <1>3, <1>4, <1>5, <1>6, <1>7, <1>8, <1>9, <1>10, <1>11,
     <1>12, <1>13, <1>14, <1>15, <1>16, <1>17, <1>18, <1>19, <1>20
<1> QED BY <1>21, <1>22

LEMMA ClaimInvariant == Spec => [](TypeOK /\ ThreadInv /\ ClaimInv)
<1>1. Init => ClaimInv
  BY DEF Init, ClaimInv, Posted, Threads
<1> QED BY <1>1, TypeInit, TypeStep, ClaimStep, PTL DEF Spec

(* "The signal was not already submitted" (docs/capital_execution.md), as   *)
(* far as the order row can hold it: the broker opens a second position for *)
(* a signal only if an attempt ended in FAILED after the broker had the     *)
(* order, or a thread overwrote a row that another one had claimed.         *)
THEOREM SubmittedOnceUnlessExcused == Spec => []ResubmittedOnlyIfExcused
<1>1. TypeOK /\ ClaimInv => ResubmittedOnlyIfExcused
  BY BoundAssumption DEF TypeOK, ClaimInv, Excused, ResubmittedOnlyIfExcused
<1> QED BY <1>1, ClaimInvariant, PTL

(* What ClaimsAreKept asks of one step: a claimed row loses its claim only  *)
(* with an excuse, or as the FAILED attempt of a signal with no position.   *)
KeepsClaim(s) ==
  row[s] \in Claimed /\ row'[s] \notin Claimed
    => \/ s \in uncertain' \cup raced'
       \/ deals[s] = 0 /\ row'[s] = "FAILED"

LEMMA ClaimKeptByStep ==
  ASSUME TypeOK, ThreadInv, ClaimInv, [Next]_vars, NEW s \in Signals
  PROVE  KeepsClaim(s)
<1> USE DEF TypeOK, ThreadInv, Busy, Posted, Claimed, Threads, Executors,
            brokerVars, historyVars, KeepsClaim
<1>1. CASE row'[s] = row[s]
  BY <1>1
<1>2. CASE \E t \in Executors : GateBlocks(t) \/ GateDefers(t)
  BY <1>2 DEF GateBlocks, GateDefers, Write, NoteStaleWrite
<1>3. CASE \E k \in Tickers, s1 \in Signals : PendBlocks(k, s1)
  BY <1>3 DEF PendBlocks, Write, NoteStaleWrite
<1>4. CASE \E t \in Threads : SubmitRaises(t) \/ SubmitBlocked(t) \/ Reserve(t)
  BY <1>4 DEF SubmitRaises, SubmitBlocked, Reserve, Write, NoteStaleWrite
<1>5. CASE \E t \in Threads : PostRaises(t)
  BY <1>5 DEF ClaimInv, Excused, PostRaises, Write
<1>6. CASE \E t \in Threads : RecordFailure(t)
  BY <1>6 DEF ClaimInv, Excused, RecordFailure, Write
<1>7. CASE \E t \in Threads : Record(t) \/ ConfirmAnswered(t) \/ ConfirmSilent(t)
  BY <1>7 DEF Record, ConfirmAnswered, ConfirmSilent, Write
<1>8. CASE \E t \in Threads : ConfirmRaises(t)
  BY <1>8 DEF ConfirmRaises, Write
<1>9. CASE UNCHANGED row
  BY <1>9
<1> HIDE DEF TypeOK, ThreadInv, Threads, Executors, KeepsClaim, brokerVars, historyVars
<1>10. CASE Next
  <2>1. ASSUME NEW t \in Executors,
               \/ \E s1 \in Signals, p \in Levels : Request(t, s1, p)
               \/ Begin(t) \/ GatePasses(t)
        PROVE  UNCHANGED row
    BY <2>1 DEF Request, Begin, GatePasses
  <2>2. ASSUME NEW k \in Tickers,
               \/ \E p \in Levels : Tick(k, p)
               \/ \E s1 \in Signals : PendWaits(k, s1) \/ PendPasses(k, s1)
               \/ ListPending(k) \/ EndTick(k) \/ CancelStream(k)
        PROVE  UNCHANGED row
    BY <2>2 DEF Tick, PendWaits, PendPasses, ListPending, EndTick, CancelStream
  <2>3. ASSUME NEW t \in Threads,
               \/ PostLost(t)
               \/ \E v \in Verdicts \ {"none"} : PostAnswered(t, v)
        PROVE  UNCHANGED row
    BY <2>3 DEF PostLost, PostAnswered
  <2>4. ASSUME \/ \E t \in Background : CancelBackground(t)
               \/ Crash
               \/ \E d \in Deals : ClosePosition(d)
        PROVE  UNCHANGED row
    BY <2>4 DEF CancelBackground, Crash, ClosePosition
  <2> QED BY <1>10, StepCases, <1>2, <1>3, <1>4, <1>5, <1>6, <1>7, <1>8, <1>9,
             <2>1, <2>2, <2>3, <2>4
<1>11. CASE UNCHANGED vars
  BY <1>9, <1>11 DEF vars
<1> QED BY <1>10, <1>11

(* A claimed row is never given back to be submitted again, except after a  *)
(* failed attempt or an overwritten row: what the DUPLICATE answer of       *)
(* execute_recommendation rests on.                                         *)
THEOREM ClaimsKept == Spec => ClaimsAreKept
<1>1. TypeOK /\ ThreadInv /\ ClaimInv /\ [Next]_vars
        => [\A s \in Signals : KeepsClaim(s)]_vars
  BY ClaimKeptByStep
<1>2. Spec => [][\A s \in Signals : KeepsClaim(s)]_vars
  BY <1>1, ClaimInvariant, PTL DEF Spec
<1> QED BY <1>2 DEF ClaimsAreKept, KeepsClaim

-------------------------------------------------------------------------------
(* The lock                                                                *)

LEMMA LockStep ==
  ASSUME TypeOK, ThreadInv, LockInv, [Next]_vars
  PROVE  LockInv'
<1> USE BoundAssumption, ThreadAssumption
    DEF TypeOK, ThreadInv, LockInv, Busy, LockHeld, Attached, Running, Deals,
        Threads, Executors, brokerVars, historyVars, threadVars
<1>1. ASSUME NEW t \in Executors, NEW s \in Signals, NEW p \in Levels, Request(t, s, p)
      PROVE  LockInv'
  BY <1>1 DEF Request
<1>2. ASSUME NEW t \in Executors, Begin(t)
      PROVE  LockInv'
  <2>1. CASE row[sub[t]] \in Claimed
    BY <1>2, <2>1 DEF Begin, Finish
  <2>2. CASE row[sub[t]] \notin Claimed
    BY <1>2, <2>2 DEF Begin
  <2> QED BY <2>1, <2>2
<1>3. ASSUME NEW t \in Executors, GateBlocks(t) \/ GateDefers(t)
      PROVE  LockInv'
  <2>1. CASE GateBlocks(t)
    BY <2>1 DEF GateBlocks, Write, NoteStaleWrite, Finish
  <2>2. CASE GateDefers(t)
    BY <2>2 DEF GateDefers, Waits, Write, NoteStaleWrite, Finish
  <2> HIDE DEF LockInv
  <2> QED BY <1>3, <2>1, <2>2
<1>4. ASSUME NEW t \in Executors, GatePasses(t)
      PROVE  LockInv'
  BY <1>4 DEF GatePasses, Goto
<1>5. ASSUME NEW k \in Tickers, NEW p \in Levels, Tick(k, p)
      PROVE  LockInv'
  BY <1>5 DEF Tick
<1>6. ASSUME NEW k \in Tickers, NEW s \in Signals,
             PendBlocks(k, s) \/ PendWaits(k, s) \/ PendPasses(k, s)
      PROVE  LockInv'
  <2>2. CASE PendBlocks(k, s)
    BY <2>2 DEF PendBlocks, Write, NoteStaleWrite
  <2>3. CASE PendWaits(k, s)
    BY <2>3 DEF PendWaits
  <2>4. CASE PendPasses(k, s)
    BY <2>4 DEF PendPasses
  <2> HIDE DEF LockInv
  <2> QED BY <1>6, <2>2, <2>3, <2>4
<1>7. ASSUME NEW k \in Tickers, ListPending(k) \/ EndTick(k) \/ CancelStream(k)
      PROVE  LockInv'
  <2>1. CASE ListPending(k)
    BY <2>1 DEF ListPending
  <2>2. CASE EndTick(k)
    BY <2>2 DEF EndTick
  <2>3. CASE CancelStream(k)
    BY <2>3 DEF CancelStream
  <2> HIDE DEF LockInv
  <2> QED BY <1>7, <2>1, <2>2, <2>3
<1>8. ASSUME NEW t \in Threads, Finish(t), UNCHANGED cancels, pc[t] \in LockHeld,
             \A s \in Signals : row'[s] = "PENDING_ENTRY" =>
                                row[s] = "PENDING_ENTRY"
      PROVE  LockInv'
  BY <1>8 DEF Finish
<1>9. ASSUME NEW t \in Threads,
             \/ SubmitRaises(t) \/ SubmitBlocked(t) \/ PostRaises(t) \/ RecordFailure(t)
             \/ ConfirmAnswered(t) \/ ConfirmSilent(t) \/ ConfirmRaises(t)
      PROVE  LockInv'
  <2>1. /\ Finish(t) /\ UNCHANGED cancels /\ pc[t] \in LockHeld
        /\ \E status \in Statuses \ {"PENDING_ENTRY"} : Write(sub[t], status)
    BY <1>9 DEF SubmitRaises, SubmitBlocked, PostRaises, RecordFailure, ConfirmAnswered,
                ConfirmSilent, ConfirmRaises, Statuses
  <2> QED BY <1>8, <2>1 DEF Write
<1>10. ASSUME NEW t \in Threads, Reserve(t)
       PROVE  LockInv'
  BY <1>10 DEF Reserve, Write, NoteStaleWrite, Goto
<1>11. ASSUME NEW t \in Threads, PostLost(t)
       PROVE  LockInv'
  BY <1>11 DEF PostLost, OpenPosition, Goto
<1>12. ASSUME NEW t \in Threads, NEW v \in Verdicts \ {"none"}, PostAnswered(t, v)
       PROVE  LockInv'
  BY <1>12 DEF PostAnswered, OpenPosition, Goto
<1>13. ASSUME NEW t \in Threads, Record(t)
       PROVE  LockInv'
  <2>1. sub[t] \in Signals /\ Write(sub[t], "SUBMITTED")
    BY <1>13 DEF Record
  <2>2. /\ pc[t] = "record" /\ UNCHANGED cancels
        /\ Finish(t) \/ Goto(t, "confirm")
    BY <1>13 DEF Record
  <2>3. CASE Finish(t)
    BY <1>8, <2>1, <2>2, <2>3 DEF Write
  <2>4. CASE Goto(t, "confirm")
    BY <2>1, <2>2, <2>4 DEF Write, Goto
  <2> QED BY <2>2, <2>3, <2>4
<1>14. ASSUME NEW t \in Background, CancelBackground(t)
       PROVE  LockInv'
  <2>1. CASE pc[t] = "wait"
    BY <1>14, <2>1 DEF CancelBackground, Finish
  <2>2. CASE pc[t] # "wait"
    BY <1>14, <2>2 DEF CancelBackground
  <2> QED BY <2>1, <2>2
<1>15. CASE Crash
  BY <1>15 DEF Crash
<1>16. ASSUME NEW d \in Deals, ClosePosition(d)
       PROVE  LockInv'
  BY <1>16 DEF ClosePosition
<1>17. CASE UNCHANGED vars
  BY <1>17 DEF vars
<1> HIDE DEF TypeOK, ThreadInv, LockInv, Deals, Threads, Executors, Attached, Running
<1>18. CASE Next
  BY StepCases, <1>18, <1>1, <1>2, <1>3, <1>4, <1>5, <1>6, <1>7, <1>9, <1>10, <1>11,
     <1>12, <1>13, <1>14, <1>15, <1>16
<1> QED BY <1>17, <1>18

LEMMA LockInvariant == Spec => [](TypeOK /\ ThreadInv /\ LockInv)
<1>1. Init => LockInv
  BY DEF Init, LockInv, Busy, LockHeld, Attached, Running, Threads, Executors
<1> QED BY <1>1, TypeInit, TypeStep, LockStep, PTL DEF Spec

-------------------------------------------------------------------------------
(* Market entries                                                          *)

(* A thread that writes a row works on a planned signal or is the executor  *)
(* that holds the lock.                                                     *)
LEMMA OneMarketWriter ==
  ASSUME TypeOK, ThreadInv, LockInv, cancels = 0,
         NEW t \in Threads, pc[t] \in LockHeld, sub[t] \notin Planned
  PROVE  /\ t \in Executors /\ lock = t
         /\ \A u \in Executors : pc[u] \in LockHeld => u = t
  BY DEF TypeOK, ThreadInv, LockInv, LockHeld, Busy, Threads, Executors

LEMMA MarketStep ==
  ASSUME TypeOK, ThreadInv, LockInv, MarketInv, [Next]_vars
  PROVE  MarketInv'
<1> SUFFICES ASSUME cancels' = 0
             PROVE  MarketInv'
  BY DEF MarketInv
<1> USE BoundAssumption, ThreadAssumption
    DEF TypeOK, ThreadInv, MarketInv, Busy, LockHeld, Claimed, Deals,
        Threads, Executors, brokerVars, historyVars, threadVars
<1> SUFFICES ASSUME cancels = 0
             PROVE  MarketInv'
  <2>1. CASE \E t \in Background : CancelBackground(t)
    BY <2>1 DEF CancelBackground, Finish
  <2>2. CASE \E k \in Tickers : CancelStream(k)
    BY <2>2 DEF CancelStream
  <2> QED
    BY <2>1, <2>2, StepCases
    DEF vars, Request, Begin, GateBlocks, GateDefers, GatePasses, Tick, PendBlocks,
        PendWaits, PendPasses, ListPending, EndTick, SubmitRaises, SubmitBlocked, Reserve,
        PostRaises, PostLost, RecordFailure, Record, ConfirmAnswered, ConfirmSilent,
        ConfirmRaises, PostAnswered, Crash, ClosePosition
<1>1. ASSUME NEW t \in Executors, NEW s \in Signals, NEW p \in Levels, Request(t, s, p)
      PROVE  MarketInv'
  BY <1>1 DEF Request
<1>2. ASSUME NEW t \in Executors, Begin(t)
      PROVE  MarketInv'
  BY <1>2 DEF Begin, Finish
<1>3. ASSUME NEW t \in Executors, GatePasses(t)
      PROVE  MarketInv'
  BY <1>3 DEF GatePasses, Goto
<1>4. ASSUME NEW k \in Tickers, NEW p \in Levels, Tick(k, p)
      PROVE  MarketInv'
  BY <1>4 DEF Tick
<1>5. ASSUME NEW k \in Tickers, NEW s \in Signals,
             PendBlocks(k, s) \/ PendWaits(k, s) \/ PendPasses(k, s)
      PROVE  MarketInv'
  <2>2. CASE PendBlocks(k, s)
    BY <2>2 DEF LockInv, PendBlocks, Write, NoteStaleWrite
  <2>3. CASE PendWaits(k, s)
    BY <2>3 DEF PendWaits
  <2>4. CASE PendPasses(k, s)
    BY <2>4 DEF PendPasses
  <2> HIDE DEF MarketInv
  <2> QED BY <1>5, <2>2, <2>3, <2>4
<1>6. ASSUME NEW k \in Tickers, ListPending(k) \/ EndTick(k) \/ CancelStream(k)
      PROVE  MarketInv'
  BY <1>6 DEF ListPending, EndTick, CancelStream
(* A thread of which the step is on its way to the end writes the row of    *)
(* its own signal.                                                          *)
<1>7. ASSUME NEW t \in Threads, Finish(t) \/ Goto(t, "post") \/ Goto(t, "confirm"),
             pc[t] \in LockHeld,
             \A s \in Signals \ {sub[t]} : row'[s] = row[s],
             \/ UNCHANGED raced
             \/ pc[t] \in {"gate", "submit"} /\ NoteStaleWrite(sub[t])
      PROVE  MarketInv'
  <2> HIDE DEF TypeOK, ThreadInv, MarketInv, LockHeld, Claimed
  <2>0. /\ pc \in [Threads -> ProgramPoints]
        /\ sub \in [Threads -> Signals \cup {NoSignal}]
        /\ t \in Executors \cup Tickers
    BY DEF TypeOK
  <2>1. /\ pc'[t] \notin {"gate", "submit"}
        /\ \A u \in Threads \ {t} : pc'[u] = pc[u] /\ sub'[u] = sub[u]
    <3>1. CASE Finish(t)
      BY <2>0, <3>1 DEF Finish
    <3>2. CASE Goto(t, "post") \/ Goto(t, "confirm")
      BY <2>0, <3>2 DEF Goto
    <3> QED BY <1>7, <3>1, <3>2
  <2>2. sub[t] \notin Planned =>
          /\ t \in Executors
          /\ \A u \in Executors : pc[u] \in LockHeld => u = t
    BY <1>7, OneMarketWriter
  <2>3. ASSUME NEW u \in Executors, u # t,
               pc[u] \in {"gate", "submit"}, sub[u] \notin Planned
        PROVE  row'[sub[u]] \notin Claimed
    <3>1. pc[u] \in LockHeld /\ sub[u] \in Signals
      BY <2>3 DEF LockHeld, ThreadInv, Busy
    <3>2. sub[u] # sub[t]
      BY <2>2, <2>3, <3>1
    <3>3. row[sub[u]] \notin Claimed
      BY <2>3 DEF MarketInv
    <3> QED BY <1>7, <3>1, <3>2, <3>3
  <2>4. raced' \subseteq Planned
    <3>1. CASE UNCHANGED raced \/ sub[t] \in Planned
      BY <1>7, <3>1 DEF NoteStaleWrite, MarketInv
    <3>2. CASE pc[t] \in {"gate", "submit"} /\ NoteStaleWrite(sub[t]) /\ sub[t] \notin Planned
      BY <2>2, <3>2 DEF NoteStaleWrite, MarketInv
    <3> QED BY <1>7, <3>1, <3>2
  <2> QED BY <2>1, <2>3, <2>4 DEF MarketInv
<1>8. ASSUME NEW t \in Threads,
             \/ t \in Executors /\ (GateBlocks(t) \/ GateDefers(t))
             \/ SubmitRaises(t) \/ SubmitBlocked(t) \/ Reserve(t)
      PROVE  MarketInv'
  <2> HIDE DEF MarketInv
  <2>1. /\ pc[t] \in {"gate", "submit"} /\ NoteStaleWrite(sub[t])
        /\ Finish(t) \/ Goto(t, "post")
    BY <1>8 DEF GateBlocks, GateDefers, SubmitRaises, SubmitBlocked, Reserve
  <2>2. \A s \in Signals \ {sub[t]} : row'[s] = row[s]
    BY <1>8 DEF GateBlocks, GateDefers, SubmitRaises, SubmitBlocked, Reserve, Write
  <2> QED BY <2>1, <2>2, <1>7
<1>9. ASSUME NEW t \in Threads,
             \/ PostRaises(t) \/ RecordFailure(t) \/ Record(t)
             \/ ConfirmAnswered(t) \/ ConfirmSilent(t) \/ ConfirmRaises(t)
      PROVE  MarketInv'
  <2> HIDE DEF MarketInv
  <2>1. /\ pc[t] \in LockHeld /\ UNCHANGED raced
        /\ Finish(t) \/ Goto(t, "confirm")
    BY <1>9 DEF PostRaises, RecordFailure, Record, ConfirmAnswered, ConfirmSilent,
                ConfirmRaises
  <2>2. \A s \in Signals \ {sub[t]} : row'[s] = row[s]
    BY <1>9 DEF PostRaises, RecordFailure, Record, ConfirmAnswered, ConfirmSilent,
                ConfirmRaises, Write
  <2> QED BY <2>1, <2>2, <1>7
<1>10. ASSUME NEW t \in Threads, PostLost(t)
       PROVE  MarketInv'
  BY <1>10 DEF PostLost, Goto
<1>11. ASSUME NEW t \in Threads, NEW v \in Verdicts \ {"none"}, PostAnswered(t, v)
       PROVE  MarketInv'
  BY <1>11 DEF PostAnswered, Goto
<1>12. ASSUME NEW t \in Background, CancelBackground(t)
       PROVE  MarketInv'
  BY <1>12 DEF CancelBackground, Finish
<1>13. CASE Crash
  BY <1>13 DEF Crash
<1>14. ASSUME NEW d \in Deals, ClosePosition(d)
       PROVE  MarketInv'
  BY <1>14 DEF ClosePosition
<1>15. CASE UNCHANGED vars
  BY <1>15 DEF vars
<1> HIDE DEF TypeOK, ThreadInv, MarketInv, Deals, Threads, Executors
<1>16. CASE Next
  <2>1. Executors \subseteq Threads
    BY DEF Threads
  <2> QED BY StepCases, <2>1, <1>16, <1>1, <1>2, <1>3, <1>4, <1>5, <1>6, <1>8, <1>9, <1>10,
             <1>11, <1>12, <1>13, <1>14
<1> QED BY <1>15, <1>16

(* broker_execution_lock does its part: while no task has been cancelled    *)
(* over its running thread, only the rows of planned entries, which the     *)
(* tick handler submits without the lock, are overwritten while claimed.    *)
THEOREM LockProtects == Spec => []LockProtectsMarketEntries
<1>1. Init => MarketInv
  BY DEF Init, MarketInv, Threads
<1>2. MarketInv => LockProtectsMarketEntries
  BY DEF MarketInv, LockProtectsMarketEntries
<1>3. Spec => []MarketInv
  BY <1>1, LockInvariant, MarketStep, PTL DEF Spec
<1> QED BY <1>2, <1>3, PTL

-------------------------------------------------------------------------------
(* The open-position limit                                                 *)

(* While no task has been cancelled an executor and a ticker, and nobody    *)
(* else, can be between the count of the positions and the POST.            *)
LEMMA TwoSubmitters ==
  ASSUME TypeOK, ThreadInv, LockInv, cancels = 0,
         NEW t \in Threads, NEW u \in Threads, NEW w \in Threads,
         pc[t] = "post", pc[u] = "post", pc[w] = "post"
  PROVE  t = u \/ t = w \/ u = w
<1>1. ASSUME NEW x \in Executors, NEW y \in Executors, pc[x] = "post", pc[y] = "post"
      PROVE  x = y
  BY <1>1 DEF LockInv, LockHeld
<1>2. ASSUME NEW x \in Tickers, NEW y \in Tickers, pc[x] = "post", pc[y] = "post"
      PROVE  x = y
  BY <1>2 DEF LockInv, Attached, Running
<1> QED BY <1>1, <1>2 DEF Threads

(* Whoever opens a position leaves the POST.                                *)
LEMMA OpenKeepsLimit ==
  ASSUME TypeOK, ThreadInv, LockInv, LimitInv, UNCHANGED cancels,
         NEW t \in Threads, pc[t] = "post", OpenPosition(sub[t]),
         NEW point \in {"record", "fail"}, Goto(t, point)
  PROVE  LimitInv'
<1> DEFINE d == <<sub[t], deals[sub[t]] + 1>>
<1>1. /\ IsFiniteSet(positions)
      /\ positions' = positions \cup {d}
  BY DEF LimitInv, OpenPosition
<1>2. /\ IsFiniteSet(positions')
      /\ Cardinality(positions') <= Cardinality(positions) + 1
      /\ Cardinality(positions) \in Nat /\ Cardinality(positions') \in Nat
  <2>1. /\ IsFiniteSet(positions \cup {d})
        /\ \/ Cardinality(positions \cup {d}) = Cardinality(positions)
           \/ Cardinality(positions \cup {d}) = Cardinality(positions) + 1
    BY <1>1, FS_AddElement
  <2>2. Cardinality(positions) \in Nat
    BY <1>1, FS_CardinalityType
  <2> QED BY <1>1, <2>1, <2>2
<1>3. \A u \in Threads : pc'[u] = "post" => u # t /\ pc[u] = "post"
  BY DEF Goto, TypeOK
<1>4. SUFFICES ASSUME cancels = 0
               PROVE  LimitInv'
  BY <1>2 DEF LimitInv
<1>5. /\ Cardinality(positions) <= MaxOpen
      /\ \A u \in Threads \ {t} : pc[u] = "post" => Cardinality(positions) < MaxOpen
  BY <1>4 DEF LimitInv
<1>6. ASSUME NEW u \in Threads, NEW w \in Threads, pc'[u] = "post", pc'[w] = "post"
      PROVE  u = w
  BY <1>3, <1>4, <1>6, TwoSubmitters
<1>7. Cardinality(positions') <= MaxOpen + 1
  BY <1>2, <1>5, BoundAssumption
<1>8. \A u \in Threads : pc'[u] = "post" => Cardinality(positions') <= MaxOpen
  BY <1>2, <1>3, <1>5, BoundAssumption
<1> QED BY <1>2, <1>6, <1>7, <1>8 DEF LimitInv

LEMMA LimitStep ==
  ASSUME TypeOK, ThreadInv, LockInv, LimitInv, [Next]_vars
  PROVE  LimitInv'
(* Most steps neither open a position nor send a thread to the POST.        *)
<1>1. ASSUME positions' \subseteq positions,
             \A t \in Threads : pc'[t] = "post" => pc[t] = "post",
             cancels' = 0 => cancels = 0
      PROVE  LimitInv'
  <2>1. /\ IsFiniteSet(positions) /\ IsFiniteSet(positions')
        /\ Cardinality(positions') <= Cardinality(positions)
        /\ Cardinality(positions) \in Nat /\ Cardinality(positions') \in Nat
    BY <1>1, FS_Subset, FS_CardinalityType DEF LimitInv
  <2> QED BY <1>1, <2>1, BoundAssumption DEF LimitInv
<1>2. ASSUME NEW t \in Threads, Reserve(t)
      PROVE  LimitInv'
  <2>1. /\ UNCHANGED <<positions, cancels>> /\ pc' = [pc EXCEPT ![t] = "post"]
        /\ ~(Cardinality(positions) >= MaxOpen)
    BY <1>2 DEF Reserve, LimitReached, Goto, brokerVars
  <2>2. IsFiniteSet(positions) /\ Cardinality(positions) \in Nat
    BY FS_CardinalityType DEF LimitInv
  <2> QED BY <2>1, <2>2, BoundAssumption DEF LimitInv
<1>3. ASSUME NEW t \in Threads, PostLost(t)
      PROVE  LimitInv'
  BY <1>3, OpenKeepsLimit DEF PostLost
<1>4. ASSUME NEW t \in Threads, NEW v \in Verdicts \ {"none"}, PostAnswered(t, v)
      PROVE  LimitInv'
  <2>1. /\ pc[t] = "post" /\ Goto(t, "record") /\ UNCHANGED cancels
        /\ OpenPosition(sub[t]) \/ UNCHANGED positions
    BY <1>4 DEF PostAnswered, brokerVars, historyVars
  <2>2. \A u \in Threads : pc'[u] = "post" => pc[u] = "post"
    BY <2>1 DEF Goto, TypeOK
  <2> QED BY <1>1, <2>1, <2>2, OpenKeepsLimit
<1> USE DEF TypeOK, Threads, Executors, brokerVars, historyVars, threadVars
<1>5. ASSUME NEW t \in Executors,
             \/ \E s \in Signals, p \in Levels : Request(t, s, p)
             \/ Begin(t) \/ GateBlocks(t) \/ GateDefers(t) \/ GatePasses(t)
      PROVE  LimitInv'
  BY <1>1, <1>5 DEF Request, Begin, GateBlocks, GateDefers, GatePasses, Finish, Goto
<1>6. ASSUME NEW k \in Tickers,
             \/ \E p \in Levels : Tick(k, p)
             \/ \E s \in Signals :
                  PendBlocks(k, s) \/ PendWaits(k, s) \/ PendPasses(k, s)
             \/ ListPending(k) \/ EndTick(k)
      PROVE  LimitInv'
  BY <1>1, <1>6 DEF Tick, PendBlocks, PendWaits, PendPasses, ListPending, EndTick
<1>7. ASSUME NEW t \in Threads,
             \/ SubmitRaises(t) \/ SubmitBlocked(t) \/ PostRaises(t) \/ RecordFailure(t)
             \/ Record(t) \/ ConfirmAnswered(t) \/ ConfirmSilent(t) \/ ConfirmRaises(t)
      PROVE  LimitInv'
  <2>1. /\ UNCHANGED <<positions, cancels>>
        /\ Finish(t) \/ Goto(t, "confirm")
    BY <1>7 DEF SubmitRaises, SubmitBlocked, PostRaises, RecordFailure, Record,
                ConfirmAnswered, ConfirmSilent, ConfirmRaises
  <2> QED BY <1>1, <2>1 DEF Finish, Goto
<1>8. CASE \/ \E t \in Background : CancelBackground(t)
           \/ \E k \in Tickers : CancelStream(k)
           \/ Crash
           \/ \E d \in Deals : ClosePosition(d)
  BY <1>1, <1>8, BoundAssumption
  DEF CancelBackground, CancelStream, Crash, ClosePosition, Finish
<1>9. CASE UNCHANGED vars
  BY <1>1, <1>9 DEF vars
<1> HIDE DEF TypeOK, Threads, Executors
<1>10. CASE Next
  BY StepCases, <1>10, <1>2, <1>3, <1>4, <1>5, <1>6, <1>7, <1>8
<1> QED BY <1>9, <1>10

(* The count of the open positions and the POST are not atomic: the tick    *)
(* handler takes no lock.  While no task has been cancelled over its        *)
(* running thread the account exceeds the limit by one position at most.    *)
THEOREM Overshoot == Spec => []OvershootBounded
<1>1. Init => LimitInv
  BY BoundAssumption, FS_EmptySet DEF Init, LimitInv, Threads
<1>2. LimitInv => OvershootBounded
  BY DEF LimitInv, OvershootBounded
<1>3. Spec => []LimitInv
  BY <1>1, LockInvariant, LimitStep, PTL DEF Spec
<1> QED BY <1>2, <1>3, PTL

-------------------------------------------------------------------------------
(* OrderOutcomes                                                           *)


(* The composition adds the outcome columns and changes nothing else: every      *)
(* step is one of CapitalExecution or leaves its state alone.                    *)
LEMMA StepIsExecution ==
  ASSUME [OrdersNext]_allVars
  PROVE  [Next]_vars
<1>1. CASE UNCHANGED allVars
  BY <1>1 DEF allVars
<1>2. CASE Execute
  BY <1>2 DEF Execute, Gate, Submit, Pend, Next, ThreadStep, GateStep, TickStep, SubmitStep, Threads
<1>3. ASSUME NEW t \in Tickers, NEW p \in Levels \ {NoPrice}, NEW losses, NEW wins,
             PriceTick(t, p, losses, wins)
      PROVE  [Next]_vars
  BY <1>3 DEF PriceTick, Next
<1>4. ASSUME NEW t \in Tickers, ListEntries(t) \/ TickEnds(t)
      PROVE  [Next]_vars
  BY <1>4 DEF ListEntries, TickEnds, Next, ThreadStep, TickStep, Threads
<1>5. ASSUME NEW r, NEW losses, NEW wins, Read(r, losses, wins)
      PROVE  [Next]_vars
  BY <1>5 DEF Read
<1>6. ASSUME NEW r, NEW s, Judge(r, s)
      PROVE  [Next]_vars
  BY <1>6 DEF Judge
<1>7. CASE Restart
  BY <1>7 DEF Restart, Next
<1> QED
  BY <1>1, <1>2, <1>3, <1>4, <1>5, <1>6, <1>7 DEF OrdersNext

THEOREM ImplementsExecution == OrdersSpec => Spec
<1>1. OrdersInit => Init
  BY DEF OrdersInit
<1>2. [OrdersNext]_allVars => [Next]_vars
  BY StepIsExecution
<1> QED
  BY <1>1, <1>2, PTL DEF OrdersSpec, Spec

-------------------------------------------------------------------------------
(* Who changes an outcome that is settled                                  *)

Outcomes == {"PENDING", "WIN", "LOSS"}
Ids      == {"deal_reference", "deal_id"}
Columns  == [outcome : Outcomes, deal : SUBSET Ids]

OrdersType ==
  /\ outcome \in [Signals -> Outcomes]
  /\ deal \in [Signals -> SUBSET Ids]
  /\ kept \in [Tickers -> [Signals -> Columns]]
  /\ due \in [Refreshers -> SUBSET Signals]
  /\ redone \in [Refreshers -> SUBSET Signals]

\* An order a refresh has listed had no outcome then.
ListedUnsettled ==
  \A r \in Refreshers : \A s \in due[r] : outcome[s] = "PENDING" \/ s \in redone[r]

OInv == OrdersType /\ ListedUnsettled

\* The submission changes the outcome of the order it works on, and only like so.
Upserts(t) ==
  outcome' = [outcome EXCEPT ![sub[t]] =
                IF t \in Tickers THEN kept[t][sub[t]].outcome ELSE "PENDING"]

LEMMA ExecuteOutcome ==
  ASSUME Execute
  PROVE  UNCHANGED outcome \/ \E t \in Threads : Upserts(t)
<1>1. ASSUME NEW t \in Threads, Gate(t) \/ Submit(t)
      PROVE  UNCHANGED outcome \/ Upserts(t)
  BY <1>1 DEF Gate, Submit, Upsert, Failure, SetId, Upserts, columnVars
<1> QED
  BY <1>1 DEF Execute, Threads, columnVars

LEMMA ExecuteType ==
  ASSUME OrdersType, Execute
  PROVE  OrdersType'
<1> USE DEF OrdersType
<1>1. outcome' \in [Signals -> Outcomes]
  <2>1. ASSUME NEW t \in Threads, Upserts(t)  PROVE outcome' \in [Signals -> Outcomes]
    <3>1. sub[t] \in Signals => IF t \in Tickers THEN kept[t][sub[t]].outcome \in Outcomes ELSE TRUE
      BY DEF Columns
    <3> QED
      BY <2>1, <3>1 DEF Upserts, Outcomes
  <2> QED
    BY <2>1, ExecuteOutcome
<1>2. deal' \in [Signals -> SUBSET Ids]
  <2>1. ASSUME NEW t \in Threads, Gate(t) \/ Submit(t)  PROVE deal' \in [Signals -> SUBSET Ids]
    <3>1. CASE UNCHANGED deal
      BY <3>1
    <3>2. CASE /\ t \in Tickers
               /\ deal' = [deal EXCEPT ![sub[t]] = @ \cup kept[t][sub[t]].deal]
      <4>1. sub[t] \in Signals => kept[t][sub[t]].deal \subseteq Ids
        BY <3>2 DEF Columns
      <4> QED
        BY <3>2, <4>1
    <3>3. CASE \E id \in Ids, known \in BOOLEAN : SetId(t, id, known)
      <4>1. PICK id \in Ids, known \in BOOLEAN :
              deal' = [deal EXCEPT ![sub[t]] = IF known THEN @ \cup {id} ELSE @ \ {id}]
        BY <3>3 DEF SetId
      <4>2. ASSUME NEW D \in SUBSET Ids
            PROVE  (IF known THEN D \cup {id} ELSE D \ {id}) \in SUBSET Ids
        OBVIOUS
      <4> QED
        BY <4>1, <4>2
    <3> QED
      BY <2>1, <3>1, <3>2, <3>3 DEF Gate, Submit, Upsert, Failure, columnVars, Ids
  <2> QED
    BY <2>1 DEF Execute, Threads, columnVars
<1>3. UNCHANGED <<kept, due>> /\ redone' \in [Refreshers -> SUBSET Signals]
  BY DEF Execute, NoteRewrites, refreshVars
<1> QED
  BY <1>1, <1>2, <1>3

LEMMA ListedStep ==
  ASSUME OInv, [OrdersNext]_allVars
  PROVE  OInv'
<1> USE DEF OInv
<1>1. CASE UNCHANGED allVars
  BY <1>1 DEF allVars, orderVars, OrdersType, ListedUnsettled
<1>2. CASE Execute
  <2>1. OrdersType'
    BY <1>2, ExecuteType
  <2>2. ListedUnsettled'
    BY <1>2 DEF Execute, NoteRewrites, refreshVars, ListedUnsettled, OrdersType
  <2> QED
    BY <2>1, <2>2
<1>3. ASSUME NEW r \in Refreshers, NEW losses, NEW wins, List(r, losses, wins),
             losses \subseteq Signals, wins \subseteq Signals
      PROVE  OInv'
  BY <1>3 DEF List, ToJudge, columnVars, OrdersType, ListedUnsettled
<1>4. ASSUME NEW t \in Tickers, ListEntries(t)  PROVE OInv'
  <2>1. [s \in Signals |-> IF s \in todo'[t] THEN [outcome |-> outcome[s], deal |-> deal[s]]
                           ELSE Unlisted[s]] \in [Signals -> Columns]
    BY DEF OrdersType, Columns, Unlisted, Outcomes
  <2> QED
    BY <1>4, <2>1 DEF ListEntries, columnVars, refreshVars, OrdersType, ListedUnsettled
<1>5. ASSUME NEW t \in Tickers, TickEnds(t)  PROVE OInv'
  <2>1. Unlisted \in [Signals -> Columns]
    BY DEF Columns, Unlisted, Outcomes
  <2> QED
    BY <1>5, <2>1 DEF TickEnds, columnVars, refreshVars, OrdersType, ListedUnsettled
<1>6. ASSUME NEW r \in Refreshers, NEW x \in Signals, Judge(r, x)  PROVE OInv'
  <2>1. outcome' \in [Signals -> Outcomes]
    BY <1>6 DEF Judge, OrdersType, Outcomes
  <2>2. due' \in [Refreshers -> SUBSET Signals] /\ redone' \in [Refreshers -> SUBSET Signals]
    BY <1>6 DEF Judge, NoteRewrites, OrdersType
  <2>3. ListedUnsettled'
    <3> SUFFICES ASSUME NEW q \in Refreshers, NEW s \in due'[q], s \notin redone'[q]
                 PROVE  outcome'[s] = "PENDING"
      BY DEF ListedUnsettled
    <3>1. s \in due[q] /\ s \in Signals
      BY <1>6 DEF Judge, OrdersType
    <3>2. outcome'[s] = outcome[s] /\ s \notin redone[q]
      BY <1>6, <3>1 DEF Judge, NoteRewrites, OrdersType
    <3> QED
      BY <3>1, <3>2 DEF ListedUnsettled
  <2> QED
    BY <1>6, <2>1, <2>2, <2>3 DEF Judge, OrdersType
<1>7. CASE Restart
  <2>1. Unlisted \in [Signals -> Columns]
    BY DEF Columns, Unlisted, Outcomes
  <2> QED
    BY <1>7, <2>1 DEF Restart, columnVars, OrdersType, ListedUnsettled
<1> QED
  BY <1>1, <1>2, <1>3, <1>4, <1>5, <1>6, <1>7 DEF OrdersNext, PriceTick, Read, Refreshers

LEMMA ListedInvariant == OrdersSpec => []OInv
<1>1. OrdersInit => OInv
  BY DEF OrdersInit, OInv, OrdersType, ListedUnsettled, Unlisted, Outcomes, Columns
<1> QED
  BY <1>1, ListedStep, PTL DEF OrdersSpec

(* An outcome that is settled becomes the opposite only by a refresh that had    *)
(* listed the order before its outcome was written, or by the tick handler that  *)
(* writes back an entry as it had listed it.                                     *)
THEOREM SettledByTheFirstHit == OrdersSpec => FirstHitStands
<1>1. ASSUME OInv, [OrdersNext]_allVars, NEW s \in Signals,
             outcome[s] # "PENDING", outcome'[s] \notin {"PENDING", outcome[s]}
      PROVE  \/ \E r \in Refreshers : s \in due[r] \cap redone[r]
             \/ \E t \in Tickers : sub[t] = s /\ kept[t][s].outcome = outcome'[s]
  <2>1. CASE Execute
    <3>1. PICK t \in Threads : Upserts(t)
      BY <1>1, <2>1, ExecuteOutcome
    <3> QED
      BY <1>1, <3>1 DEF Upserts, OInv, OrdersType
  <2>2. ASSUME NEW r \in Refreshers, NEW x \in Signals, Judge(r, x)
        PROVE  s \in due[r] \cap redone[r]
    BY <1>1, <2>2 DEF Judge, OInv, OrdersType, ListedUnsettled
  <2>3. CASE UNCHANGED outcome
    BY <1>1, <2>3
  <2> QED
    BY <1>1, <2>1, <2>2, <2>3
       DEF OrdersNext, PriceTick, Read, List, ListEntries, TickEnds, Restart, columnVars, allVars, orderVars
<1>2. OInv /\ [OrdersNext]_allVars
        => [\A s \in Signals :
              outcome[s] # "PENDING" /\ outcome'[s] \notin {"PENDING", outcome[s]}
                => \/ \E r \in Refreshers : s \in due[r] \cap redone[r]
                   \/ \E t \in Tickers : sub[t] = s /\ kept[t][s].outcome = outcome'[s]]_allVars
  BY <1>1
<1> QED
  BY <1>2, ListedInvariant, PTL DEF OrdersSpec, FirstHitStands

(* The submission takes an outcome away with a new attempt on a row that may be  *)
(* submitted again, with one that failed, or where it overwrites a claim.        *)
THEOREM OutcomesGoWithAttempts == OrdersSpec => OutcomeGoesWithItsAttempt
<1>1. ASSUME TypeOK, OInv, [OrdersNext]_allVars, NEW s \in Signals,
             outcome[s] # "PENDING", outcome'[s] = "PENDING", row[s] \in Claimed
      PROVE  row'[s] = "FAILED" \/ s \in raced'
  <2>1. CASE Execute
    <3>1. ASSUME NEW t \in Threads, Gate(t) \/ Submit(t), outcome' # outcome
          PROVE  row'[s] = "FAILED" \/ s \in raced'
      <4>1. Upserts(t)
        BY <3>1 DEF Gate, Submit, Upsert, Failure, SetId, Upserts, columnVars
      <4>2. sub[t] = s
        BY <1>1, <4>1 DEF Upserts, OInv, OrdersType
      <4>3. CASE GateBlocks(t) \/ GateDefers(t) \/ SubmitBlocked(t) \/ Reserve(t)
        BY <1>1, <4>2, <4>3 DEF GateBlocks, GateDefers, SubmitBlocked, Reserve, NoteStaleWrite
      <4>4. CASE SubmitRaises(t) \/ PostRaises(t) \/ RecordFailure(t) \/ ConfirmRaises(t)
        BY <1>1, <4>2, <4>4 DEF SubmitRaises, PostRaises, RecordFailure, ConfirmRaises, Write, TypeOK
      <4> QED
        BY <3>1, <4>3, <4>4 DEF Gate, Submit, SetId, columnVars
    <3> QED
      BY <1>1, <2>1, <3>1 DEF Execute, Threads, columnVars
  <2>2. ASSUME NEW r \in Refreshers, NEW x \in Signals, Judge(r, x)
        PROVE  FALSE
    BY <1>1, <2>2 DEF Judge, OInv, OrdersType
  <2>3. CASE UNCHANGED outcome
    BY <1>1, <2>3
  <2> QED
    BY <1>1, <2>1, <2>2, <2>3
       DEF OrdersNext, PriceTick, Read, List, ListEntries, TickEnds, Restart, columnVars, allVars, orderVars
<1>2. TypeOK /\ OInv /\ [OrdersNext]_allVars
        => [\A s \in Signals :
              outcome[s] # "PENDING" /\ outcome'[s] = "PENDING"
                => \/ row[s] \notin Claimed
                   \/ row'[s] = "FAILED"
                   \/ s \in raced']_allVars
  BY <1>1
<1> QED
  BY <1>2, ListedInvariant, ImplementsExecution, TypeCorrect, PTL
     DEF OrdersSpec, OutcomeGoesWithItsAttempt

===============================================================================
