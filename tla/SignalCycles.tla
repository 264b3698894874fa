----------------------------- MODULE SignalCycles -----------------------------
(***************************************************************************)
(* The signal cycles that run beside each other: run_signal_cycle of       *)
(* pipeline.py with the writes it makes to the shared storage and to the   *)
(* shared model weights, its callers in api.py, and the backtesting engine *)
(* that replays cycles on the same system.                                 *)
(*                                                                         *)
(* A request (POST /api/signals/run, the seeding of an empty table, the    *)
(* background runner) runs its cycle in a worker thread and holds          *)
(* cycle_execution_lock around it.  A validation of pending signals runs   *)
(* its cycle on the event loop, a backtest job replays in a worker thread, *)
(* both without the lock.  A reader is any handler that asks for the       *)
(* latest recommendation.  Code on the event loop runs to its next await;  *)
(* worker threads run beside it, one write or query at a time.             *)
(*                                                                         *)
(* What a cycle decides is in SignalPipeline, what its validation of       *)
(* outcomes writes is in OutcomeValidation: a cycle is known here by the   *)
(* process that runs it.                                                   *)
(***************************************************************************)
EXTENDS Integers, Sequences, FiniteSets

CONSTANTS
  Requests,     \* cycles run by _run_cycle_with_retries
  Background,   \* those of the background runner, whose task may be cancelled
  Validations,  \* requests for the validation of pending signals
  Jobs,         \* backtest threads, one replayed cycle each
  Readers,      \* handlers that read the latest recommendation
  None,
  MaxAttempts,  \* live_cycle_retry_attempts
  MaxBegun,     \* bound: processes that begin
  MaxFaults,    \* bound: failing provider calls and statements
  MaxCrashes    \* bound: restarts of the process

Cycles == Requests \cup Validations \cup Jobs
Actors == Cycles \cup Readers

ASSUME ActorAssumption ==
  /\ Background \subseteq Requests
  /\ Requests \cap (Validations \cup Jobs \cup Readers) = {}
  /\ Validations \cap (Jobs \cup Readers) = {}
  /\ Jobs \cap Readers = {}
  /\ None \notin Actors

ASSUME BoundAssumption ==
  /\ MaxAttempts \in Nat \ {0} /\ MaxBegun \in Nat \ {0}
  /\ MaxFaults \in Nat /\ MaxCrashes \in Nat

VARIABLES
  pc,           \* what each process does next
  attempt,      \* attempts _run_cycle_with_retries has begun
  rec,          \* the id save_recommendation returned to a cycle
  picked,       \* the id the reader on the event loop has fetched
  lock,         \* holder of cycle_execution_lock
  abandoned,    \* threads whose awaiting task was cancelled
  loop,         \* the process whose handler occupies the event loop
  rows,         \* trade_recommendations: id -> the cycle that inserted it
  listed,       \* length of the in-memory list of recommendations
  lastId,       \* _last_recommendation_id, 0 for None
  snapshots,    \* signal_snapshots: the cycle each id's row describes
  plans,        \* in-memory entry plans: the cycle each id's plans are of
  weights,      \* who set the weights of the model engine last
  faults, crashes,
  shared,       \* history: cycles another process worked beside
  astray,       \* history: cycles that took the weights or the id of another
  repeated,     \* history: cycles whose INSERT was executed twice
  fellBack      \* history: cycles whose INSERT failed

callVars  == <<pc, attempt, rec>>
loopVars  == <<picked, lock, abandoned, loop>>
tableVars == <<rows, listed, lastId, snapshots, plans>>
ghostVars == <<astray, repeated, fellBack>>
boundVars == <<faults, crashes>>
vars == <<callVars, loopVars, tableVars, weights, boundVars, shared, ghostVars>>

-------------------------------------------------------------------------------
(* Program points                                                          *)

ThreadPoints == {"fetch", "weigh", "vote", "keep", "insert", "snapshot", "risk", "validate"}

\* From the start of its cycle until its answer is given out a process works
\* with what it and the storage remember of this cycle.
Busy(p) == pc[p] \in ThreadPoints \cup {"return", "publish", "note"}

Goto(p, point) == pc' = [pc EXCEPT ![p] = point]

\* A process may begin.
Room(p) == pc[p] = "idle" /\ Cardinality({q \in Actors : pc[q] # "idle"}) < MaxBegun

\* Coroutines go on only while no handler occupies the event loop.
OnLoop == loop = None

Fault == faults < MaxFaults /\ faults' = faults + 1

-------------------------------------------------------------------------------
(* The recommendations tables                                              *)

Ids == 1..Len(rows)

\* Every id there can be: a row each, and one more for a repeated INSERT.
AllIds == 1..(Cardinality(Cycles) + MaxFaults)

\* InMemoryStorage.save_recommendation, which PostgreSQLStorage calls first.
KeepInMemory(p) ==
  /\ listed' = listed + 1
  /\ lastId' = listed + 1
  /\ rec' = [rec EXCEPT ![p] = listed + 1]

\* Mutant: the id of the new row is returned and not noted.
InsertUnnoted(p, inserted) ==
  /\ rows' = rows \o inserted
  /\ rec' = [rec EXCEPT ![p] = Len(rows) + Len(inserted)]
  /\ UNCHANGED lastId

\* PostgreSQLStorage.save_recommendation: the id of the new row replaces the one
\* of the list.
InsertRow(p, inserted) ==
  /\ rows' = rows \o inserted
  /\ rec' = [rec EXCEPT ![p] = Len(rows) + Len(inserted)]
  /\ lastId' = Len(rows) + Len(inserted)

\* save_signal_snapshot: one row per id, replaced on conflict; an id without a
\* recommendation violates the foreign key, and the error is swallowed.
SnapshotFor(p, id) ==
  IF id \in Ids THEN [snapshots EXCEPT ![id] = p] ELSE snapshots

\* Mutant: the snapshot goes to the latest recommendation, as the risk check.
SnapshotOfLatest(p) == snapshots' = SnapshotFor(p, lastId)

SaveSnapshot(p) == snapshots' = SnapshotFor(p, rec[p])

\* The id save_risk_check saves under, whoever saved or read it.
LatestId == IF lastId # 0 THEN lastId ELSE listed

\* p goes on with a value of its own, or with that of another.
Takes(p, own) == astray' = IF own THEN astray ELSE astray \cup {p}

-------------------------------------------------------------------------------
(* A cycle, step by step                                                   *)

\* run_live_cycle: the candles come from the provider.
Fetch(p) ==
  /\ pc[p] = "fetch"
  /\ Goto(p, "weigh")
  /\ UNCHANGED <<attempt, rec, loopVars, tableVars, weights, boundVars, ghostVars>>

\* The weights of this cycle replace those of the model engine and are saved.
Weigh(p) ==
  /\ pc[p] = "weigh"
  /\ weights' = p
  /\ Goto(p, "vote")
  /\ UNCHANGED <<attempt, rec, loopVars, tableVars, boundVars, ghostVars>>

\* build_ensemble reads the weights of the engine again.
Vote(p) ==
  /\ pc[p] = "vote"
  /\ Takes(p, weights = p)
  /\ Goto(p, "keep")
  /\ UNCHANGED <<attempt, rec, loopVars, tableVars, weights, boundVars, repeated,
                 fellBack>>

Keep(p) ==
  /\ pc[p] = "keep"
  /\ KeepInMemory(p)
  /\ Goto(p, "insert")
  /\ UNCHANGED <<attempt, loopVars, rows, snapshots, plans, weights, boundVars,
                 ghostVars>>

Insert(p) ==
  /\ pc[p] = "insert"
  /\ InsertRow(p, <<p>>)
  /\ Goto(p, "snapshot")
  /\ UNCHANGED <<attempt, loopVars, listed, snapshots, plans, weights, boundVars,
                 ghostVars>>

\* The answer to the INSERT is lost: it is executed again on a new connection.
InsertAgain(p) ==
  /\ pc[p] = "insert"
  /\ Fault
  /\ InsertRow(p, <<p, p>>)
  /\ repeated' = repeated \cup {p}
  /\ Goto(p, "snapshot")
  /\ UNCHANGED <<attempt, loopVars, listed, snapshots, plans, weights, crashes, astray, fellBack>>

\* Both tries fail: the error is swallowed and the number in the list is the id.
InsertFails(p) ==
  /\ pc[p] = "insert"
  /\ Fault
  /\ fellBack' = fellBack \cup {p}
  /\ Goto(p, "snapshot")
  /\ UNCHANGED <<attempt, rec, loopVars, tableVars, weights, crashes,
                 astray, repeated>>

\* The entry plans, the regime and the votes of an id are kept in memory, its
\* snapshot in memory and as a row; a failed statement leaves the row out.
Snapshot(p) ==
  /\ pc[p] = "snapshot"
  /\ plans' = [plans EXCEPT ![rec[p]] = p]
  /\ \/ SaveSnapshot(p) /\ UNCHANGED faults
     \/ Fault /\ UNCHANGED snapshots
  /\ \E directional \in BOOLEAN : Goto(p, IF directional THEN "risk" ELSE "validate")
  /\ UNCHANGED <<attempt, rec, loopVars, rows, listed, lastId, weights, crashes, ghostVars>>

CheckRisk(p) ==
  /\ pc[p] = "risk"
  /\ Takes(p, LatestId = rec[p])
  /\ Goto(p, "validate")
  /\ UNCHANGED <<attempt, rec, loopVars, tableVars, weights, boundVars, repeated,
                 fellBack>>

\* Mutant: the lock is not left by an error or a cancellation.
StillHeld(p) == lock

\* The lock after p has left it, whatever made it leave.
Released(p) == IF lock = p THEN None ELSE lock

\* Where a cycle goes when run_signal_cycle has returned.
Leave(p) == Goto(p, IF p \in Requests \ abandoned THEN "return" ELSE "done")

\* validate_signal_outcomes; a settled signal, and every replayed trade of a
\* backtest, moves the weights of the engine by what the models have earned.
Validate(p) ==
  /\ pc[p] = "validate"
  /\ weights' \in {weights, p}
  /\ Leave(p)
  /\ loop' = IF loop = p THEN None ELSE loop
  /\ UNCHANGED <<attempt, rec, picked, lock, abandoned, tableVars, boundVars,
                 ghostVars>>

-------------------------------------------------------------------------------
(* What fails                                                              *)

\* The points where an error leaves run_signal_cycle: the provider, the saved
\* weights, the list of recommendations.
Raising == {"fetch", "vote", "validate"}

\* Mutant: any error is tried again.
AnyError(point) == TRUE

\* Only errors of the network are tried again: those of the provider, before the
\* cycle has written anything.
Transient(point) == point = "fetch"

\* The call of a request fails: it waits for its next attempt or gives up.  An
\* abandoned thread, a job and a validation have nobody who tries again.
Fails(p) ==
  /\ pc[p] \in Raising
  /\ Fault
  /\ IF p \in Requests \ abandoned /\ Transient(pc[p]) /\ attempt[p] < MaxAttempts
     THEN Goto(p, "wait")
     ELSE Goto(p, "done")
  /\ lock' = Released(p)
  /\ loop' = IF loop = p THEN None ELSE loop
  /\ UNCHANGED <<attempt, rec, picked, abandoned, tableVars, weights, crashes, ghostVars>>

-------------------------------------------------------------------------------
(* Who runs a cycle                                                        *)

\* A request, or its next attempt, gets cycle_execution_lock.
Acquire(p) ==
  /\ Room(p) \/ pc[p] = "wait"
  /\ OnLoop
  /\ lock = None
  /\ lock' = p
  /\ attempt' = [attempt EXCEPT ![p] = @ + 1]
  /\ Goto(p, "fetch")
  /\ UNCHANGED <<rec, picked, abandoned, loop, tableVars, weights, boundVars,
                 ghostVars>>

\* A validation of pending signals occupies the event loop until it is over.
BeginValidation(p) ==
  /\ Room(p)
  /\ OnLoop
  /\ loop' = p
  /\ Goto(p, "fetch")
  /\ UNCHANGED <<attempt, rec, picked, lock, abandoned, tableVars, weights,
                 boundVars, ghostVars>>

\* BacktestingEngine.run: a window of given candles.
BeginReplay(p) ==
  /\ Room(p)
  /\ Goto(p, "weigh")
  /\ UNCHANGED <<attempt, rec, loopVars, tableVars, weights, boundVars, ghostVars>>

\* The thread has ended: the coroutine leaves the lock and puts the latest id
\* into the payload.
Return(p) ==
  /\ pc[p] = "return"
  /\ OnLoop
  /\ lock' = Released(p)
  /\ Takes(p, lastId = rec[p])
  /\ Goto(p, "publish")
  /\ UNCHANGED <<attempt, rec, picked, abandoned, loop, tableVars, weights,
                 boundVars, repeated, fellBack>>

\* After the events are published, _auto_execute_if_armed executes the
\* recommendation under the latest id.
Execute(p) ==
  /\ pc[p] = "publish"
  /\ OnLoop
  /\ Takes(p, lastId = rec[p])
  /\ Goto(p, "done")
  /\ UNCHANGED <<attempt, rec, loopVars, tableVars, weights, boundVars, repeated,
                 fellBack>>

\* latest_recommendation: the handler waits for the row on the event loop and
\* then notes its id as the latest one.  ORDER BY signal_time DESC LIMIT 1: with
\* replayed windows, and candles that have several rows, it may be any row.
Read(p) ==
  /\ Room(p)
  /\ OnLoop
  /\ picked' \in Ids
  /\ loop' = p
  /\ Goto(p, "note")
  /\ UNCHANGED <<attempt, rec, lock, abandoned, tableVars, weights, boundVars,
                 ghostVars>>

Note(p) ==
  /\ pc[p] = "note"
  /\ lastId' = picked
  /\ picked' = 0
  /\ loop' = None
  /\ Goto(p, "done")
  /\ UNCHANGED <<attempt, rec, lock, abandoned, rows, listed, snapshots, plans,
                 weights, boundVars, ghostVars>>

\* The live workers are stopped: the runner leaves the lock, its thread goes on.
Cancel(p) ==
  /\ OnLoop
  /\ \/ /\ pc[p] \in ThreadPoints
        /\ p \notin abandoned
        /\ abandoned' = abandoned \cup {p}
        /\ UNCHANGED pc
     \/ /\ pc[p] \in {"wait", "return", "publish"}
        /\ Goto(p, "done")
        /\ UNCHANGED abandoned
  /\ lock' = Released(p)
  /\ UNCHANGED <<attempt, rec, picked, loop, tableVars, weights, boundVars,
                 ghostVars>>

\* The process dies and starts again: the tables are left, the list, the plans
\* and the latest id are not.
Crash ==
  /\ crashes < MaxCrashes
  /\ crashes' = crashes + 1
  /\ pc' = [p \in Actors |-> IF pc[p] = "idle" THEN "idle" ELSE "done"]
  /\ lock' = None /\ abandoned' = {} /\ loop' = None /\ picked' = 0
  /\ listed' = 0 /\ lastId' = 0
  /\ plans' = [i \in DOMAIN plans |-> None]
  /\ weights' = None
  /\ UNCHANGED <<attempt, rec, rows, snapshots, faults, ghostVars>>

-------------------------------------------------------------------------------
(* Specification                                                           *)

Init ==
  /\ pc = [p \in Actors |-> "idle"]
  /\ attempt = [p \in Requests |-> 0]
  /\ rec = [p \in Cycles |-> 0]
  /\ lock = None /\ abandoned = {} /\ loop = None /\ picked = 0
  /\ rows = <<>> /\ listed = 0 /\ lastId = 0
  /\ snapshots = [i \in AllIds |-> None]
  /\ plans = [i \in AllIds |-> None]
  /\ weights = None
  /\ faults = 0 /\ crashes = 0
  /\ shared = {} /\ astray = {} /\ repeated = {} /\ fellBack = {}

\* One step of a running cycle.
CycleStep(p) ==
  \/ Fetch(p) \/ Weigh(p) \/ Vote(p) \/ Keep(p) \/ Insert(p) \/ InsertAgain(p)
  \/ InsertFails(p) \/ Snapshot(p) \/ CheckRisk(p) \/ Validate(p) \/ Fails(p)

Step ==
  \/ \E p \in Cycles : CycleStep(p)
  \/ \E p \in Requests : Acquire(p) \/ Return(p) \/ Execute(p)
  \/ \E p \in Validations : BeginValidation(p)
  \/ \E p \in Jobs : BeginReplay(p)
  \/ \E p \in Readers : Read(p) \/ Note(p)
  \/ \E p \in Background : Cancel(p)
  \/ Crash

Overlap == {p \in Actors : Busy(p)}

\* Whoever works while another one does may see what the other one wrote.
Noted == shared' = shared \cup {p \in Overlap' : Overlap' # {p}}

Next == Step /\ Noted

Spec == Init /\ [][Next]_vars

-------------------------------------------------------------------------------
(* Properties                                                              *)

\* The lock is held exactly by the request that works or has worked and whose
\* task lives: an error, a cancellation and a return leave it, and whoever works
\* without it is a thread its task has left behind (api.py 494-511).
LockIsHeldWhileWorking ==
  \A p \in Requests :
    lock = p <=> pc[p] \in ThreadPoints \cup {"return"} /\ p \notin abandoned

\* The snapshot and the entry plans kept under an id describe the recommendation
\* of that id, whoever else has saved or read one in between, unless the INSERT
\* of their cycle has failed and a position in the list was taken for its id
\* (save_recommendation, pipeline.py 466-492).
SnapshotIsOfItsRow ==
  \A id \in AllIds :
    /\ snapshots[id] \notin fellBack \cup {None} => rows[id] = snapshots[id]
    /\ plans[id] \notin fellBack \cup {None} => id \in Ids /\ rows[id] = plans[id]

\* A cycle that nobody worked beside, and whose row was written, is answered for:
\* its ensemble had its own weights, and the id its risk check, its payload and
\* its execution go under is its own, although all of them read what the
\* processes share (_last_recommendation_id, the weights of the model engine).
AloneIsAttributed == astray \subseteq shared \cup fellBack

\* The attempts of a request leave one recommendation between them: what is tried
\* again failed before anything was saved (_is_transient_cycle_error), and only
\* an INSERT whose answer was lost is executed twice.
OneRecommendationPerRequest ==
  \A p \in Cycles \ repeated : Cardinality({id \in Ids : rows[id] = p}) <= 1

===============================================================================
