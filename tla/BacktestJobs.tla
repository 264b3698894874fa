----------------------------- MODULE BacktestJobs -----------------------------
(***************************************************************************)
(* The backtest jobs of api.py: the market supervisor starts a walk-       *)
(* forward run for every closure of the market and waits for it no longer  *)
(* than its timeout, a user starts runs by POST /api/backtests/run. A job  *)
(* waits for a worker thread, which nothing stops: it creates the row of   *)
(* its run, replays its folds, marks the row COMPLETED and then writes     *)
(* what belongs to the run. The trades of all replays go into one list of  *)
(* the process, and a walk-forward run takes its trades from the end of    *)
(* that list. What a replay does to the system is in SignalCycles.         *)
(*                                                                         *)
(* A restart marks the rows that are RUNNING as INTERRUPTED and makes rows *)
(* of the report folders that seem to have none.                           *)
(*                                                                         *)
(* A run's id is no one's own. A client may post any id, one that is there *)
(* or a closure's, with any run_type, and an id that is generated is the   *)
(* second and a row count, which two posts may read at once. So jobs are   *)
(* told apart from the runs they write: any number of jobs, one after the  *)
(* other or at once, may work on the rows of one id.                       *)
(***************************************************************************)
EXTENDS MarketHours, Sequences, FiniteSets

CONSTANTS
  Instants,     \* bound: the times at which the clock is looked at
  Backtests, WalkForwards,   \* ids that users post a BACKTEST, a WALK_FORWARD run with
  Posts,        \* bound: how often each of them is posted
  Named,        \* ids that start with WF-, WALK or LEGACY
  Workers,      \* threads of the default executor that jobs may hold at once
  Folds,        \* bound: the folds of a walk-forward run
  Finds,        \* bound: how many trades a fold may find, if it finds any
  Quiet,        \* bound: ids whose jobs find no trade
  None,
  MaxMishaps    \* bound: failing statements and restarts of the process

Keys == {market_hours_state(now).key : now \in Instants} \ {NoKey}
Runs == Keys \cup Backtests \cup WalkForwards

\* A job, and the thread it runs in, is named by its run, by what has asked for it and
\* by a number; OneThreadPerClosure says that a closure needs no second.
Threads ==
  (Keys \X {"CLOSURE"} \X (1..2))
    \cup (Backtests \X {"BACKTEST"} \X (1..Posts))
    \cup (WalkForwards \X {"WALK_FORWARD"} \X (1..Posts))

Results == [by : Threads, total : Nat]

ASSUME JobsAssumption ==
  /\ Instants \subseteq Nat /\ Instants # {}
  /\ Finds \subseteq Nat \ {0}
  /\ Workers \in Nat /\ Folds \in Nat /\ Posts \in Nat /\ MaxMishaps \in Nat
  /\ Keys \cap Named = {}
  /\ None \notin Runs \cup Threads \cup Results
  /\ None \notin {"RUNNING", "COMPLETED", "FAILED", "INTERRUPTED"}

VARIABLES
  now,          \* the clock
  lastKey,      \* last_market_close_backtest_key
  task,         \* the thread market_close_backtest_task waits for, None when done
  threads,      \* each job: [pc, folds, made, taken], at "create" until it has a thread
  pool,         \* storage.backtest_trades: [by, of], the job that replayed the trade
                \* and the run_id it was saved with, or None
  status,       \* backtest_runs: the status of each run's row, or None
  summary,      \* its summary_json: [by, total], the job it is of and the
                \* number_of_trades, or None
  trades,       \* backtest_trades: the jobs that have replayed the run's trades
  metrics,      \* the other rows of the run (metrics, folds, reports): the job they
                \* are of, or None
  folders,      \* reports_dir/walk_forward: the runs with a folder
  copies,       \* backtest_runs: runs with a second row WF-REPORT-...
  mishaps,
  begun,        \* history: jobs that were started
  cut,          \* history: jobs whose thread died or could not note its failure
  met,          \* history: jobs that ran while another ran on their run
  mixed,        \* history: walk-forward jobs that replayed while another thread
                \* changed pool, or read the trades of another run
  doubled       \* history: jobs whose INSERT of trades was repeated

rowVars == <<status, summary>>
childVars == <<trades, metrics>>
fileVars == <<folders, copies>>
jobVars == <<lastKey, task>>
ghostVars == <<begun, cut, met, mixed, doubled>>
vars == <<now, jobVars, threads, pool, rowVars, childVars, fileVars, mishaps, ghostVars>>

-------------------------------------------------------------------------------

At(point) == [pc |-> point, folds |-> 0, made |-> 0, taken |-> <<>>]

AtWork == {t \in Threads : threads[t].pc \notin {"none", "returned", "raised"}}

ThreadFor(key) == <<key, "CLOSURE", IF <<key, "CLOSURE", 1>> \in AtWork THEN 2 ELSE 1>>

\* Those that have a thread, and those of them that write to the run of a job.
Running == {t \in AtWork : threads[t].pc # "create"}
Beside(t) == {u \in Running : u[1] = t[1]}

Start(t) ==
  /\ threads' = [threads EXCEPT ![t] = At("create")]
  /\ begun' = begun \cup {t}

Goto(t, point) == threads' = [threads EXCEPT ![t].pc = point]

\* The thread is over, and only who waits for it learns how.
End(t, how) == threads' = [threads EXCEPT ![t] = At(IF task = t THEN how ELSE "none")]

Fault == mishaps < MaxMishaps /\ mishaps' = mishaps + 1

\* update_backtest_run: an UPDATE, which finds no row before there is one.
Update(run, value, result) ==
  IF status[run] = None
  THEN UNCHANGED rowVars
  ELSE /\ status' = [status EXCEPT ![run] = value]
       /\ summary' = [summary EXCEPT ![run] = result]

-------------------------------------------------------------------------------
(* The supervisor                                                          *)

Hours == market_hours_state(now)

\* Time passes.
Pass ==
  /\ \E later \in {i \in Instants : i > now} :
       /\ \A i \in Instants : i > now => later <= i
       /\ now' = later
  /\ UNCHANGED <<jobVars, threads, pool, rowVars, childVars, fileVars, mishaps, ghostVars>>

\* Mutant: the closure is noted before the job of the last one is looked at.
NotedFirst == lastKey' = Hours.key

\* The supervisor comes back to a closure while another job is awaited.
Busy == UNCHANGED lastKey

\* Mutant: only the row of a closure tells that it has had its job.
ByRowOnly == TRUE

\* The closure has not been handled by this process.
Unhandled == lastKey # Hours.key

\* _trigger_market_close_backtest.
Trigger ==
  /\ ~Hours.open
  /\ Unhandled
  /\ IF task # None
     THEN Busy /\ UNCHANGED <<task, threads, begun>>
     ELSE /\ lastKey' = Hours.key
          /\ IF status[Hours.key] \in {"RUNNING", "COMPLETED", "FAILED"}
             THEN UNCHANGED <<task, threads, begun>>
             ELSE Start(ThreadFor(Hours.key)) /\ task' = ThreadFor(Hours.key)
  /\ UNCHANGED <<now, pool, rowVars, childVars, fileVars, mishaps, cut, met, mixed, doubled>>

\* The FAILED row of a job that is given up; the statement may fail itself.
GiveUp(t) ==
  \/ Update(t[1], "FAILED", None) /\ UNCHANGED <<mishaps, cut>>
  \/ Fault /\ cut' = cut \cup {t} /\ UNCHANGED rowVars

\* _run_market_close_backtest: the thread has ended.
Answer ==
  /\ task # None
  /\ task \notin AtWork
  /\ task' = None
  /\ threads' = [threads EXCEPT ![task] = At("none")]
  /\ IF threads[task].pc = "raised"
     THEN GiveUp(task)
     ELSE UNCHANGED <<rowVars, mishaps, cut>>
  /\ UNCHANGED <<now, lastKey, pool, childVars, fileVars, begun, met, mixed, doubled>>

\* wait_for gives up.  A job that still waits for a thread is taken back, one that has
\* a thread is not stopped.
Timeout ==
  /\ task \in AtWork
  /\ task' = None
  /\ GiveUp(task)
  /\ \/ UNCHANGED threads
     \/ threads[task].pc = "create" /\ threads' = [threads EXCEPT ![task] = At("none")]
  /\ UNCHANGED <<now, lastKey, pool, childVars, fileVars, begun, met, mixed, doubled>>

-------------------------------------------------------------------------------
(* A job                                                                   *)

\* POST /api/backtests/run: whatever the id, nothing looks whether a row or a job has it.
StartManual(t) ==
  /\ t[2] # "CLOSURE"
  /\ t \notin begun
  /\ Start(t)
  /\ UNCHANGED <<now, jobVars, pool, rowVars, childVars, fileVars, mishaps, cut, met, mixed, doubled>>

\* The job has got a thread.  create_backtest_run replaces the status of a row that is
\* there and keeps its summary.  Its error leaves the job: it is outside of the try.
Create(t) ==
  /\ threads[t].pc = "create" /\ Cardinality(Running) < Workers
  /\ \/ /\ status' = [status EXCEPT ![t[1]] = "RUNNING"]
        /\ Goto(t, "replay")
        /\ met' = IF Beside(t) = {} THEN met ELSE met \cup Beside(t) \cup {t}
        /\ UNCHANGED mishaps
     \/ Fault /\ End(t, "raised") /\ UNCHANGED <<status, met>>
  /\ UNCHANGED <<now, jobVars, pool, summary, childVars, fileVars, begun, cut, mixed, doubled>>

\* The other walk-forward jobs that replay while t changes the list.
Overrun(t) ==
  mixed' = mixed \cup {u \in Threads \ {t} : u[2] # "BACKTEST" /\ threads[u].pc = "replay"}

\* A BACKTEST run replays all its candles at once.
FoldsOf(t) == IF t[2] = "BACKTEST" THEN 1 ELSE Folds

\* BacktestingEngine.run over the candles of a fold; one without trades leaves nothing.
Fold(t) ==
  /\ threads[t].pc = "replay"
  /\ threads[t].folds < FoldsOf(t) /\ t[1] \notin Quiet
  /\ \E n \in Finds :
       /\ pool' = pool \o [i \in 1..n |-> [by |-> t, of |-> None]]
       /\ threads' = [threads EXCEPT ![t].folds = @ + 1, ![t].made = @ + n]
  /\ Overrun(t)
  /\ UNCHANGED <<now, jobVars, rowVars, childVars, fileVars, mishaps, begun, cut, met, doubled>>

\* Mutant: the slice [-0:] of a run without trades, which is the whole list.
WholeTail(total) ==
  SubSeq(pool, IF total = 0 \/ Len(pool) < total THEN 1 ELSE Len(pool) - total + 1, Len(pool))

\* backtest_trades[-total:], which is shorter when the list is.
LastOf(total) ==
  IF total = 0 THEN <<>>
  ELSE SubSeq(pool, IF Len(pool) < total THEN 1 ELSE Len(pool) - total + 1, Len(pool))

Origins(items) == [i \in DOMAIN items |-> items[i].by]

\* Other walk-forward jobs that have yet to read their trades from the tables of the
\* service.  These have them under the id of the run, and before under the number of
\* runs so far, which jobs that replay at once may share: any two of them, here.
Readers(t) == {u \in Running \ {t} : u[2] # "BACKTEST" /\ threads[u].pc = "update"}

\* A walk-forward run has as many folds as its candles allow, writes its report folder
\* and looks for its trades in the list.
CollectFolds(t) ==
  /\ threads[t].pc = "replay"
  /\ t[2] # "BACKTEST"
  /\ LET items == Origins(LastOf(threads[t].made))
     IN  \E others \in SUBSET Readers(t) :
           /\ threads' = [u \in Threads |->
                IF u = t THEN [At("update") EXCEPT !.made = threads[t].made, !.taken = items]
                ELSE IF u \in others THEN [threads[u] EXCEPT !.taken = items]
                ELSE threads[u]]
           /\ mixed' = mixed \cup {u \in others : u[1] # t[1]}
  /\ folders' = folders \cup {t[1]}
  /\ UNCHANGED <<now, jobVars, pool, rowVars, childVars, copies, mishaps, begun, cut, met, doubled>>

\* A BACKTEST run has its trades in the report of its replay.
CollectReport(t) ==
  /\ threads[t].pc = "replay"
  /\ t[2] = "BACKTEST"
  /\ threads' = [threads EXCEPT ![t] =
                   [At("update") EXCEPT !.made = threads[t].made,
                                        !.taken = [i \in 1..threads[t].made |-> t]]]
  /\ UNCHANGED <<now, jobVars, pool, rowVars, childVars, fileVars, mishaps, ghostVars>>

\* The row of the run says COMPLETED before its trades are stored.
Complete(t) ==
  /\ threads[t].pc = "update"
  /\ Update(t[1], "COMPLETED", [by |-> t, total |-> threads[t].made])
  /\ Goto(t, "trades")
  /\ UNCHANGED <<now, jobVars, pool, childVars, fileVars, mishaps, ghostVars>>

\* Mutant: an error after the row is COMPLETED is not noted.
Swallowed(t) == End(t, "returned")

\* The except clause of _run_backtest_job_sync comes next.
Caught(t) == Goto(t, "failing")

\* The one way to go through a set of numbers in order.
InOrder(S) ==
  {order \in [1..Cardinality(S) -> S] : \A i, j \in DOMAIN order : i < j => order[i] < order[j]}

\* The list without the trades of the run, and the trades of the job.  What others
\* have added while the list was filtered is lost.
Replaced(t) ==
  \E n \in 0..Len(pool) :
    /\ \A i \in n+1..Len(pool) : pool[i].by # t
    /\ \E kept \in InOrder({i \in 1..n : pool[i].of # t[1]}) :
         pool' = [i \in DOMAIN kept |-> pool[kept[i]]]
                   \o [i \in DOMAIN threads[t].taken |-> [by |-> threads[t].taken[i], of |-> t[1]]]

\* save_backtest_trades: the list of the process, then the DELETE, which may fail.  Of
\* no trades there is no INSERT (_executemany).
DeleteTrades(t) ==
  /\ threads[t].pc = "trades"
  /\ Replaced(t)
  /\ Overrun(t)
  /\ \/ /\ trades' = [trades EXCEPT ![t[1]] = <<>>]
        /\ Goto(t, IF threads[t].taken = <<>> THEN "children" ELSE "insert")
        /\ UNCHANGED mishaps
     \/ Fault /\ Caught(t) /\ UNCHANGED trades
  /\ UNCHANGED <<now, jobVars, rowVars, metrics, fileVars, begun, cut, met, doubled>>

Added(t) == [trades EXCEPT ![t[1]] = @ \o threads[t].taken]

\* The INSERT of trades is tried twice before it fails, and a try may have stored its
\* rows although its answer was an error.
InsertTrades(t) ==
  /\ threads[t].pc = "insert"
  /\ \/ /\ trades' = Added(t)
        /\ Goto(t, "children")
        /\ UNCHANGED <<mishaps, doubled>>
     \/ /\ Fault
        /\ trades' = [trades EXCEPT ![t[1]] = Added(t)[t[1]] \o threads[t].taken]
        /\ Goto(t, "children")
        /\ doubled' = doubled \cup {t}
     \/ /\ Fault
        /\ trades' \in {trades, Added(t)}
        /\ Caught(t)
        /\ UNCHANGED doubled
  /\ UNCHANGED <<now, jobVars, pool, rowVars, metrics, fileVars, begun, cut, met, mixed>>

\* The metrics; for a walk-forward run its own row, folds and reports as well.  Each of
\* them replaces what the run had.
StoreChildren(t) ==
  /\ threads[t].pc = "children"
  /\ metrics' = [metrics EXCEPT ![t[1]] = t]
  /\ End(t, "returned")
  /\ UNCHANGED <<now, jobVars, pool, rowVars, trades, fileVars, mishaps, ghostVars>>

\* Another statement fails; a failing replay may have written its summary.json.
Fails(t) ==
  /\ threads[t].pc \in {"replay", "update", "children"}
  /\ Fault
  /\ Caught(t)
  /\ \/ threads[t].pc = "replay" /\ t[2] # "BACKTEST" /\ folders' = folders \cup {t[1]}
     \/ UNCHANGED folders
  /\ UNCHANGED <<now, jobVars, pool, rowVars, childVars, copies, ghostVars>>

MarkFailed(t) ==
  /\ threads[t].pc = "failing"
  /\ GiveUp(t)
  /\ End(t, IF mishaps' = mishaps THEN "returned" ELSE "raised")
  /\ UNCHANGED <<now, jobVars, pool, childVars, fileVars, begun, met, mixed, doubled>>

-------------------------------------------------------------------------------

\* import_backtest_reports: the folder of a walk-forward run that is not named like one
\* is looked up by another id than the run's, and gets a row of its own.
Import == copies' = copies \cup (folders \ Named)

\* The process ends and starts again: mark_interrupted_backtest_jobs and the import,
\* either of which may fail, which ends the reload and is swallowed.
Restart ==
  /\ Fault
  /\ threads' = [t \in Threads |-> At("none")]
  /\ cut' = cut \cup AtWork
  /\ lastKey' = NoKey /\ task' = None /\ pool' = <<>>
  /\ \/ UNCHANGED <<status, copies>>
     \/ /\ status' = [r \in Runs |-> IF status[r] = "RUNNING" THEN "INTERRUPTED" ELSE status[r]]
        /\ Import \/ UNCHANGED copies
  /\ UNCHANGED <<now, summary, childVars, folders, begun, met, mixed, doubled>>

Init ==
  /\ now \in Instants /\ \A i \in Instants : now <= i
  /\ lastKey = NoKey /\ task = None
  /\ threads = [t \in Threads |-> At("none")]
  /\ pool = <<>>
  /\ status = [r \in Runs |-> None] /\ summary = [r \in Runs |-> None]
  /\ trades = [r \in Runs |-> <<>>] /\ metrics = [r \in Runs |-> None]
  /\ folders = {} /\ copies = {}
  /\ mishaps = 0
  /\ begun = {} /\ cut = {} /\ met = {} /\ mixed = {} /\ doubled = {}

ThreadStep(t) ==
  \/ Create(t) \/ Fold(t) \/ CollectFolds(t) \/ CollectReport(t) \/ Complete(t)
  \/ DeleteTrades(t) \/ InsertTrades(t) \/ StoreChildren(t)
  \/ Fails(t) \/ MarkFailed(t)

Next ==
  \/ Pass \/ Trigger \/ Answer \/ Timeout \/ Restart
  \/ \E t \in Threads : StartManual(t) \/ ThreadStep(t)

Spec == Init /\ [][Next]_vars

\* The supervisor and the timer of wait_for are on the event loop, which goes on; a
\* worker thread may hang.  Each of their steps changes jobVars.
Fairness == WF_jobVars(Trigger \/ Answer \/ Timeout)

FairSpec == Spec /\ Fairness

-------------------------------------------------------------------------------
(* Properties                                                              *)

\* The supervisor never has two jobs at work for one closure, although a thread goes
\* on after its timeout and may not even have created its row then, and although a
\* client may write that row (api.py 409-468).
OneThreadPerClosure ==
  \A t, u \in AtWork : t[1] = u[1] /\ t[2] = "CLOSURE" /\ u[2] = "CLOSURE" => t = u

\* A run that is COMPLETED and at rest has its metrics, folds and reports, although its
\* row says so before they are written, an answer may come after the timeout and other
\* jobs may work under the same id.  They are those of the job that wrote the summary,
\* unless that one had another job beside it.  Only a job that died, or a failure that
\* could not be noted, leaves a COMPLETED run without them.
CompletedIsWhole ==
  \A r \in Runs :
    status[r] = "COMPLETED" /\ summary[r].by \notin cut /\ (\A t \in AtWork : t[1] # r) =>
      /\ metrics[r] # None
      /\ summary[r].by \notin met => metrics[r] = summary[r].by

\* The stored trades of a COMPLETED run are those that the job of its summary has
\* replayed, as many as the summary says, although all jobs keep theirs in one list and
\* an id may have been used before: as soon as no job of the run is about to store
\* trades or to fail.  Excepted are a job that died, one that had another job beside it
\* on its run, one whose INSERT was repeated, and a walk-forward job that replayed
\* while another thread changed the list, or that read another one's trades because
\* both had one number.
TradesAreItsOwn ==
  \A r \in Runs :
    /\ status[r] = "COMPLETED"
    /\ summary[r].by \notin cut \cup met \cup mixed \cup doubled
    /\ \A t \in AtWork : t[1] = r => threads[t].pc \notin {"trades", "insert", "failing"}
    => trades[r] = [i \in 1..summary[r].total |-> summary[r].by]

\* Again and again the market is open or its closure has had a job (one of its own or a
\* client's) and awaits none, even when a thread hangs, statements fail or the job of
\* the last closure is still awaited.
ClosureIsAnswered ==
  []<>(Hours.open \/ (lastKey = Hours.key /\ task = None /\ \E t \in begun : t[1] = Hours.key))
===============================================================================
