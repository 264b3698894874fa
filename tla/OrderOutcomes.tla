---------------------------- MODULE OrderOutcomes ----------------------------
(***************************************************************************)
(* CapitalExecution with the outcome columns of execution_orders.  They    *)
(* are written by the upserts of the submission, and by                    *)
(* refresh_execution_outcomes, which lists the executed orders without an  *)
(* outcome and compares each with one price.  The tick handler refreshes   *)
(* before it processes the pending entries, and the endpoints refresh      *)
(* before they list the orders; a refresh takes no lock, runs in a thread  *)
(* of its own and writes the rows it listed whatever happened since.       *)
(***************************************************************************)
EXTENDS CapitalExecution

CONSTANTS
  Readers,      \* threads of the endpoints that refresh the outcomes
  MaxMishaps    \* bound: cancellations and crashes together

ASSUME ReaderAssumption == Readers \cap Threads = {}
ASSUME MishapAssumption == MaxMishaps \in Nat

Refreshers == Tickers \cup Readers

VARIABLES
  outcome,      \* execution_orders: the outcome of the row of each signal
  deal,         \* execution_orders: which deal ids the row holds
  kept,         \* the outcome and the ids a ticker listed with a pending row
  due,          \* the orders a refresh listed and will still write
  won,          \* those of them whose target its price has reached
  redone        \* history: orders due in a refresh whose outcome changed since

columnVars  == <<outcome, deal>>
refreshVars == <<due, won>>
orderVars   == <<outcome, deal, kept, due, won, redone>>
allVars     == <<vars, orderVars>>

Unlisted == [s \in Signals |-> [outcome |-> "PENDING", deal |-> {}]]

Refreshing(r) == due[r] # {}

NoteRewrites ==
  redone' = [r \in Refreshers |->
               (redone[r] \cup {s \in Signals : outcome'[s] # outcome[s]}) \cap due'[r]]

-------------------------------------------------------------------------------
(* The writes of the submission                                            *)

\* create_execution_order: an executor's order has no outcome yet and no ids, a
\* ticker's is the row as it was listed.  An id that is NULL keeps the one stored.
Upsert(t) ==
  LET s == sub[t] IN
  IF t \in Tickers
    THEN /\ outcome' = [outcome EXCEPT ![s] = kept[t][s].outcome]
         /\ deal' = [deal EXCEPT ![s] = @ \cup kept[t][s].deal]
    ELSE /\ outcome' = [outcome EXCEPT ![s] = "PENDING"]
         /\ UNCHANGED deal

\* The attempt raised: an executor upserts its order again, a ticker updates the
\* status of the row.
Failure(t) == IF t \in Tickers THEN UNCHANGED columnVars ELSE Upsert(t)

\* Mutant: the broker's answer is upserted with the rest of the order.
SetIdAfresh(t, id, known) ==
  /\ deal' = [deal EXCEPT ![sub[t]] = IF known THEN @ \cup {id} ELSE @ \ {id}]
  /\ outcome' = [outcome EXCEPT ![sub[t]] = "PENDING"]

\* update_execution_order replaces an id, by NULL too.
SetId(t, id, known) ==
  /\ deal' = [deal EXCEPT ![sub[t]] = IF known THEN @ \cup {id} ELSE @ \ {id}]
  /\ UNCHANGED outcome

Gate(t) ==
  \/ (GateBlocks(t) \/ GateDefers(t)) /\ Upsert(t)
  \/ GatePasses(t) /\ UNCHANGED columnVars

Submit(t) ==
  \/ (SubmitBlocked(t) \/ Reserve(t)) /\ Upsert(t)
  \/ (SubmitRaises(t) \/ PostRaises(t) \/ RecordFailure(t) \/ ConfirmRaises(t)) /\ Failure(t)
  \/ (PostLost(t) \/ \E v \in Verdicts \ {"none"} : PostAnswered(t, v)) /\ UNCHANGED columnVars
  \/ Record(t) /\ SetId(t, "deal_reference", verdict[t] # "noref")
  \/ ConfirmAnswered(t) /\ SetId(t, "deal_id", TRUE)
  \/ ConfirmSilent(t) /\ SetId(t, "deal_id", FALSE)

Pend(t, s) == PendBlocks(t, s) \/ PendWaits(t, s) \/ PendPasses(t, s)

\* A step of the execution threads.
Execute ==
  /\ \/ \E t \in Executors : \E s \in Signals, p \in Levels : Request(t, s, p) /\ UNCHANGED columnVars
     \/ \E t \in Executors : Begin(t) /\ UNCHANGED columnVars
     \/ \E t \in Executors : Gate(t)
     \/ \E t \in Threads : Submit(t)
     \/ \E t \in Tickers, s \in Signals : Pend(t, s) /\ UNCHANGED columnVars
     \/ \E t \in Background : CancelBackground(t) /\ UNCHANGED columnVars
     \/ \E t \in Tickers : CancelStream(t) /\ UNCHANGED columnVars
     \/ \E d \in Deals : ClosePosition(d) /\ UNCHANGED columnVars
  /\ UNCHANGED <<kept, refreshVars>>
  /\ NoteRewrites

-------------------------------------------------------------------------------
(* refresh_execution_outcomes                                              *)

\* executed_only: the order has reached the broker, as far as its row tells.
Executed(s) == row[s] \in Claimed \/ deal[s] # {}

\* Mutant: the orders that have an outcome are compared again.
ToJudgeAgain(hit) == {s \in hit : Executed(s)}

\* The orders a refresh lists, of those whose stop or first target the price hits.
ToJudge(hit) == {s \in hit : outcome[s] = "PENDING" /\ Executed(s)}

\* A refresh lists the orders.  Its price has reached the stop of the orders in
\* losses and the first target of those in wins; what it says of the others is
\* that nothing has happened to them.
List(r, losses, wins) ==
  /\ ~Refreshing(r)
  /\ due' = [due EXCEPT ![r] = ToJudge(losses \cup wins)]
  /\ won' = [won EXCEPT ![r] = ToJudge(wins)]
  /\ UNCHANGED <<columnVars, kept, redone>>

\* A price tick: the handler refreshes the outcomes first ...
PriceTick(t, p, losses, wins) == Tick(t, p) /\ List(t, losses, wins)

\* ... then lists the pending entries with all their columns ...
ListEntries(t) ==
  /\ ~Refreshing(t)
  /\ ListPending(t)
  /\ kept' = [kept EXCEPT ![t] = [s \in Signals |->
                IF s \in todo'[t] THEN [outcome |-> outcome[s], deal |-> deal[s]]
                ELSE Unlisted[s]]]
  /\ UNCHANGED <<columnVars, refreshVars, redone>>

\* ... and ends with the last of them.
TickEnds(t) ==
  /\ ~Refreshing(t)
  /\ EndTick(t)
  /\ kept' = [kept EXCEPT ![t] = Unlisted]
  /\ UNCHANGED <<columnVars, refreshVars, redone>>

\* An endpoint refreshes with the latest price.
Read(r, losses, wins) == List(r, losses, wins) /\ UNCHANGED vars

\* One order is written: the stop makes it a LOSS, the target a WIN.
Judge(r, s) ==
  /\ s \in due[r]
  /\ outcome' = [outcome EXCEPT ![s] = IF s \in won[r] THEN "WIN" ELSE "LOSS"]
  /\ due' = [due EXCEPT ![r] = @ \ {s}]
  /\ won' = [won EXCEPT ![r] = @ \ {s}]
  /\ NoteRewrites
  /\ UNCHANGED <<vars, deal, kept>>

Restart ==
  /\ Crash
  /\ kept' = [t \in Tickers |-> Unlisted]
  /\ due' = [r \in Refreshers |-> {}]
  /\ won' = [r \in Refreshers |-> {}]
  /\ redone' = [r \in Refreshers |-> {}]
  /\ UNCHANGED columnVars

OrdersInit ==
  /\ Init
  /\ outcome = [s \in Signals |-> "PENDING"]
  /\ deal = [s \in Signals |-> {}]
  /\ kept = [t \in Tickers |-> Unlisted]
  /\ due = [r \in Refreshers |-> {}]
  /\ won = [r \in Refreshers |-> {}]
  /\ redone = [r \in Refreshers |-> {}]

OrdersNext ==
  /\ \/ Execute
     \/ \E losses, wins \in SUBSET Signals :
          /\ losses \cap wins = {}
          /\ \/ \E t \in Tickers, p \in Levels \ {NoPrice} : PriceTick(t, p, losses, wins)
             \/ \E r \in Readers : Read(r, losses, wins)
     \/ \E t \in Tickers : ListEntries(t) \/ TickEnds(t)
     \/ \E r \in Refreshers, s \in Signals : Judge(r, s)
     \/ Restart
  /\ cancels' + crashes' <= MaxMishaps

OrdersSpec == OrdersInit /\ [][OrdersNext]_allVars

-------------------------------------------------------------------------------
(* Properties                                                              *)

\* An outcome is settled by the first price that reaches a level: it becomes the
\* opposite only when a refresh writes an order whose outcome was written since the
\* refresh listed it, or when the tick handler submits a pending entry and writes
\* back the outcome the entry had when it was listed.
FirstHitStands ==
  [][\A s \in Signals :
       outcome[s] # "PENDING" /\ outcome'[s] \notin {"PENDING", outcome[s]}
         => \/ \E r \in Refreshers : s \in due[r] \cap redone[r]
            \/ \E t \in Tickers : sub[t] = s /\ kept[t][s].outcome = outcome'[s]]_allVars

\* The submission takes an outcome away only with a new attempt on a row it may
\* submit again, with one that failed, or where a claimed row was overwritten.
OutcomeGoesWithItsAttempt ==
  [][\A s \in Signals :
       outcome[s] # "PENDING" /\ outcome'[s] = "PENDING"
         => \/ row[s] \notin Claimed
            \/ row'[s] = "FAILED"
            \/ s \in raced']_allVars

===============================================================================
