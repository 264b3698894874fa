-------------------------- MODULE OutcomeValidation --------------------------
(***************************************************************************)
(* How a recommendation gets its outcome: the candle walk of               *)
(* outcome_validator.py, the writes of validate_signal_outcomes            *)
(* (pipeline.py) at the end of every cycle, and the outcomes a client      *)
(* posts (api.py, paper_trading.py).                                       *)
(*                                                                         *)
(* A run is one validate_signal_outcomes, in the thread of a cycle; cycles *)
(* of the background task, of HTTP requests and of cancelled tasks may     *)
(* overlap.  A step of a run reaches from one statement of the storage to  *)
(* the next.                                                               *)
(*                                                                         *)
(* Prices are positions along the direction of the trade: a BUY and a SELL *)
(* are the same trade here.  The second and third target, which both make  *)
(* a WIN, are one level.  Times are indices of candles.                    *)
(***************************************************************************)
EXTENDS Naturals, Sequences, FiniteSets

CONSTANTS
  Signals,      \* ids of BUY/SELL recommendations
  Market,       \* those whose entry_type is MARKET
  Runs,         \* concurrent calls of validate_signal_outcomes
  Posters,      \* concurrent calls of the paper outcome endpoint
  Shapes,       \* the candles the market prints, see Candle
  Life,         \* candles from a signal to its expiry_time
  Posts,        \* the outcomes a client posts
  NoSignal,
  MaxCandles,   \* bound: length of the chart
  MaxChanges,   \* bound: candles widened, candles the store forgets
  MaxPosts,     \* bound: posted outcomes
  MaxFaults     \* bound: crashes of the process and writes that fail

\* The levels of a trade, and a candle's extremes against it and in its favour.
\* An odd position is between two levels.
Stop   == 0
Entry  == 2
Tp1    == 4
Target == 6
Candle == {c \in [adv : Stop..Target, fav : Stop..Target] : c.adv <= c.fav}

Actors == Runs \cup Posters

ASSUME SetAssumption == /\ Market \subseteq Signals /\ NoSignal \notin Signals
                        /\ Runs \cap Posters = {} /\ Shapes \subseteq Candle
ASSUME NatAssumption == /\ Life \in Nat /\ MaxCandles \in Nat /\ MaxChanges \in Nat
                        /\ MaxPosts \in Nat /\ MaxFaults \in Nat
ASSUME FiniteAssumption == IsFiniteSet(Actors)

VARIABLES
  chart,        \* the candles of the cycle timeframe since the first signal
  oldest,       \* the oldest of them the candle store still has
  born,         \* the candle at which a signal was made, 0 before
  status,       \* trade_recommendations: outcome_status
  entered,      \* trade_recommendations: entry_triggered
  rows,         \* signal_outcomes: rows of each signal
  counted,      \* calls of record_model_outcome for each signal
  pc,           \* what each actor does next
  window,       \* the candles a run was given
  listed,       \* the entry_triggered of the rows a run listed and not handled
  sub,          \* the signal an actor is writing
  verdict,      \* the outcome it is writing
  overlap,      \* history: two actors were at work at once
  posted,       \* history: the signals a client posted an outcome for
  changed,      \* history: candles widened or forgotten
  posts,        \* history: outcomes posted
  faults        \* history: crashes and failed writes

marketVars  == <<chart, oldest, changed>>
ledgerVars  == <<status, entered, rows, counted>>
actorVars   == <<pc, window, listed, sub, verdict>>
historyVars == <<overlap, posted, posts, faults>>
vars == <<marketVars, born, ledgerVars, actorVars, historyVars>>

-------------------------------------------------------------------------------
(* SignalOutcomeValidator.validate                                         *)

Final   == {"WIN", "LOSS", "PARTIAL_TP", "BREAKEVEN", "MISSED_ENTRY", "EXPIRED",
            "CANCELLED", "UNKNOWN", "NO_TRADE"}
Scored  == {"WIN", "LOSS", "PARTIAL_TP", "BREAKEVEN"}
Waiting == {"PENDING", "WAITING_FOR_ENTRY", "ENTRY_TRIGGERED"}

Deadline(s) == born[s] + Life

\* _entry_touched
Touches(s, c) == s \in Market \/ (c.adv <= Entry /\ Entry <= c.fav)

\* Mutant: a candle that touches the stop and a target is taken for a win.
CloseOptimistic(c, tp1, late) ==
  IF c.fav >= Target THEN "WIN"
  ELSE IF c.adv <= Stop THEN (IF tp1 THEN "PARTIAL_TP" ELSE "LOSS")
  ELSE IF late THEN (IF tp1 THEN "PARTIAL_TP" ELSE "EXPIRED")
  ELSE "OPEN"

\* What candle c does to a trade that is open; tp1 says whether this or an
\* earlier candle of the walk reached the first target.
Close(c, tp1, late) ==
  IF c.adv <= Stop /\ c.fav >= Tp1 THEN "LOSS"
  ELSE IF c.adv <= Stop THEN (IF tp1 THEN "PARTIAL_TP" ELSE "LOSS")
  ELSE IF c.fav >= Target THEN "WIN"
  ELSE IF late THEN (IF tp1 THEN "PARTIAL_TP" ELSE "EXPIRED")
  ELSE "OPEN"

\* One turn of the loop, on the candle c with index i.
Turn(s, walk, i, c) ==
  LET late == i > Deadline(s)
      in   == walk.in \/ Touches(s, c)
      tp1  == walk.tp1 \/ c.fav >= Tp1
  IN  IF walk.result # "OPEN" THEN walk
      ELSE IF late /\ ~walk.in THEN [walk EXCEPT !.result = "MISSED_ENTRY"]
      ELSE IF ~in THEN walk
      ELSE [in |-> TRUE, tp1 |-> tp1, result |-> Close(c, tp1, late)]

\* The walk over the candles after the signal, from the persisted entry.
Walk(s, in, w) ==
  LET first == IF w.from > born[s] THEN w.from ELSE born[s] + 1
      walk[i \in Nat] ==
        IF i < first
          THEN [in |-> in, tp1 |-> FALSE, result |-> "OPEN"]
          ELSE Turn(s, walk[i - 1], i, w.candles[i])
  IN  walk[Len(w.candles)]

\* The status and entry_triggered that validate returns.
Validate(s, in, w) ==
  LET end == Walk(s, in, w)
  IN  IF Len(w.candles) <= born[s] THEN [status |-> "PENDING", in |-> FALSE]
      ELSE IF end.result # "OPEN" THEN [status |-> end.result, in |-> end.in]
      ELSE [status |-> IF end.in THEN "ENTRY_TRIGGERED" ELSE "WAITING_FOR_ENTRY",
            in     |-> end.in]

-------------------------------------------------------------------------------
(* The market and the candle store                                         *)

NewCandle(c) ==
  /\ Len(chart) < MaxCandles
  /\ chart' = Append(chart, c)
  /\ UNCHANGED <<oldest, changed, born, ledgerVars, actorVars, historyVars>>

\* Buckets still forming are stored too (the data-quality gate is off by
\* default): the last candle may get wider after it was read.
Widen(c) ==
  /\ Len(chart) > 0
  /\ changed < MaxChanges
  /\ c # chart[Len(chart)]
  /\ c.adv <= chart[Len(chart)].adv /\ chart[Len(chart)].fav <= c.fav
  /\ chart' = [chart EXCEPT ![Len(chart)] = c]
  /\ changed' = changed + 1
  /\ UNCHANGED <<oldest, born, ledgerVars, actorVars, historyVars>>

\* A cycle gets the last 300 candles, and after a restart perhaps fewer.
Forget ==
  /\ changed < MaxChanges
  /\ oldest' \in (oldest + 1)..Len(chart)
  /\ changed' = changed + 1
  /\ UNCHANGED <<chart, born, ledgerVars, actorVars, historyVars>>

-------------------------------------------------------------------------------
(* The end of a cycle: save_recommendation, validate_signal_outcomes       *)

Idle(a) == pc[a] = "idle"

NoteStart(a) == overlap' = (overlap \/ \E b \in Actors \ {a} : ~Idle(b))

Goto(a, point) == pc' = [pc EXCEPT ![a] = point]

\* The cycle reads its candles ...
Start(r) ==
  /\ Idle(r)
  /\ Len(chart) > 0
  /\ Goto(r, "decide")
  /\ window' = [window EXCEPT ![r] = [from |-> oldest, candles |-> chart]]
  /\ NoteStart(r)
  /\ UNCHANGED <<marketVars, born, ledgerVars, listed, sub, verdict, posted, posts, faults>>

\* ... and, much later, saves a recommendation made at the last of them ...
Recommend(r, s) ==
  /\ pc[r] = "decide"
  /\ born[s] = 0
  /\ Len(window[r].candles) + Life < MaxCandles    \* bound: the chart passes the expiry
  /\ born' = [born EXCEPT ![s] = Len(window[r].candles)]
  /\ Goto(r, "list")
  /\ UNCHANGED <<marketVars, ledgerVars, window, listed, sub, verdict, historyVars>>

Hold(r) ==
  /\ pc[r] = "decide"
  /\ Goto(r, "list")
  /\ UNCHANGED <<marketVars, born, ledgerVars, window, listed, sub, verdict, historyVars>>

\* Mutant: a signal is validated until its first non-final status.
PendingNew == {s \in Signals : born[s] > 0 /\ status[s] = "PENDING"}

Pending == {s \in Signals : born[s] > 0 /\ status[s] \notin Final}

Enlist(r, S) ==
  /\ pc[r] = "list"
  /\ Goto(r, "walk")
  /\ listed' = [listed EXCEPT ![r] = [s \in S |-> entered[s]]]
  /\ UNCHANGED <<marketVars, born, ledgerVars, window, sub, verdict, historyVars>>

\* Mutant: final signals are validated again.
ListAll(r) == Enlist(r, {s \in Signals : born[s] > 0})

\* ... and lists the recommendations without an outcome.
List(r) == Enlist(r, Pending)

Unlist(r, s) ==
  listed' = [listed EXCEPT ![r] = [x \in DOMAIN listed[r] \ {s} |-> listed[r][x]]]

\* A statement that fails is tried once more on a new connection, although the
\* first try may have been committed; one that fails again is logged, and the
\* caller goes on as if it had succeeded.
Attempt(ok) ==
  IF ok THEN UNCHANGED faults ELSE faults < MaxFaults /\ faults' = faults + 1

Update(s, outcome, in, ok) ==
  /\ Attempt(ok)
  /\ IF ok
       THEN /\ status' = [status EXCEPT ![s] = outcome]
            /\ entered' = [entered EXCEPT ![s] = in]
       ELSE UNCHANGED <<status, entered>>

\* Mutant: the row of a signal is replaced.
Upsert(s, ok) ==
  /\ Attempt(ok)
  /\ rows' = IF ok THEN [rows EXCEPT ![s] = 1] ELSE rows

Insert(s, ok) ==
  /\ Attempt(ok)
  /\ \E n \in IF ok THEN {1} ELSE {0, 2} : rows' = [rows EXCEPT ![s] = @ + n]

\* update_recommendation with what the walk says of a listed recommendation.
Judge(r, s, ok) ==
  LET new == Validate(s, listed[r][s], window[r])
  IN  /\ pc[r] = "walk"
      /\ s \in DOMAIN listed[r]
      /\ Unlist(r, s)
      /\ Update(s, new.status, new.in, ok)
      /\ IF new.status \in Final
           THEN /\ Goto(r, "save")
                /\ sub' = [sub EXCEPT ![r] = s]
                /\ verdict' = [verdict EXCEPT ![r] = new.status]
           ELSE UNCHANGED <<pc, sub, verdict>>
      /\ UNCHANGED <<marketVars, born, rows, counted, window, overlap, posted, posts>>

\* The actor is done with its signal.
Release(a, point) ==
  /\ Goto(a, point)
  /\ sub' = [sub EXCEPT ![a] = NoSignal]
  /\ verdict' = [verdict EXCEPT ![a] = "PENDING"]

\* Mutant: every outcome counts for the models.
AfterSaveAlways(r) == Goto(r, "count") /\ UNCHANGED <<sub, verdict>>

AfterSave(r) ==
  IF verdict[r] \in Scored
    THEN Goto(r, "count") /\ UNCHANGED <<sub, verdict>>
    ELSE Release(r, "walk")

\* save_outcome
Save(r, ok) ==
  /\ pc[r] = "save"
  /\ Insert(sub[r], ok)
  /\ AfterSave(r)
  /\ UNCHANGED <<marketVars, born, status, entered, counted, window, listed,
                 overlap, posted, posts>>

\* record_model_outcome
Count(r) ==
  /\ pc[r] = "count"
  /\ counted' = [counted EXCEPT ![sub[r]] = @ + 1]
  /\ Release(r, "walk")
  /\ UNCHANGED <<marketVars, born, status, entered, rows, window, listed, historyVars>>

Nothing == [s \in {} |-> FALSE]
NoWindow == [from |-> 1, candles |-> <<>>]

Finish(r) ==
  /\ pc[r] = "walk"
  /\ DOMAIN listed[r] = {}
  /\ Goto(r, "idle")
  /\ window' = [window EXCEPT ![r] = NoWindow]
  /\ UNCHANGED <<marketVars, born, ledgerVars, listed, sub, verdict, historyVars>>

-------------------------------------------------------------------------------
(* ingest_paper_outcome and track_outcome.  The endpoint runs on the event *)
(* loop without an await: no two posts interleave, but a post and the      *)
(* thread of a cycle do.                                                   *)

PostSave(p, s, o, ok) ==
  /\ Idle(p)
  /\ \A q \in Posters : Idle(q)
  /\ posts < MaxPosts
  /\ born[s] > 0
  /\ Goto(p, "update")
  /\ sub' = [sub EXCEPT ![p] = s]
  /\ verdict' = [verdict EXCEPT ![p] = o]
  /\ Insert(s, ok)
  /\ posted' = posted \cup {s}
  /\ posts' = posts + 1
  /\ NoteStart(p)
  /\ UNCHANGED <<marketVars, born, status, entered, counted, window, listed>>

PostUpdate(p, ok) ==
  /\ pc[p] = "update"
  /\ Update(sub[p], verdict[p], TRUE, ok)
  /\ Goto(p, "record")
  /\ UNCHANGED <<marketVars, born, rows, counted, window, listed, sub, verdict,
                 overlap, posted, posts>>

PostCount(p) ==
  /\ pc[p] = "record"
  /\ counted' = [counted EXCEPT ![sub[p]] = @ + 1]
  /\ Release(p, "idle")
  /\ UNCHANGED <<marketVars, born, status, entered, rows, window, listed, historyVars>>

-------------------------------------------------------------------------------
(* A crash ends every actor; the tables stay.                              *)

Crash ==
  /\ faults < MaxFaults
  /\ \E a \in Actors : ~Idle(a)
  /\ faults' = faults + 1
  /\ pc' = [a \in Actors |-> "idle"]
  /\ window' = [r \in Runs |-> NoWindow]
  /\ listed' = [r \in Runs |-> Nothing]
  /\ sub' = [a \in Actors |-> NoSignal]
  /\ verdict' = [a \in Actors |-> "PENDING"]
  /\ UNCHANGED <<marketVars, born, ledgerVars, overlap, posted, posts>>

Init ==
  /\ chart = <<>> /\ oldest = 1 /\ changed = 0
  /\ born = [s \in Signals |-> 0]
  /\ status = [s \in Signals |-> "PENDING"]
  /\ entered = [s \in Signals |-> FALSE]
  /\ rows = [s \in Signals |-> 0]
  /\ counted = [s \in Signals |-> 0]
  /\ pc = [a \in Actors |-> "idle"]
  /\ window = [r \in Runs |-> NoWindow]
  /\ listed = [r \in Runs |-> Nothing]
  /\ sub = [a \in Actors |-> NoSignal]
  /\ verdict = [a \in Actors |-> "PENDING"]
  /\ overlap = FALSE /\ posted = {} /\ posts = 0 /\ faults = 0

RunStep(r) ==
  \/ Start(r) \/ Hold(r) \/ List(r) \/ Count(r) \/ Finish(r)
  \/ \E s \in Signals : Recommend(r, s)
  \/ \E s \in Signals, ok \in BOOLEAN : Judge(r, s, ok)
  \/ \E ok \in BOOLEAN : Save(r, ok)

PostStep(p) ==
  \/ PostCount(p)
  \/ \E s \in Signals, o \in Posts, ok \in BOOLEAN : PostSave(p, s, o, ok)
  \/ \E ok \in BOOLEAN : PostUpdate(p, ok)

Next ==
  \/ \E c \in Shapes : NewCandle(c) \/ Widen(c)
  \/ Forget
  \/ \E r \in Runs : RunStep(r)
  \/ \E p \in Posters : PostStep(p)
  \/ Crash

Spec == Init /\ [][Next]_vars

\* A market that goes on and cycles that go on running.
Fairness == /\ WF_vars(\E c \in Shapes : NewCandle(c))
            /\ \A r \in Runs : WF_vars(RunStep(r))
            /\ \A p \in Posters : WF_vars(PostCount(p) \/ \E ok \in BOOLEAN : PostUpdate(p, ok))

FairSpec == Spec /\ Fairness

-------------------------------------------------------------------------------
(* Properties                                                              *)

\* A performance update stands on a row of its own: model statistics and
\* weights never learn from an outcome the history does not show, in whatever
\* order cycles and clients write, as long as no write fails and no crash
\* comes between.
CountedFromRow == faults = 0 => \A s \in Signals : counted[s] <= rows[s]

\* Without overlapping cycles a signal gets at most one automatic outcome, over
\* any number of validations.
SavedOnce ==
  ~overlap /\ faults = 0 => \A s \in Signals \ posted : rows[s] <= 1

\* A final signal has its row, and the models were told once if it is scored:
\* nothing picks a signal up again whose status was written and row was not.
FinalRowExists ==
  ~overlap /\ faults = 0 =>
    \A s \in Signals \ posted :
      /\ \A a \in Actors : sub[a] # s
      /\ status[s] \in Final
      => rows[s] = 1 /\ counted[s] = IF status[s] \in Scored THEN 1 ELSE 0

\* What a cycle without others at work has found final, or a client posted,
\* no later validation changes; only a post does.
FinalStays ==
  [][\A s \in Signals :
       status[s] \in Final /\ status'[s] # status[s]
         => overlap \/ \E p \in Posters : pc[p] = "update" /\ sub[p] = s]_vars

\* What a trade's outcome should be, of all its candles at once: the first
\* candle that touches the entry before expiry, and the first one from there
\* that touches the stop, a target or the expiry.
Least(S) == CHOOSE i \in S : \A j \in S : i <= j

After(s) == (born[s] + 1)..Len(chart)

Entries(s) == {i \in After(s) : i <= Deadline(s) /\ Touches(s, chart[i])}

Exits(s) == {i \in After(s) :
               /\ Least(Entries(s)) <= i
               /\ \/ chart[i].adv <= Stop \/ chart[i].fav >= Target \/ i > Deadline(s)}

FirstPassage(s) ==
  IF Entries(s) = {} THEN "MISSED_ENTRY"
  ELSE IF Exits(s) = {} THEN "ENTRY_TRIGGERED"
  ELSE LET exit == Least(Exits(s))
           tp1  == \E i \in Least(Entries(s))..exit : chart[i].fav >= Tp1
       IN  IF chart[exit].adv <= Stop
             THEN IF tp1 /\ chart[exit].fav < Tp1 THEN "PARTIAL_TP" ELSE "LOSS"
           ELSE IF chart[exit].fav >= Target THEN "WIN"
           ELSE IF tp1 THEN "PARTIAL_TP" ELSE "EXPIRED"

Undisturbed == ~overlap /\ changed = 0

\* A candle before the entry reached a level of the open trade.
Tempting(s) ==
  \E i \in After(s) : /\ \A j \in Entries(s) : i < j
                      /\ chart[i].fav >= Tp1 \/ chart[i].adv <= Stop

\* An automatic outcome, put together over several validations from a persisted
\* entry and whatever candles each had, is the outcome of the whole chart; unless a
\* candle before the entry reached a level, which the validation after the one
\* that saw the entry takes for a level reached by the trade.
OutcomeIsFirstPassage ==
  Undisturbed =>
    \A s \in Signals \ posted :
      status[s] \in Final => Tempting(s) \/ status[s] = FirstPassage(s)

\* Every recommendation gets an outcome for good: cycles that overlap may take
\* one back, crashes and failed writes may lose one, and a later cycle finds it
\* again.
Settles ==
  \A s \in Signals : born[s] > 0 ~> [](status[s] \in Final)

=============================================================================
