----------------------------- MODULE NewsState -----------------------------
(***************************************************************************)
(* The one state the strategy reads, made from the active analyses         *)
(* (news_intelligence/strategy_integration.py), and what becomes of it     *)
(* when it has expired (repository.py, _clear_if_expired).                 *)
(***************************************************************************)
EXTENDS NewsAnalysis, Sequences

CONSTANTS
  Limit,          \* how many active analyses one aggregate reads (100)
  MinConfidence   \* news_min_ai_confidence, in hundredths

ASSUME LimitAssumption == Limit \in Nat \ {0}

(* The analyses still valid, by their position in the table.               *)
Open(analyses, now) == {i \in DOMAIN analyses : analyses[i].until > now}

(* Mutant of NewestActive: the order of the query forgotten.               *)
OldestActive(analyses, now) ==
  {i \in Open(analyses, now) :
     Cardinality({j \in Open(analyses, now) : j < i}) < Limit}

(* get_ai_analyses(active_only): the newest Limit of those still valid;    *)
(* the usable ones are picked from these afterwards.                       *)
NewestActive(analyses, now) ==
  {i \in Open(analyses, now) :
     Cardinality({j \in Open(analyses, now) : j > i}) < Limit}

IsUsable(row, now) ==
  /\ row.until > now
  /\ row.relevance \in {"HIGH", "CRITICAL"} \/ row.confidence >= MinConfidence

ImpactMultiplier == [LOW |-> 25, MEDIUM |-> 50, HIGH |-> 80, EXTREME |-> 100]

DirectionScore(direction) ==
  CASE direction = "UP" -> 1 [] direction = "DOWN" -> -1 [] OTHER -> 0

WeightCap(impact) == MaxWeight(HighImpact(impact))

ActionPriority ==
  [INFO_ONLY |-> 1, WEIGHT_ONLY |-> 2, RISK_REDUCE |-> 3, BLOCK_NEW_TRADES |-> 4,
   MANUAL_REVIEW |-> 5]

Blocking(row) == row.blocks \/ row.action \in {"BLOCK_NEW_TRADES", "MANUAL_REVIEW"}

Reducing(row) == row.reduces \/ ActionPriority[row.action] >= 3

NoDate == 0

(* _default_state: nothing active; such a row has no end.                  *)
Neutral ==
  [direction |-> "NEUTRAL", bias |-> "HOLD", weight |-> 0, blocks |-> FALSE,
   reduces |-> FALSE, action |-> "INFO_ONLY", until |-> NoDate]

HeldWeight(row) == Max({0, Min({row.weight, WeightCap(row.impact)})})

Score(row) ==
  DirectionScore(row.direction) * row.confidence * ImpactMultiplier[row.impact]

(* A mean score of 0.30 or more makes a direction; votes both ways make it *)
(* MIXED whatever the score; the state lasts as long as its longest row.   *)
Aggregate(rows) ==
  LET all == Range(rows)
      held == [i \in DOMAIN rows |-> HeldWeight(rows[i])]
      scored == [i \in DOMAIN rows |-> Score(rows[i]) * HeldWeight(rows[i])]
      total == SumFunction(held)
      score == SumFunction(scored)
      mixed == \A side \in {"UP", "DOWN"} : \E row \in all : row.direction = side
      leaning == IF total > 0 /\ score >= 3000 * total THEN <<"UP", "BUY">>
                 ELSE IF total > 0 /\ score <= -3000 * total THEN <<"DOWN", "SELL">>
                 ELSE <<"NEUTRAL", "HOLD">>
      verdict == IF mixed THEN <<"MIXED", "NO_TRADE">> ELSE leaning
  IN  IF DOMAIN rows = {} THEN Neutral
      ELSE [direction |-> verdict[1], bias |-> verdict[2],
            weight |-> Min({total, MaxWeight(TRUE)}),
            blocks |-> \E row \in all : Blocking(row),
            reduces |-> mixed \/ \E row \in all : Reducing(row),
            action |-> CHOOSE a \in Actions :
                         /\ \E row \in all : row.action = a
                         /\ \A row \in all :
                              ActionPriority[row.action] <= ActionPriority[a],
            until |-> Max({row.until : row \in all})]

(* Mutant of Cleared: the stored row is served as it is.                   *)
Unexpired(state, now) == state

(* _clear_if_expired *)
Cleared(state, now) ==
  IF state.until # NoDate /\ state.until < now
    THEN [Neutral EXCEPT !.until = state.until] ELSE state
=============================================================================
