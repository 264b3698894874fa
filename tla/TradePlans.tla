----------------------------- MODULE TradePlans -----------------------------
(***************************************************************************)
(* The entry plans of trade_plan_engine.py: entry, stop loss and targets   *)
(* of every entry type, their scores, and the plan that is selected.       *)
(*                                                                         *)
(* Prices are ticks relative to the last close, the ATR is 20 * s.unit     *)
(* ticks; confidence is in percent, scores in hundredths of a point.       *)
(***************************************************************************)
EXTENDS Integers, Sequences

Least(a, b)    == IF a <= b THEN a ELSE b
Greatest(a, b) == IF a >= b THEN a ELSE b
Distance(a, b) == IF a >= b THEN a - b ELSE b - a

\* A price further in the direction of the trade, and further against it.
Ahead(direction, price, ticks) == IF direction = "BUY" THEN price + ticks ELSE price - ticks
Behind(direction, price, ticks) == IF direction = "BUY" THEN price - ticks ELSE price + ticks

\* By how much a price is ahead of another one.
Room(direction, from, to) == IF direction = "BUY" THEN to - from ELSE from - to

\* The one of two prices that is further ahead, and the one that is not.
Frontmost(direction, a, b) == IF direction = "BUY" THEN Greatest(a, b) ELSE Least(a, b)
Rearmost(direction, a, b) == IF direction = "BUY" THEN Least(a, b) ELSE Greatest(a, b)

Far(s, direction)   == IF direction = "BUY" THEN s.resistance ELSE s.support
Close(s, direction) == IF direction = "BUY" THEN s.support ELSE s.resistance

EntryTypes == <<"MARKET", "LIMIT_PULLBACK", "BREAKOUT", "RETEST", "REVERSAL", "SMC_IFVG">>

Structural == {"MARKET", "LIMIT_PULLBACK", "BREAKOUT", "RETEST", "REVERSAL"}

-------------------------------------------------------------------------------
(* Levels of a plan                                                        *)

EntryPrice(direction, type, s) ==
  CASE type \in {"MARKET", "SMC_IFVG"} -> 0
    [] type = "LIMIT_PULLBACK" -> Rearmost(direction, Behind(direction, 0, 7 * s.unit), s.ema20)
    [] type = "BREAKOUT" -> Ahead(direction, 0, 2 * s.unit)
    [] type = "RETEST" -> Frontmost(direction, Close(s, direction), Behind(direction, 0, 9 * s.unit))
    [] type = "REVERSAL" -> Behind(direction, 0, 10 * s.unit)

\* The first inverted gap, whatever its direction and wherever it is.
SmcStop(direction, entry, s, smc) ==
  LET gap == smc.ifvgs[1]
      edge == IF direction = "BUY" THEN gap.bottom ELSE gap.top
  IN Rearmost(direction, Behind(direction, edge, 3 * s.unit), Behind(direction, entry, 10 * s.unit))

StopLoss(direction, type, entry, s, smc) ==
  IF type = "SMC_IFVG" /\ smc.ifvgs # <<>>
    THEN SmcStop(direction, entry, s, smc)
    ELSE Rearmost(direction, Behind(direction, Close(s, direction), 3 * s.unit),
                            Behind(direction, entry, 32 * s.unit))

\* The middle of the first open gap of a higher timeframe, when it is ahead.
SmcFirst(direction, entry, risk, smc) ==
  LET middle == (smc.gaps[1].top + smc.gaps[1].bottom) \div 2
  IN IF smc.gaps # <<>> /\ Room(direction, entry, middle) > 0 THEN middle ELSE Ahead(direction, entry, risk)

\* Mutant: the last target stays where the level or the ATR puts it.
LastAtLevel(direction, entry, risk, s) ==
  Frontmost(direction, Ahead(direction, entry, 60 * s.unit), Far(s, direction))

LastTarget(direction, entry, risk, s) ==
  Frontmost(direction,
           Frontmost(direction, Ahead(direction, entry, 60 * s.unit), Far(s, direction)),
           Ahead(direction, entry, 2 * risk + Greatest(5 * s.unit, risk \div 2)))

TakeProfits(direction, type, entry, risk, s, smc) ==
  IF type = "SMC_IFVG"
    THEN <<SmcFirst(direction, entry, risk, smc), smc.dol.price, smc.dol.price>>
    ELSE <<Ahead(direction, entry, risk), Ahead(direction, entry, 2 * risk),
           LastTarget(direction, entry, risk, s)>>

-------------------------------------------------------------------------------
(* Scores                                                                  *)

StructureScore(direction, entry, s, confirmed) ==
  50 + (IF confirmed THEN 25 ELSE 0)
     + (IF Room(direction, entry, Far(s, direction)) > 20 * s.unit THEN 15 ELSE 0)

RegimeScore(type, regime) ==
  IF regime \in {"TRENDING_UP", "TRENDING_DOWN"} /\ type = "LIMIT_PULLBACK" THEN 95
  ELSE IF regime = "BREAKOUT" /\ type \in {"BREAKOUT", "RETEST"} THEN 95
  ELSE IF regime = "RANGING" /\ type \in {"RETEST", "REVERSAL"} THEN 90
  ELSE IF regime = "CHOPPY" /\ type = "MARKET" THEN 35
  ELSE 65

ExecutionProbability(type, entry, s) ==
  LET distance == Distance(entry, 0)
  IN IF type = "MARKET" THEN 95
     ELSE IF distance <= 7 * s.unit THEN 82
     ELSE IF distance <= 15 * s.unit THEN 68
     ELSE 48

\* A later reason takes the place of an earlier one.
Rejection(type, risk, reward, s) ==
  IF type = "MARKET" /\ Distance(0, s.ema20) > 36 * s.unit THEN "overextended"
  ELSE IF risk < 6 * s.unit THEN "stop too close"
  ELSE IF 2 * reward < 3 * risk THEN "risk/reward"
  ELSE "none"

Cap(type, risk, reward, s) ==
  Least(IF 2 * reward < 3 * risk THEN 4900 ELSE 10000,
        IF risk < 6 * s.unit THEN 4500
        ELSE IF Rejection(type, risk, reward, s) = "overextended" THEN 5500 ELSE 10000)

Score(direction, type, entry, risk, reward, s, confidence, regime, confirmed) ==
  Least(Cap(type, risk, reward, s),
        20 * confidence
        + 15 * RegimeScore(type, regime)
        + 20 * StructureScore(direction, entry, s, confirmed)
        + Least(2000, (1000 * reward) \div risk)
        + (IF s.volatility \in {"VALID", "HIGH"} /\ 8 * s.unit <= risk /\ risk <= 80 * s.unit
             THEN 1000 ELSE 400)
        + 10 * ExecutionProbability(type, entry, s)
        + (IF Distance(entry, 0) <= 40 * s.unit THEN 500 ELSE 200))

-------------------------------------------------------------------------------
(* Candidates                                                              *)

Candidate(direction, type, s, smc, confidence, regime, confirmed) ==
  LET entry == EntryPrice(direction, type, s)
      stop == StopLoss(direction, type, entry, s, smc)
      risk == Greatest(Distance(entry, stop), 1)
      targets == TakeProfits(direction, type, entry, risk, s, smc)
      reward == Distance(targets[2], entry)
  IN [type |-> type, entry |-> entry, stop |-> stop, targets |-> targets,
      risk |-> risk, reward |-> reward,
      score |-> Score(direction, type, entry, risk, reward, s, confidence, regime, confirmed),
      rejection |-> Rejection(type, risk, reward, s)]

Candidates(direction, s, smc, confidence, regime, confirmed) ==
  [i \in 1..(IF smc.direction = direction THEN 6 ELSE 5) |->
     Candidate(direction, EntryTypes[i], s, smc, confidence, regime, confirmed)]

\* The best of the candidates that are not rejected, or of all of them; max()
\* returns the first of several.  The one selected loses its rejection, so it is
\* selected again and never are all rejected.
Selected(candidates) ==
  LET valid == {i \in DOMAIN candidates : candidates[i].rejection = "none"}
      pool == IF valid = {} THEN DOMAIN candidates ELSE valid
      best == {i \in pool : \A j \in pool : candidates[j].score <= candidates[i].score}
  IN CHOOSE i \in best : \A j \in best : i <= j

-------------------------------------------------------------------------------

\* The levels of a plan are in the order a trade meets them.
Ordered(direction, plan) ==
  /\ Room(direction, plan.stop, plan.entry) > 0
  /\ Room(direction, plan.entry, plan.targets[1]) > 0
  /\ Room(direction, plan.targets[1], plan.targets[2]) > 0
  /\ Room(direction, plan.targets[2], plan.targets[3]) > 0

=============================================================================
