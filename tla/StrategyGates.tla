---------------------------- MODULE StrategyGates ----------------------------
(***************************************************************************)
(* What decides the status of a recommendation: the votes of the models    *)
(* (model_ensemble.py), the score of the strategy (strategy_brain.py), the *)
(* risk checks (risk_engine.py), the status they lead to                   *)
(* (recommendation_builder.py) and the calendar (news_filter.py).          *)
(*                                                                         *)
(* Probabilities, confidence and weights are in percent, scores of the     *)
(* strategy in thousandths of a point.                                     *)
(***************************************************************************)
EXTENDS MarketAnalysis, TradePlans

LOCAL INSTANCE FiniteSetsExt
LOCAL INSTANCE SequencesExt

CONSTANTS
  MinConfidence,      \* threshold_profile.minimum_final_confidence, in percent
  RecommendedScore,   \* threshold_profile.recommended_score, in points
  WeakScore,          \* threshold_profile.weak_recommendation_score, in points
  MinRR,              \* limits.minimum_rr, in tenths
  MaxSpread,          \* limits.max_spread
  BlockBefore,        \* minutes before an event of high impact
  BlockAfter          \* minutes after it

ASSUME ThresholdAssumption ==
  /\ MinConfidence \in Nat /\ RecommendedScore \in Nat /\ WeakScore \in Nat
  /\ WeakScore <= RecommendedScore
  /\ MinRR \in Nat /\ MaxSpread \in Nat /\ BlockBefore \in Nat /\ BlockAfter \in Nat

Directions == {"BUY", "SELL"}
Signals == Directions \cup {"HOLD"}

Statuses ==
  {"RECOMMENDED", "WEAK_RECOMMENDATION", "HOLD", "BLOCKED_BY_LOW_CONFIDENCE",
   "BLOCKED_BY_MODEL_CONFLICT", "BLOCKED_BY_RISK", "BLOCKED_BY_SPREAD", "BLOCKED_BY_NEWS",
   "BLOCKED_BY_LOW_RR", "BLOCKED_BY_BAD_ENTRY", "BLOCKED_BY_MARKET_STRUCTURE",
   "BLOCKED_BY_SYSTEM_HEALTH", "BLOCKED_NO_VALID_ENTRY_PLAN"}

Actionable == {"RECOMMENDED", "WEAK_RECOMMENDATION"}

-------------------------------------------------------------------------------
(* The ensemble                                                            *)

\* The first of BUY, SELL and HOLD that no other exceeds.
Argmax(buy, sell, hold) ==
  IF buy >= sell /\ buy >= hold THEN "BUY"
  ELSE IF sell >= buy /\ sell >= hold THEN "SELL"
  ELSE "HOLD"

VoteOf(vote) == Argmax(vote.buy, vote.sell, vote.hold)

\* Conviction weighting: a vote at a third counts 0.15 of its weight, a certain
\* one all of it.
Weighted(vote) ==
  LET confidence == Max({vote.buy, vote.sell, vote.hold})
      above == IF confidence > 33 THEN confidence - 33 ELSE 0
  IN vote.weight * (15 + (85 * above) \div 67)

Mass(votes, side) == FoldSeq(LAMBDA vote, sum : vote[side] * Weighted(vote) + sum, 0, votes)

Count(votes, signal) == Cardinality({i \in DOMAIN votes : VoteOf(votes[i]) = signal})

Agreement(votes) ==
  LET buys == Count(votes, "BUY")  sells == Count(votes, "SELL")
      leader == Greatest(buys, sells)
      opposing == IF buys > 0 /\ sells > 0 THEN Least(buys, sells) ELSE 0
  IN IF \E signal \in Signals : Count(votes, signal) = Len(votes) THEN "STRONG"
     ELSE IF leader >= 2 /\ opposing >= leader THEN "HIGH_CONFLICT"
     ELSE IF leader - opposing >= 2 THEN "NORMAL"
     ELSE "MIXED"

Share(part, whole) == IF whole > 0 THEN (100 * part) \div whole ELSE 0

\* directional: the share of the winning side in the mass of BUY and SELL.
Ensemble(votes) ==
  LET buy == Mass(votes, "buy")  sell == Mass(votes, "sell")  hold == Mass(votes, "hold")
      signal == Argmax(buy, sell, hold)
      confidence == Share(Max({buy, sell, hold}), buy + sell + hold)
  IN [signal |-> signal,
      confidence |-> confidence,
      directional |-> IF signal = "BUY" /\ buy + sell > 0 THEN Share(buy, buy + sell)
                      ELSE IF signal = "SELL" /\ buy + sell > 0 THEN Share(sell, buy + sell)
                      ELSE confidence,
      agreement |-> Agreement(votes)]

\* The votes of a cycle whose data are not good enough.
Abstained(votes) == [i \in DOMAIN votes |-> [votes[i] EXCEPT !.buy = 0, !.sell = 0, !.hold = 100]]

-------------------------------------------------------------------------------
(* The score of the strategy                                               *)

TrendConfirms(signal, s) ==
  TrendBias(s) = (IF signal = "BUY" THEN "BULLISH" ELSE IF signal = "SELL" THEN "BEARISH" ELSE "NEUTRAL")

MomentumConfirms(signal, s) ==
  MomentumBias(s) = (IF signal = "BUY" THEN "POSITIVE" ELSE IF signal = "SELL" THEN "NEGATIVE" ELSE "MIXED")

StructureConfirms(signal, s) ==
  s.structure \in (IF signal = "BUY" THEN Bullish ELSE IF signal = "SELL" THEN Bearish
                   ELSE {"NEUTRAL", "RANGE"})

VolatilityPoints == [VALID |-> 10, HIGH |-> 7, TOO_LOW |-> 2, EXTREME |-> 1]

Penalty(signal, s) ==
  IF signal = "HOLD" THEN 0
  ELSE Points(~TrendConfirms(signal, s) /\ s.trend >= 60, 8000)
       + Points(~MomentumConfirms(signal, s) /\ s.momentum >= 60, 5000)
       + Points(~StructureConfirms(signal, s) /\ s.structure # "RANGE", 8000)

SmcPoints(signal, smc) ==
  IF smc.direction # signal THEN 0 ELSE IF smc.po3 THEN 25000 ELSE 15000

\* 15 points at full weight, for the direction of the news or against it.
NewsPoints(signal, news) ==
  IF news.weight = 0 \/ news.bias \notin Directions \/ signal = "HOLD" THEN 0
  ELSE IF news.bias = signal THEN 150 * news.weight ELSE -150 * news.weight

\* quality is in hundredths of a point, as the score of a plan.
TotalScore(e, s, smc, quality, passed, news) ==
  Greatest(0,
    350 * e.confidence
    + Points(TrendConfirms(e.signal, s), 150 * s.trend)
    + Points(MomentumConfirms(e.signal, s), 100 * s.momentum)
    + 1000 * VolatilityPoints[s.volatility]
    + (IF StructureConfirms(e.signal, s) THEN 15000 ELSE IF s.structure = "RANGE" THEN 8000 ELSE 5000)
    + quality
    + Points(passed, 5000)
    + SmcPoints(e.signal, smc)
    - Penalty(e.signal, s))
  + NewsPoints(e.signal, news)

StrategyBlocks(e, s) ==
  {reason \in {"conflict", "volatility", "news"} :
     CASE reason = "conflict" -> e.agreement = "HIGH_CONFLICT"
       [] reason = "volatility" -> s.volatility \in {"TOO_LOW", "EXTREME"}
       [] reason = "news" -> s.news # "CLEAR"}

Evaluated(e, s, smc, quality, passed, news) ==
  LET score == TotalScore(e, s, smc, quality, passed, news)
      blocks == StrategyBlocks(e, s)
  IN IF e.signal = "HOLD" THEN "HOLD"
     ELSE IF "conflict" \in blocks THEN "BLOCKED_BY_MODEL_CONFLICT"
     ELSE IF "news" \in blocks THEN "BLOCKED_BY_NEWS"
     ELSE IF e.directional < MinConfidence THEN "BLOCKED_BY_LOW_CONFIDENCE"
     ELSE IF blocks # {} THEN "BLOCKED_BY_RISK"
     ELSE IF score >= 1000 * RecommendedScore THEN "RECOMMENDED"
     ELSE IF score >= 1000 * WeakScore THEN "WEAK_RECOMMENDATION"
     ELSE "HOLD"

-------------------------------------------------------------------------------
(* The calendar                                                            *)

Never == -1         \* no such minute

\* current_risk looks an hour around now and takes the first event that counts,
\* by time.  An event is [at, impact, before, after]; at is in minutes from now.
EventRisk(event, block) ==
  LET risk(status, to, since) == [status |-> status, to |-> to, since |-> since]
      high == IF block THEN "BLOCKED" ELSE "CAUTION"
  IN IF event.impact = "HIGH" /\ 0 <= event.at /\ event.at <= event.before
       THEN risk(high, event.at, Never)
     ELSE IF event.impact = "HIGH" /\ event.at <= 0 /\ -event.at <= event.after
       THEN risk(high, Never, -event.at)
     ELSE IF event.impact = "MEDIUM" /\ 0 <= event.at /\ event.at <= BlockBefore
       THEN risk("CAUTION", event.at, Never)
     ELSE risk("SAFE", Never, Never)

CurrentRisk(events, block) ==
  LET seen == {event \in events : event.at >= -60 /\ event.at <= 60
                                  /\ EventRisk(event, block).status # "SAFE"}
  IN IF seen = {} THEN [status |-> "SAFE", to |-> Never, since |-> Never]
     ELSE EventRisk(CHOOSE first \in seen : \A event \in seen : first.at <= event.at, block)

\* What the cycle writes into the market context it was given.
WithRisk(context, risk) ==
  [context EXCEPT
     !.to = IF risk.status = "BLOCKED" /\ risk.to # Never THEN risk.to ELSE @,
     !.since = IF risk.status = "BLOCKED" /\ risk.since # Never THEN risk.since ELSE @,
     !.special = @ \/ risk.status = "CAUTION"]

-------------------------------------------------------------------------------
(* Risk                                                                    *)

\* Mutant: the room is looked for on the side of the trade.
NoRoomAhead(direction, plan) == Room(direction, plan.entry, plan.targets[1]) <= 0

\* The check of the opposite level does not ask for the direction.
NoRoom(direction, plan) == plan.targets[1] <= plan.entry

RiskBlocks(plan, e, s, context, newsBlocks) ==
  LET stop == Distance(plan.entry, plan.stop)
      blocks(reason) ==
        CASE reason = "spread" -> context.spread > MaxSpread
          [] reason = "risk/reward" -> 10 * plan.reward < MinRR * plan.risk
          [] reason = "news" ->
               \/ context.to # Never /\ context.to <= BlockBefore
               \/ context.since # Never /\ context.since <= BlockAfter
               \/ newsBlocks
          [] reason = "limits" -> context.limits # {}
          [] reason = "stop" -> stop < 6 * s.unit \/ stop > 80 * s.unit
          [] reason = "conflict" -> e.agreement = "HIGH_CONFLICT"
          [] reason = "volatility" -> \/ s.volatility = "TOO_LOW"
                                      \/ s.volatility = "EXTREME" /\ ~context.special
          [] reason = "entry" -> /\ plan.type = "LIMIT_PULLBACK"
                                 /\ plan.entry > 0 /\ plan.targets[1] < 0
          [] reason = "opposite" -> NoRoom(e.signal, plan)
  IN {reason \in {"spread", "risk/reward", "news", "limits", "stop", "conflict", "volatility",
                  "entry", "opposite"} : blocks(reason)}

\* _risk_to_status looks for words in the reasons.
RiskStatus(blocks) ==
  IF "spread" \in blocks THEN "BLOCKED_BY_SPREAD"
  ELSE IF "news" \in blocks THEN "BLOCKED_BY_NEWS"
  ELSE IF "risk/reward" \in blocks THEN "BLOCKED_BY_LOW_RR"
  ELSE IF "entry" \in blocks THEN "BLOCKED_BY_BAD_ENTRY"
  ELSE IF "conflict" \in blocks THEN "BLOCKED_BY_MODEL_CONFLICT"
  ELSE "BLOCKED_BY_RISK"

\* The builder: a risk check that blocks replaces the status of the strategy.
Built(status, blocks) == IF blocks = {} THEN status ELSE RiskStatus(blocks)

=============================================================================
