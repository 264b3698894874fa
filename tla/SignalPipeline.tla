--------------------------- MODULE SignalPipeline ---------------------------
(***************************************************************************)
(* One signal cycle (run_signal_cycle of pipeline.py), from the rows of    *)
(* the provider to the recommendation, and the gates it meets on its way   *)
(* to the broker: the Control Unit (execution_control.py) and the preflight *)
(* of an order (capital_execution.py).                                     *)
(*                                                                         *)
(* Each stage is a step that chooses what it reads from outside: rows,     *)
(* chart, votes, other timeframes, news.  The variables are the local      *)
(* variables of the cycle that a later stage reads.                        *)
(***************************************************************************)
EXTENDS StrategyGates, DataQuality, SmartMoney

CONSTANTS
  Feeds,          \* rows of the provider
  Charts,         \* candles and averages
  Contexts,       \* market contexts a caller passes
  Calendars,      \* sets of economic events
  Ballots,        \* sequences of votes
  Outlooks,       \* views of the other timeframes
  NewsStates,     \* states of the news intelligence
  Controls,       \* settings of the Control Unit
  Permissions     \* values of capital_execution_allowed_statuses

GapType == [bullish : BOOLEAN, top : Int, bottom : Int, mitigated : BOOLEAN]

\* The levels and the gaps of a chart are prices.
ASSUME ChartAssumption ==
  \A c \in Charts :
    /\ c.unit \in Nat \ {0} /\ c.ema20 \in Int
    /\ Support(c.candles) \in Int /\ Resistance(c.candles) \in Int
    /\ SmcSnapshot(c).ifvgs \in Seq(GapType) /\ SmcSnapshot(c).gaps \in Seq(GapType)
    /\ SmcSnapshot(c).dol.price \in Int

\* The shares of a ballot are numbers.
ASSUME BallotAssumption ==
  \A ballot \in Ballots :
    \A heard \in {ballot, Abstained(ballot)} :
      Ensemble(heard).confidence \in Nat /\ Ensemble(heard).directional \in Nat

VARIABLES
  stage,          \* the stage that comes next
  gated,          \* data_quality_blocked
  context,        \* market_context
  chart,          \* the chart the snapshot was made from
  s,              \* the indicator snapshot
  smc,            \* snapshot.smc
  risk,           \* news_risk
  votes,          \* model_votes
  e,              \* the ensemble
  mtf,            \* multi_timeframe.status
  news,           \* strategy_news_state, and whether the risk engine blocks for news
  plan,           \* the selected plan
  blocks,         \* risk_check.blocked_reasons
  status,         \* the status of the decision, then of the recommendation
  sent            \* what the gates of execution made of it

vars == <<stage, gated, context, chart, s, smc, risk, votes, e, mtf, news, plan, blocks, status, sent>>

-------------------------------------------------------------------------------

None == "none"

NoPlan == [type |-> None]

Init ==
  /\ stage = "clean" /\ gated = FALSE /\ context \in Contexts
  /\ chart = None /\ s = None /\ smc = None /\ risk = None /\ votes = <<>> /\ e = None /\ mtf = None
  /\ news = None /\ plan = NoPlan /\ blocks = {} /\ status = None /\ sent = None

\* Candles are cleaned and the report is made.  gate is enable_data_quality_gate.
Clean(feed, gate) ==
  /\ stage = "clean"
  /\ stage' = "analyse"
  /\ gated' = (gate /\ (BlockingReasons(feed, 1) # {} \/ context.spread > MaxSpread))
  /\ UNCHANGED <<context, chart, s, smc, risk, votes, e, mtf, news, plan, blocks, status, sent>>

\* The snapshot sees the news window of the context it was given; the calendar
\* is read afterwards.
Analyse(c, calendar, block) ==
  /\ stage = "analyse"
  /\ stage' = "vote"
  /\ chart' = c
  /\ s' = Snapshot(c, IF context.to = Never THEN "CLEAR" ELSE "NEWS_WINDOW")
  /\ smc' = SmcSnapshot(c)
  /\ risk' = CurrentRisk(calendar, block)
  /\ context' = WithRisk(context, risk')
  /\ UNCHANGED <<gated, votes, e, mtf, news, plan, blocks, status, sent>>

Vote(ballot) ==
  /\ stage = "vote"
  /\ stage' = "decide"
  /\ votes' = IF gated THEN Abstained(ballot) ELSE ballot
  /\ e' = Ensemble(votes')
  /\ UNCHANGED <<gated, context, chart, s, smc, risk, mtf, news, plan, blocks, status, sent>>

-------------------------------------------------------------------------------
(* The decision                                                            *)

\* What the strategy and the risk engine see of a state of the news.
ForStrategy(state, weighted) == IF weighted THEN state ELSE [state EXCEPT !.weight = 0]
BlockedByNews(state, blocking) == blocking /\ state.block

\* The gates after the first evaluation; a later one replaces an earlier one.
PreTrade(evaluated, regime, confirmation) ==
  IF e.signal = "HOLD" THEN evaluated
  ELSE IF risk.status = "BLOCKED" THEN "BLOCKED_BY_NEWS"
  ELSE IF confirmation = "CONFLICT" THEN "BLOCKED_BY_MARKET_STRUCTURE"
  ELSE IF regime = "CHOPPY" /\ e.confidence < 70 THEN "BLOCKED_BY_RISK"
  ELSE evaluated

Decide(views, state, weighted, blocking) ==
  /\ stage = "decide"
  /\ mtf' = Confirmation(e.signal, views)
  /\ news' = [ForStrategy(state, weighted) EXCEPT !.block = BlockedByNews(state, blocking)]
  /\ status' = PreTrade(Evaluated(e, s, smc, 5000, TRUE, news'), Regime(chart, s), mtf')
  /\ stage' = IF e.signal \in Directions THEN "plan" ELSE "build"
  /\ UNCHANGED <<gated, context, chart, s, smc, risk, votes, e, plan, blocks, sent>>

\* Mutant: only the other timeframes are asked again.
RepeatedWithoutNews(evaluated) ==
  IF mtf = "CONFLICT" THEN "BLOCKED_BY_MARKET_STRUCTURE" ELSE evaluated

\* The gates that are repeated after the second evaluation.
Repeated(evaluated) ==
  IF mtf = "CONFLICT" THEN "BLOCKED_BY_MARKET_STRUCTURE"
  ELSE IF risk.status = "BLOCKED" THEN "BLOCKED_BY_NEWS"
  ELSE evaluated

Planned ==
  Candidates(e.signal, s, smc, e.confidence, Regime(chart, s), StructureConfirms(e.signal, s))

\* The second evaluation replaces the first one.
Plan ==
  LET candidates == Planned
      selected == candidates[Selected(candidates)]
      reasons == RiskBlocks(selected, e, s, context, news.block)
  IN /\ stage = "plan"
     /\ stage' = "build"
     /\ plan' = selected
     /\ blocks' = reasons
     /\ status' = Repeated(Evaluated(e, s, smc, selected.score, reasons = {}, news))
     /\ UNCHANGED <<gated, context, chart, s, smc, risk, votes, e, mtf, news, sent>>

\* The data quality gate, the builder and the check of readiness.
Recommended(decided, critical) ==
  IF critical /\ e.signal # "HOLD" THEN "BLOCKED_BY_SYSTEM_HEALTH"
  ELSE Built(IF gated THEN "HOLD" ELSE decided, blocks)

Build(critical) ==
  /\ stage = "build"
  /\ stage' = "execute"
  /\ status' = Recommended(status, critical)
  /\ UNCHANGED <<gated, context, chart, s, smc, risk, votes, e, mtf, news, plan, blocks, sent>>

-------------------------------------------------------------------------------
(* The gates of execution                                                  *)

SessionNames == {"DAILY_BREAK", "US_OVERLAP", "LONDON_ACTIVE", "NY_ACTIVE", "ASIA_LOW"}
TradingAllowed == SessionNames \ {"DAILY_BREAK"}

\* How the votes stand to the vote of Kronos, the first model.
Relation(signal) ==
  LET kronos == VoteOf(votes[1])
      buys == Count(votes, "BUY")
  IN IF buys = Count(votes, "SELL") /\ buys > 0 THEN "TIE"
     ELSE IF {signal, kronos} = Directions THEN "OPPOSITE"
     ELSE IF signal = kronos THEN "SAME"
     ELSE "NON_DIRECTIONAL"

Applied(control, source) ==
  control.enabled /\ source \in control.applies

\* A control is [enabled, applies, sessions, directions, opposite].
Allowed(control, source) ==
  Applied(control, source) =>
    /\ s.session \in TradingAllowed \cap control.sessions
    /\ e.signal \in control.directions
    /\ control.opposite => Relation(e.signal) \in {"OPPOSITE", "TIE"}

\* The recommendation carries the status of its risk check.
RiskPassed == blocks = {} /\ status # "BLOCKED_BY_SYSTEM_HEALTH"

\* The gates of _preflight_block_reason that read the recommendation: a status
\* the operator lists is let through, BLOCKED_BY_RISK even without a passed risk.
Preflight(control, source, permitted) ==
  IF ~Allowed(control, source) THEN "control unit"
  ELSE IF e.signal \notin Directions THEN "direction"
  ELSE IF status \notin permitted THEN "status"
  ELSE IF ~RiskPassed /\ status # "BLOCKED_BY_RISK" THEN "risk"
  ELSE source

Execute(control, source, permitted) ==
  /\ stage = "execute"
  /\ stage' = "done"
  /\ sent' = Preflight(control, source, permitted)
  /\ UNCHANGED <<gated, context, chart, s, smc, risk, votes, e, mtf, news, plan, blocks, status>>

Next ==
  \/ \E feed \in Feeds, gate \in BOOLEAN : Clean(feed, gate)
  \/ \E c \in Charts, calendar \in Calendars, block \in BOOLEAN : Analyse(c, calendar, block)
  \/ \E ballot \in Ballots : Vote(ballot)
  \/ \E views \in Outlooks, state \in NewsStates, weighted, blocking \in BOOLEAN :
       Decide(views, state, weighted, blocking)
  \/ Plan
  \/ \E critical \in BOOLEAN : Build(critical)
  \/ \E control \in Controls, source \in {"auto", "manual"}, permitted \in Permissions :
       Execute(control, source, permitted)

Spec == Init /\ [][Next]_vars

-------------------------------------------------------------------------------
(* Properties                                                              *)

Finished == stage \in {"execute", "done"}

\* A recommendation that may be executed had no veto from any judge of the
\* cycle, although a second evaluation replaces the decision of the first and
\* only some of the vetoes are repeated after it (pipeline.py 371-432).
ActionableOnlyIfClear ==
  Finished /\ status \in Actionable =>
    /\ ~gated /\ e.signal \in Directions
    /\ mtf # "CONFLICT" /\ risk.status # "BLOCKED" /\ blocks = {} /\ ~news.block
    /\ e.agreement # "HIGH_CONFLICT" /\ e.directional >= MinConfidence
    /\ s.news = "CLEAR" /\ s.volatility \notin {"TOO_LOW", "EXTREME"}

\* The stop, the entry and the targets of an executable plan of one of the five
\* structural types are met in this order by a trade, whatever the levels of the
\* chart are (candidate_to_trade_plan; an SMC plan takes its last targets from
\* the draw on liquidity, which nothing compares with the entry).
PlanIsOrdered ==
  Finished /\ plan.type \in Structural => Ordered(e.signal, plan)

\* No recommendation to sell is ever executable: the first target of every sell
\* is below its entry, which the last check of the risk engine, that the price is
\* too close to the opposite level, takes for no room (risk_engine.py 82-84).
NoSellIsExecutable ==
  Finished /\ status \in Actionable => e.signal = "BUY"
=============================================================================
