--------------------------- MODULE MarketAnalysis ---------------------------
(***************************************************************************)
(* What a cycle reads from the chart: the indicator snapshot               *)
(* (indicator_engine.py), the market regime (market_regime.py) and the     *)
(* confirmation by other timeframes (multi_timeframe.py), as operators.    *)
(*                                                                         *)
(* A price is a number of ticks above or below the last close.  A chart    *)
(* holds the last candles and the averages that were computed from more of *)
(* them; atrPct is the ATR in hundredths of a percent of the price, divided*)
(* by the scale of the timeframe.                                          *)
(***************************************************************************)
EXTENDS Integers, Sequences, FiniteSets

LOCAL INSTANCE FiniteSetsExt
LOCAL INSTANCE SequencesExt

Bullish == {"BULLISH_HH_HL", "BULLISH_BREAKOUT"}
Bearish == {"BEARISH_LH_LL", "BEARISH_BREAKDOWN"}

Highs(candles) == {candles[i].high : i \in DOMAIN candles}
Lows(candles)  == {candles[i].low : i \in DOMAIN candles}

Points(holds, points) == IF holds THEN points ELSE 0

-------------------------------------------------------------------------------
(* The indicator snapshot                                                  *)

StructureBias(candles) ==
  LET n == Len(candles)
      last(side, i) == candles[n - i][side]
      rising(side) == last(side, 0) > last(side, 1) /\ last(side, 1) > last(side, 2)
      falling(side) == last(side, 0) < last(side, 1) /\ last(side, 1) < last(side, 2)
      before == SubSeq(candles, n - 5, n - 1)
  IN IF n < 6 THEN "NEUTRAL"
     ELSE IF rising("high") /\ rising("low") THEN "BULLISH_HH_HL"
     ELSE IF falling("high") /\ falling("low") THEN "BEARISH_LH_LL"
     ELSE IF last("high", 0) > Max(Highs(before)) THEN "BULLISH_BREAKOUT"
     ELSE IF last("low", 0) < Min(Lows(before)) THEN "BEARISH_BREAKDOWN"
     ELSE "RANGE"

\* The last candle is on both sides of its close: neither set is empty.
Support(candles)    == Max({x \in Lows(candles) : x <= 0})
Resistance(candles) == Min({x \in Highs(candles) : x >= 0})

TrendScore(chart) ==
  Points(0 > chart.ema20, 15) + Points(0 > chart.ema50, 15) + Points(0 > chart.ema200, 20)
  + Points(chart.ema20 > chart.ema50 /\ chart.ema50 > chart.ema200, 30)
  + Points(0 > chart.sma50, 10) + Points(0 > chart.sma200, 10)

MomentumScore(chart) ==
  LET rsi == IF chart.rsi >= 45 /\ chart.rsi <= 70 THEN 45
             ELSE IF chart.rsi >= 30 /\ chart.rsi < 45 THEN 25
             ELSE IF chart.rsi > 70 THEN 10 ELSE 15
  IN rsi + (IF chart.macd > 0 THEN 35 ELSE 10) + Points(chart.return5 > 0, 20)

\* The bias of a score.
Bias(score, high, low, middle) ==
  IF score >= 60 THEN high ELSE IF score <= 40 THEN low ELSE middle

VolatilityStatus(chart) ==
  IF chart.atrPct < 3 THEN "TOO_LOW"
  ELSE IF chart.atrPct > 40 THEN "EXTREME"
  ELSE IF chart.atrPct > 25 THEN "HIGH"
  ELSE "VALID"

\* The ATR is 20 * unit ticks, so that every fraction of it in the code is whole.
Snapshot(chart, news) ==
  [trend      |-> TrendScore(chart),
   momentum   |-> MomentumScore(chart),
   volatility |-> VolatilityStatus(chart),
   structure  |-> StructureBias(chart.candles),
   support    |-> Support(chart.candles),
   resistance |-> Resistance(chart.candles),
   ema20      |-> chart.ema20,
   unit       |-> chart.unit,
   session    |-> chart.session,
   news       |-> news]

TrendBias(s)    == Bias(s.trend, "BULLISH", "BEARISH", "NEUTRAL")
MomentumBias(s) == Bias(s.momentum, "POSITIVE", "NEGATIVE", "MIXED")

-------------------------------------------------------------------------------
(* The market regime                                                       *)

Up(candle) == candle.close >= candle.open

Pairs(candles) == 1..(Len(candles) - 1)

Flips(candles) == Cardinality({i \in Pairs(candles) : Up(candles[i]) # Up(candles[i + 1])})

Overlaps(candles) ==
  Cardinality({i \in Pairs(candles) :
                 /\ candles[i].high >= candles[i + 1].low
                 /\ candles[i + 1].high >= candles[i].low})

Choppy(candles) ==
  /\ Len(candles) >= 6
  /\ Flips(candles) >= Len(candles) \div 2
  /\ Overlaps(candles) >= Len(candles) \div 2

RangeSum(candles) == FoldSeq(LAMBDA candle, sum : candle.high - candle.low + sum, 0, candles)

\* The latest range is 1.2 times the average.
Expanded(candles) ==
  LET last == candles[Len(candles)]
  IN 10 * Len(candles) * (last.high - last.low) > 12 * RangeSum(candles)

\* The bodies are on average below 0.35 of the ranges.
SmallBodies(candles) ==
  LET ratio(candle) == (100 * (IF Up(candle) THEN candle.close - candle.open
                                              ELSE candle.open - candle.close))
                       \div (IF candle.high > candle.low THEN candle.high - candle.low ELSE 1)
  IN FoldSeq(LAMBDA candle, sum : ratio(candle) + sum, 0, candles) < 35 * Len(candles)

\* A short chart has fewer than 30 candles.  No snapshot has an "adx": a quarter of the trend score stands for it.
Regime(chart, s) ==
  LET candles == chart.candles
      before == SubSeq(candles, 1, Len(candles) - 1)
      beyond == 0 > Max(Highs(before)) \/ 0 < Min(Lows(before))
      up == chart.ema20 >= chart.ema50 /\ chart.ema50 >= chart.ema200
      down == chart.ema20 <= chart.ema50 /\ chart.ema50 <= chart.ema200
  IN IF chart.short THEN "UNKNOWN"
     ELSE IF s.news # "CLEAR" THEN "NEWS_SPIKE"
     ELSE IF beyond /\ Expanded(candles) THEN "BREAKOUT"
     ELSE IF 0 > chart.ema50 /\ up /\ s.trend >= 80 /\ s.structure \in Bullish THEN "TRENDING_UP"
     ELSE IF 0 < chart.ema50 /\ down /\ s.trend >= 80 /\ s.structure \in Bearish THEN "TRENDING_DOWN"
     ELSE IF s.trend < 72 \/ s.structure = "RANGE" THEN "RANGING"
     ELSE IF Choppy(candles) THEN "CHOPPY"
     ELSE IF s.volatility = "TOO_LOW" THEN "LOW_VOLATILITY"
     ELSE IF s.volatility = "EXTREME" THEN "HIGH_VOLATILITY"
     ELSE IF SmallBodies(candles) THEN "CHOPPY"
     ELSE "UNKNOWN"

-------------------------------------------------------------------------------
(* Confirmation by other timeframes                                        *)

Opposite(direction) == IF direction = "BUY" THEN "BEARISH" ELSE "BULLISH"
Wanted(direction)   == IF direction = "BUY" THEN "BULLISH" ELSE "BEARISH"

\* A view of a timeframe: whether there are ten candles, by how much the fast
\* average is above the slow one in hundred-thousandths, and whether the closes
\* change direction all the time.
Classified(view) ==
  LET size == IF view.drift < 0 THEN -view.drift ELSE view.drift
      score == Min({(size * 8) \div 100, 100})
      is(bias, points) == [bias |-> bias, score |-> points]
  IN IF ~view.enough THEN is("INSUFFICIENT_DATA", 0)
     ELSE IF view.drift > 50 THEN is("BULLISH", score)
     ELSE IF view.drift < -50 THEN is("BEARISH", score)
     ELSE IF view.choppy THEN is("CHOPPY", Max({score, 45}))
     ELSE is("NEUTRAL", Max({score, 55}))

AlignmentPoints(direction, item) ==
  IF item.bias \in {"INSUFFICIENT_DATA", "CHOPPY"} THEN 35
  ELSE IF item.bias = Wanted(direction) THEN 65 + Min({item.score, 35})
  ELSE IF item.bias = Opposite(direction) THEN Max({15, 55 - item.score})
  ELSE 55

\* The weights of the timeframes around a main timeframe of five minutes.
TimeframeWeight ==
  [tf \in {"1m", "5m", "15m", "1h", "4h"} |->
     IF tf = "1m" THEN 15 ELSE IF tf = "5m" THEN 30 ELSE IF tf = "15m" THEN 25
     ELSE IF tf = "1h" THEN 20 ELSE 10]

Opposed(direction, views) ==
  \/ Classified(views["1h"]).bias = Opposite(direction)
  \/ /\ Classified(views["4h"]).bias = Opposite(direction)
     /\ Classified(views["4h"]).score >= 70

\* In hundredths of a point.
Alignment(direction, views) ==
  MapThenSumSet(LAMBDA tf : TimeframeWeight[tf] * AlignmentPoints(direction, Classified(views[tf])),
                DOMAIN TimeframeWeight)

Confirmation(direction, views) ==
  IF direction = "HOLD" THEN "NEUTRAL"
  ELSE IF Opposed(direction, views) \/ Alignment(direction, views) < 5000 THEN "CONFLICT"
  ELSE IF Alignment(direction, views) >= 7000 THEN "ALIGNED"
  ELSE "MIXED"

=============================================================================
