-------------------------- MODULE MCSignalPipeline --------------------------
(* Charts, ballots and judges that make every gate of a cycle decide.      *)
EXTENDS SignalPipeline

-------------------------------------------------------------------------------
(* Charts: six candles, the last one closes at 0, the ATR is 20 ticks.     *)

Bar(open, high, low, close) == [open |-> open, high |-> high, low |-> low, close |-> close]

Rising  == [i \in 1..6 |-> Bar(6 * i - 42, 6 * i - 30, 6 * i - 44, 6 * i - 36)]
Falling == [i \in 1..6 |-> Bar(42 - 6 * i, 44 - 6 * i, 30 - 6 * i, 36 - 6 * i)]
Zigzag  == [i \in 1..6 |-> IF i % 2 = 0 THEN Bar(-4, 6, -10, 0) ELSE Bar(4, 8, -9, -2)]
\* The highs and lows rise, the candles are doubtful.
Climbing == [i \in 1..6 |-> Bar(3 * i - 18 + (i % 2), 3 * i - 8, 3 * i - 28, 3 * i - 18)]

\* A candle of four ATR, up or down.
Jump   == [i \in 1..6 |-> IF i = 6 THEN Bar(-94, 5, -96, 0) ELSE Bar(2 * i - 106, 2 * i - 104, 2 * i - 110, 2 * i - 105)]
Plunge == [i \in 1..6 |-> IF i = 6 THEN Bar(94, 96, -5, 0) ELSE Bar(106 - 2 * i, 110 - 2 * i, 104 - 2 * i, 105 - 2 * i)]

Quiet == <<Bar(0, 1, -1, 0)>>

\* A candle under the low of yesterday that closes above it, and a gap that was
\* left behind, traded through and is around the price now.
SweepLow  == <<Bar(12, 12, 5, 6), Bar(6, 6, -4, -4), Bar(-5, -5, -35, -6), Bar(-6, 6, -6, 0)>>
SweepHigh == <<Bar(-12, -5, -12, -6), Bar(-6, 4, -6, 4), Bar(5, 35, 5, 6), Bar(6, 6, -6, 0)>>
OpenGap   == <<Bar(6, 8, 6, 8), Bar(8, 14, 8, 14), Bar(14, 20, 14, 20)>>

Chart(candles, fast, slow, rsi, macd, atrPct) ==
  [candles |-> candles, ema20 |-> fast, ema50 |-> 2 * fast, ema200 |-> slow, sma50 |-> slow,
   sma200 |-> slow, rsi |-> rsi, macd |-> macd, return5 |-> macd, atrPct |-> atrPct, unit |-> 1,
   session |-> "LONDON_ACTIVE", fine |-> Quiet, coarse |-> <<>>,
   days |-> <<>>, asian |-> <<>>, po3 |-> FALSE, short |-> FALSE]

Smc(c, fine, low, high, po3) ==
  [c EXCEPT !.fine = fine, !.coarse = OpenGap, !.po3 = po3,
                !.days = <<[high |-> high, low |-> low], [high |-> 5, low |-> -5]>>]

MCCharts ==
  {Chart(Rising, -5, -30, 60, 1, 10),
   [Chart(Rising, -5, -30, 60, 1, 10) EXCEPT !.short = TRUE],
   Chart(Falling, 5, 30, 40, -1, 10),
   Chart(Zigzag, -40, -30, 60, 1, 10),
   [Chart(Climbing, -5, -12, 60, 1, 30) EXCEPT !.session = "DAILY_BREAK"],
   Chart(Climbing, -5, -12, 60, 1, 50),
   [Chart(Climbing, 2, -30, 60, 1, 10) EXCEPT !.ema50 = -10, !.sma50 = 1],
   Smc(Chart(Jump, -99, -200, 60, 1, 10), SweepLow, -10, 30, TRUE),
   Smc(Chart(Jump, -99, -200, 60, 1, 10), SweepLow, -30, -20, FALSE),
   Smc(Chart(Plunge, 99, 200, 40, -1, 10), SweepHigh, -30, 10, TRUE)}

-------------------------------------------------------------------------------

Row(at, close) == [at |-> at, close |-> close, high |-> close, low |-> close, open |-> close,
                   valid |-> close > 0]

MCFeeds ==
  {[rows |-> <<Row(1, 10), Row(2, 10), Row(3, 10)>>, provider |-> "AVAILABLE", age |-> 1],
   [rows |-> <<Row(2, 10), Row(1, 10), Row(2, 0), Row(6, 10)>>, provider |-> "AVAILABLE", age |-> 1],
   [rows |-> <<Row(1, 10), Row(2, 10)>>, provider |-> "AVAILABLE", age |-> 9]}

MCContexts ==
  {[spread |-> spread, to |-> to, since |-> Never, limits |-> limits, special |-> FALSE] :
     spread \in {1, 5}, to \in {Never}, limits \in {{}, {"daily loss"}}}
  \cup {[spread |-> 1, to |-> 20, since |-> Never, limits |-> {}, special |-> TRUE]}

Event(at, impact) == [at |-> at, impact |-> impact, before |-> 45, after |-> 15]

MCCalendars ==
  {{}, {Event(40, "HIGH")}, {Event(-10, "HIGH")}, {Event(5, "MEDIUM"), Event(20, "HIGH")}}

For(buy, sell, weight) == [buy |-> buy, sell |-> sell, hold |-> 100 - buy - sell, weight |-> weight]

\* Kronos first.
MCBallots ==
  {<<For(80, 10, 40), For(75, 15, 30), For(80, 10, 30)>>,
   <<For(10, 80, 40), For(15, 75, 30), For(10, 80, 30)>>,
   <<For(10, 80, 20), For(80, 10, 40), For(85, 5, 40)>>,
   <<For(80, 10, 25), For(80, 10, 25), For(10, 75, 25), For(10, 75, 25)>>,
   <<For(60, 10, 50), For(60, 15, 50)>>,
   <<For(36, 32, 50), For(40, 36, 50)>>,
   <<For(10, 10, 50), For(60, 10, 0)>>}

View(drift, choppy) == [enough |-> TRUE, drift |-> drift, choppy |-> choppy]
Missed == [enough |-> FALSE, drift |-> 0, choppy |-> FALSE]

MCOutlooks ==
  {[tf \in {"1m", "5m", "15m", "1h", "4h"} |-> View(drift, FALSE)] : drift \in {400, -400}}
  \cup {[tf \in {"1m", "5m", "15m", "1h", "4h"} |->
           IF tf = "4h" THEN Missed ELSE View(0, tf = "15m")]}

MCNewsStates ==
  {[bias |-> "NEUTRAL", weight |-> 0, block |-> FALSE],
   [bias |-> "BUY", weight |-> 80, block |-> FALSE],
   [bias |-> "SELL", weight |-> 80, block |-> TRUE]}

MCControls ==
  {[enabled |-> TRUE, applies |-> {"auto"}, sessions |-> SessionNames, directions |-> Directions,
    opposite |-> opposite] : opposite \in BOOLEAN}
  \cup {[enabled |-> FALSE, applies |-> {}, sessions |-> {}, directions |-> {}, opposite |-> FALSE]}

MCPermissions == {{"RECOMMENDED"}, {"RECOMMENDED", "WEAK_RECOMMENDATION", "BLOCKED_BY_RISK"}}

=============================================================================
