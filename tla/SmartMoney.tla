----------------------------- MODULE SmartMoney -----------------------------
(***************************************************************************)
(* The SMC setup (smc_engine.py): a sweep of a liquidity level, an         *)
(* inverted fair value gap around the price and a draw on liquidity.       *)
(*                                                                         *)
(* fine are the candles of the lower timeframe, days the highs and lows of *)
(* the days, asian the candles of the Asian session of today; gaps are     *)
(* looked for in the candles of two higher timeframes as well.             *)
(***************************************************************************)
EXTENDS Integers, Sequences

LOCAL INSTANCE FiniteSetsExt
LOCAL INSTANCE SequencesExt

NoLevel == [high |-> FALSE, price |-> 0, known |-> FALSE]

Level(high, price) == [high |-> high, price |-> price, known |-> TRUE]

\* The day before the last one, then the Asian session: a high and a low each.
Levels(days, asian) ==
  LET previous == days[Len(days) - 1]
  IN (IF Len(days) > 1 THEN <<Level(TRUE, previous.high), Level(FALSE, previous.low)>> ELSE <<>>)
     \o (IF asian = <<>> THEN <<>>
         ELSE <<Level(TRUE, Max({asian[i].high : i \in DOMAIN asian})),
                Level(FALSE, Min({asian[i].low : i \in DOMAIN asian}))>>)

\* The price went through the level and closed back on the other side of it.
Sweeps(candle, level) ==
  IF level.high THEN candle.high > level.price /\ candle.close < level.price
                ELSE candle.low < level.price /\ candle.close > level.price

Recent(candles) == (IF Len(candles) > 15 THEN Len(candles) - 14 ELSE 1)..Len(candles)

Swept(fine, levels, high) ==
  \E i \in DOMAIN levels, j \in Recent(fine) : levels[i].high = high /\ Sweeps(fine[j], levels[i])

\* The first level on a side: the draw on liquidity.
FirstLevel(levels, high) ==
  LET side == {i \in DOMAIN levels : levels[i].high = high}
  IN IF side = {} THEN NoLevel ELSE levels[Min(side)]

Gap(bullish, top, bottom, mitigated) ==
  [bullish |-> bullish, top |-> top, bottom |-> bottom, mitigated |-> mitigated]

\* The gaps that start at candle i, none or one.
GapsAt(candles, i) ==
  LET left == candles[i]  right == candles[i + 2]
      later == {candles[j] : j \in (i + 3)..Len(candles)}
  IN IF right.low > left.high
       THEN <<Gap(TRUE, right.low, left.high, \E c \in later : c.low <= left.high)>>
     ELSE IF right.high < left.low
       THEN <<Gap(FALSE, left.low, right.high, \E c \in later : c.high >= left.low)>>
     ELSE <<>>

Gaps(candles) ==
  FlattenSeq([i \in 1..(IF Len(candles) < 3 THEN 0 ELSE Len(candles) - 2) |-> GapsAt(candles, i)])

Inverted(gaps) ==
  LET traded == SelectSeq(gaps, LAMBDA gap : gap.mitigated)
  IN [i \in DOMAIN traded |-> [traded[i] EXCEPT !.bullish = ~@]]

Around(ifvgs, bullish, price) ==
  \E i \in DOMAIN ifvgs : /\ ifvgs[i].bullish = bullish
                          /\ ifvgs[i].bottom <= price /\ price <= ifvgs[i].top

SmcSnapshot(chart) ==
  LET levels == Levels(chart.days, chart.asian)
      ifvgs == Inverted(Gaps(chart.fine))
      price == chart.fine[Len(chart.fine)].close
      sells == Swept(chart.fine, levels, TRUE) /\ Around(ifvgs, FALSE, price)
      buys == Swept(chart.fine, levels, FALSE) /\ Around(ifvgs, TRUE, price)
  IN [direction |-> IF sells THEN "SELL" ELSE IF buys THEN "BUY" ELSE "none",
      dol |-> IF sells THEN FirstLevel(levels, FALSE)
              ELSE IF buys THEN FirstLevel(levels, TRUE) ELSE NoLevel,
      ifvgs |-> ifvgs,
      gaps |-> SelectSeq(Gaps(chart.coarse), LAMBDA gap : ~gap.mitigated),
      po3 |-> chart.po3]

=============================================================================
