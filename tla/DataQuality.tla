----------------------------- MODULE DataQuality -----------------------------
(***************************************************************************)
(* Cleaning and judging candles (data_engine.py), as operators.  A row is  *)
(* [at, close, high, low, open, valid]: at is its minute, valid whether it *)
(* can be parsed.  Ratios are in hundredths of a percent and the quality   *)
(* score in hundredths of a point, both rounded down.                      *)
(***************************************************************************)
EXTENDS Integers, Sequences, FiniteSets

LOCAL INSTANCE FiniteSetsExt
LOCAL INSTANCE SequencesExt

CONSTANTS
  MaxMissing,     \* data_quality_max_missing_ratio
  MaxOutliers,    \* data_quality_max_outlier_ratio
  MaxAge,         \* max_freshness_seconds, in minutes
  MinQuality      \* data_quality_min_score, in points

ASSUME QualityAssumption ==
  MaxMissing \in Nat /\ MaxOutliers \in Nat /\ MaxAge \in Nat /\ MinQuality \in 0..100

Ratio(part, whole) == (10000 * part) \div (IF whole > 1 THEN whole ELSE 1)

-------------------------------------------------------------------------------
(* Cleaning                                                                *)

Parsed(rows) == SelectSeq(rows, LAMBDA row : row.valid)

OutOfOrder(rows) == Cardinality({i \in 2..Len(rows) : rows[i].at < rows[i - 1].at})

\* The sort is stable and the first row of a minute is the one that is kept.
FirstOf(rows, at) == rows[Min({i \in DOMAIN rows : rows[i].at = at})]

Minutes(rows) == {rows[i].at : i \in DOMAIN rows}

Cleaned(rows) ==
  LET parsed == Parsed(rows)
      at == SetToSortSeq(Minutes(parsed), <)
  IN [i \in DOMAIN at |-> FirstOf(parsed, at[i])]

Missing(candles, step) ==
  IF Len(candles) < 2 THEN {}
  ELSE {at \in candles[1].at..candles[Len(candles)].at :
          (at - candles[1].at) % step = 0} \ Minutes(candles)

\* Twice the median.
Median2(numbers) ==
  LET sorted == SortSeq(numbers, <)
      n == Len(numbers)
  IN IF n % 2 = 1 THEN 2 * sorted[(n + 1) \div 2] ELSE sorted[n \div 2] + sorted[n \div 2 + 1]

Apart(a, b) == IF a >= b THEN a - b ELSE b - a

\* Moves from close to close of more than one percent, and of more than the
\* median move and twelve times the median deviation from it.
Outliers(candles) ==
  LET move == [i \in 1..(Len(candles) - 1) |->
                 (10000 * Apart(candles[i + 1].close, candles[i].close)) \div candles[i].close]
      center2 == Median2(move)
      deviation4 == Median2([i \in DOMAIN move |-> Apart(2 * move[i], center2)])
  IN IF Len(candles) < 5 THEN 0
     ELSE Cardinality({i \in DOMAIN move : /\ move[i] > 100
                                           /\ 2 * move[i] > center2 + 6 * deviation4})

-------------------------------------------------------------------------------
(* Judging.  A feed is [rows, provider, age]: what the provider returned,  *)
(* its status, and the age of its last candle.                             *)

Stale(feed) == Cleaned(feed.rows) # <<>> /\ feed.age > MaxAge

MissingRatio(candles, step) ==
  LET missing == Cardinality(Missing(candles, step)) IN Ratio(missing, Len(candles) + missing)

OutlierRatio(candles) == Ratio(Outliers(candles), Len(candles))

QualityScore(feed, step) ==
  LET candles == Cleaned(feed.rows)
      parsed == Parsed(feed.rows)
      ratio(n) == Ratio(n, Len(feed.rows))
      lost == Min({4500, 5 * MissingRatio(candles, step)})
              + Min({2500, (5 * ratio(Len(feed.rows) - Len(parsed))) \div 2})
              + Min({1500, (3 * ratio(Len(parsed) - Len(candles))) \div 2})
              + Min({2500, (5 * OutlierRatio(candles)) \div 2})
              + Min({1000, Ratio(OutOfOrder(parsed), Len(parsed))})
              + (IF Stale(feed) THEN 2500 ELSE 0)
  IN Max({0, 10000 - lost})

BlockingReasons(feed, step) ==
  LET candles == Cleaned(feed.rows)
      blocks(reason) ==
        CASE reason = "empty" -> candles = <<>>
          [] reason = "provider" -> feed.provider \in {"FAILED", "UNAVAILABLE", "ERROR"}
          [] reason = "missing" -> MissingRatio(candles, step) > MaxMissing
          [] reason = "outliers" -> OutlierRatio(candles) > MaxOutliers
          [] reason = "stale" -> Stale(feed)
          [] reason = "score" -> QualityScore(feed, step) < 100 * MinQuality
  IN {reason \in {"empty", "provider", "missing", "outliers", "stale", "score"} : blocks(reason)}

=============================================================================
