------------------------ MODULE NewsIntelligenceProofs ------------------------
(***************************************************************************)
(* Proofs about NewsIntelligence, for any handlers, stories, events and    *)
(* answers and any bounds, from ItemsAssumption and LimitAssumption.       *)
(*                                                                         *)
(* The aggregate is a sum over the analyses that were read: the lemmas say *)
(* which sign it can have, by a minimal counterexample among the subsets   *)
(* of their positions.  The inductive invariant IInv follows what was read *)
(* to the row it is written to, and what was fetched to its analysis.      *)
(***************************************************************************)
EXTENDS NewsIntelligence, FiniteSetTheorems, SequenceTheorems, TLAPS

(*-------------------------------------------------------------------------*)
(* Sums and extremes                                                       *)
(*-------------------------------------------------------------------------*)
(* The equation that the fold of SumFunction chooses its function by.      *)
Any(s) == CHOOSE x \in s : TRUE
SumEq(g, f, S) ==
  g = [s \in SUBSET S |-> IF s = {} THEN 0 ELSE f[Any(s)] + g[s \ {Any(s)}]]

LEMMA SumUnfolds ==
  ASSUME NEW S, NEW f \in [S -> Int]
  PROVE  SumFunction(f) = (CHOOSE g : SumEq(g, f, S))[S]
<1>1. DOMAIN f = S OBVIOUS
<1>2. SumFunction(f) = SumFunctionOnSet(f, S) BY <1>1 DEF SumFunction
<1>3. SumFunctionOnSet(f, S) = (CHOOSE g : SumEq(g, f, S))[S]
  BY Zenon DEF SumFunctionOnSet, FoldFunctionOnSet, MapThenFoldSet, SumEq, Any
<1> QED BY <1>2, <1>3

LEMMA LeastSubset ==
  ASSUME NEW S, IsFiniteSet(S), NEW T \in SUBSET (SUBSET S), T # {}
  PROVE  \E x \in T : \A y \in T : y \subseteq x => y = x
<1>1. IsWellFoundedOn(StrictSubsetOrdering(S), FiniteSubsetsOf(S))
  BY FS_StrictSubsetOrderingWellFounded
<1>2. FiniteSubsetsOf(S) = SUBSET S BY FS_FiniteSubsetsOfFinite
<1>3. \E x \in T : \A y \in T : ~ (<<y, x>> \in StrictSubsetOrdering(S))
  BY ONLY <1>1, <1>2, WFMin, T \subseteq SUBSET S, T # {}
<1> QED BY <1>3 DEF StrictSubsetOrdering

LEMMA IntegersHaveExtremes ==
  ASSUME NEW S, S \subseteq Int, IsFiniteSet(S), S # {}
  PROVE  /\ Max(S) \in S /\ \A y \in S : y <= Max(S)
         /\ Min(S) \in S /\ \A y \in S : Min(S) <= y
<1> DEFINE HasBoth(R) == /\ \E m \in R : \A y \in R : m >= y
                         /\ \E m \in R : \A y \in R : m =< y
           bad == {R \in SUBSET S : R # {} /\ ~HasBoth(R)}
<1>1. ASSUME bad # {} PROVE FALSE
  <2>1. PICK R \in bad : \A y \in bad : y \subseteq R => y = R
    <3> HIDE DEF bad
    <3>1. bad \in SUBSET (SUBSET S) BY DEF bad
    <3> QED BY ONLY <1>1, <3>1, LeastSubset, IsFiniteSet(S)
  <2>2. R \subseteq S /\ R # {} /\ ~HasBoth(R) OBVIOUS
  <2>3. PICK x \in R : TRUE BY <2>2
  <2>4. CASE R = {x}
    <3>1. x \in Int BY <2>2, <2>3
    <3>2. HasBoth(R) BY <3>1, <2>4
    <3> QED BY <3>2, <2>2
  <2>5. CASE R # {x}
    <3>1. R \ {x} \in SUBSET S /\ R \ {x} # {} /\ R \ {x} # R
      BY <2>2, <2>3, <2>5
    <3>2. HasBoth(R \ {x})
      <4>1. R \ {x} \notin bad BY <2>1, <3>1
      <4> QED BY <4>1, <3>1
    <3>3. PICK m \in R \ {x} : \A y \in R \ {x} : m >= y BY <3>2
    <3>4. PICK n \in R \ {x} : \A y \in R \ {x} : n =< y BY <3>2
    <3>5. x \in Int /\ m \in Int /\ n \in Int /\ \A y \in R : y \in Int
      BY <2>2, <2>3, <3>3, <3>4
    <3>6. \E k \in R : \A y \in R : k >= y
      <4>1. CASE x >= m BY <4>1, <3>3, <3>5, <2>3
      <4>2. CASE ~(x >= m) BY <4>2, <3>3, <3>5, <2>3
      <4> QED BY <4>1, <4>2
    <3>7. \E k \in R : \A y \in R : k =< y
      <4>1. CASE x =< n BY <4>1, <3>4, <3>5, <2>3
      <4>2. CASE ~(x =< n) BY <4>2, <3>4, <3>5, <2>3
      <4> QED BY <4>1, <4>2
    <3> QED BY <3>6, <3>7, <2>2
  <2> QED BY <2>4, <2>5
<1>2. HasBoth(S) BY <1>1
<1>3. Max(S) \in S /\ \A y \in S : Max(S) >= y BY <1>2 DEF Max
<1>4. Min(S) \in S /\ \A y \in S : Min(S) =< y BY <1>2 DEF Min
<1> QED BY <1>3, <1>4

LEMMA LeastNatural ==
  ASSUME NEW T \in SUBSET Nat, T # {}
  PROVE  \E m \in T : \A k \in T : m <= k
<1>1. PICK n \in T : TRUE OBVIOUS
<1> DEFINE low == T \cap (0 .. n)
<1>2. low \in SUBSET Int /\ low # {} BY <1>1
<1>3. IsFiniteSet(low)
  <2>1. n \in Int BY <1>1
  <2>2. IsFiniteSet(0 .. n) BY <2>1, FS_Interval
  <2> QED BY <2>2, FS_Subset
<1>4. Min(low) \in low /\ \A y \in low : Min(low) <= y
  BY <1>2, <1>3, IntegersHaveExtremes
<1>5. ASSUME NEW k \in T PROVE Min(low) <= k
  BY <1>4, <1>1
<1> QED BY <1>4, <1>5

LEMMA SumRecursion ==
  ASSUME NEW S, IsFiniteSet(S), NEW f \in [S -> Int]
  PROVE  \E g : SumEq(g, f, S)
<1> DEFINE Upto(g, n) ==
             \A s \in SUBSET S : Cardinality(s) <= n =>
               g[s] = IF s = {} THEN 0 ELSE f[Any(s)] + g[s \ {Any(s)}]
           bad == {n \in Nat : ~\E g \in [SUBSET S -> Int] : Upto(g, n)}
<1>c. \A s \in SUBSET S : Cardinality(s) \in Nat /\ IsFiniteSet(s)
  BY FS_Subset, FS_CardinalityType
<1>r. \A s \in SUBSET S : s # {} =>
        /\ Any(s) \in s /\ s \ {Any(s)} \in SUBSET S
        /\ Cardinality(s \ {Any(s)}) = Cardinality(s) - 1
  BY <1>c, FS_RemoveElement DEF Any
<1>1. ASSUME bad # {} PROVE FALSE
  <2>1. PICK m \in bad : \A k \in bad : m <= k
    <3> HIDE DEF bad
    <3>1. bad \in SUBSET Nat BY DEF bad
    <3> QED BY <1>1, <3>1, LeastNatural
  <2>2. m \in Nat /\ ~\E g \in [SUBSET S -> Int] : Upto(g, m) OBVIOUS
  <2>3. CASE m = 0
    <3> DEFINE g == [s \in SUBSET S |-> 0]
    <3>1. \A s \in SUBSET S : Cardinality(s) <= 0 => s = {}
      BY <1>c, FS_EmptySet
    <3>2. g \in [SUBSET S -> Int] /\ Upto(g, 0) BY <3>1
    <3> QED BY <3>2, <2>2, <2>3
  <2>4. CASE m # 0
    <3>0. m - 1 \in Nat /\ ~(m <= m - 1) BY <2>4, <2>2
    <3>1. m - 1 \in Nat /\ m - 1 \notin bad
      <4> HIDE DEF bad
      <4> QED BY <3>0, <2>1
    <3>2. PICK g \in [SUBSET S -> Int] : Upto(g, m - 1) BY <3>1
    <3> DEFINE h == [s \in SUBSET S |->
                       IF Cardinality(s) <= m - 1 THEN g[s]
                       ELSE IF s = {} THEN 0 ELSE f[Any(s)] + g[s \ {Any(s)}]]
    <3>3. h \in [SUBSET S -> Int]
      BY <1>r
    <3>4. ASSUME NEW s \in SUBSET S, Cardinality(s) <= m
          PROVE  h[s] = IF s = {} THEN 0 ELSE f[Any(s)] + h[s \ {Any(s)}]
      <4>1. CASE s = {} 
        <5>1. Cardinality(s) = 0 BY <4>1, FS_EmptySet
        <5> QED BY <5>1, <4>1, <3>2, <2>2, <3>1
      <4>2. CASE s # {}
        <5>1. /\ Any(s) \in s /\ s \ {Any(s)} \in SUBSET S
              /\ Cardinality(s \ {Any(s)}) = Cardinality(s) - 1
              /\ Cardinality(s) \in Nat
          BY <4>2, <1>r, <1>c
        <5>2. Cardinality(s \ {Any(s)}) <= m - 1 BY <5>1, <3>4, <2>2
        <5>3. h[s \ {Any(s)}] = g[s \ {Any(s)}] BY <5>1, <5>2
        <5>4. h[s] = f[Any(s)] + g[s \ {Any(s)}]
          BY <3>2, <4>2
        <5> QED BY <5>3, <5>4, <4>2
      <4> QED BY <4>1, <4>2
    <3>5. Upto(h, m) BY <3>4
    <3> QED BY <3>3, <3>5, <2>2
  <2> QED BY <2>3, <2>4
<1>2. Cardinality(S) \in Nat BY FS_CardinalityType
<1>3. PICK g \in [SUBSET S -> Int] : Upto(g, Cardinality(S)) BY <1>1, <1>2
<1>4. ASSUME NEW s \in SUBSET S
      PROVE  g[s] = IF s = {} THEN 0 ELSE f[Any(s)] + g[s \ {Any(s)}]
  <2>1. Cardinality(s) <= Cardinality(S) BY FS_Subset
  <2> QED BY <2>1, <1>3
<1>5. g = [s \in SUBSET S |-> IF s = {} THEN 0 ELSE f[Any(s)] + g[s \ {Any(s)}]]
  BY <1>3, <1>4
<1> QED BY <1>5 DEF SumEq

LEMMA SumSigns ==
  ASSUME NEW S, IsFiniteSet(S), NEW f \in [S -> Int]
  PROVE  /\ SumFunction(f) \in Int
         /\ (\A i \in S : f[i] >= 0) => SumFunction(f) >= 0
         /\ (\A i \in S : f[i] <= 0) => SumFunction(f) <= 0
<1> DEFINE g == CHOOSE h : SumEq(h, f, S)
           Fine(s) == /\ g[s] \in Int
                      /\ (\A i \in S : f[i] >= 0) => g[s] >= 0
                      /\ (\A i \in S : f[i] <= 0) => g[s] <= 0
           bad == {s \in SUBSET S : ~Fine(s)}
<1>1. SumFunction(f) = g[S] BY SumUnfolds
<1>2. SumEq(g, f, S) BY SumRecursion
<1> HIDE DEF g
<1>3. \A s \in SUBSET S : g[s] = IF s = {} THEN 0 ELSE f[Any(s)] + g[s \ {Any(s)}]
  BY <1>2 DEF SumEq
<1>4. ASSUME bad # {} PROVE FALSE
  <2>1. PICK s \in bad : \A y \in bad : y \subseteq s => y = s
    <3> HIDE DEF bad
    <3>1. bad \in SUBSET (SUBSET S) BY DEF bad
    <3> QED BY <1>4, <3>1, LeastSubset
  <2>2. s \in SUBSET S /\ ~Fine(s) OBVIOUS
  <2>3. CASE s = {} 
    <3>1. g[s] = 0 BY <1>3, <2>2, <2>3
    <3> QED BY <3>1, <2>2
  <2>4. CASE s # {}
    <3>1. Any(s) \in s BY <2>4 DEF Any
    <3>2. Fine(s \ {Any(s)})
      <4>1. s \ {Any(s)} \in SUBSET S /\ s \ {Any(s)} # s BY <3>1, <2>2
      <4>2. s \ {Any(s)} \notin bad BY <4>1, <2>1
      <4> QED BY <4>1, <4>2
    <3>3. f[Any(s)] \in Int BY <3>1, <2>2
    <3>4. g[s] = f[Any(s)] + g[s \ {Any(s)}] BY <1>3, <2>2, <2>4
    <3>5. Any(s) \in S BY <3>1, <2>2
    <3>6. Fine(s) BY <3>2, <3>3, <3>4, <3>5
    <3> QED BY <3>6, <2>2
  <2> QED BY <2>3, <2>4
<1>5. Fine(S) BY <1>4
<1> QED BY <1>1, <1>5

(*-------------------------------------------------------------------------*)
(* Types                                                                   *)
(*-------------------------------------------------------------------------*)
Rows ==
  [about : {item.id : item \in Stories \cup Events}, until : Nat,
   relevance : Relevances, direction : Directions, confidence : Nat,
   impact : Impacts, weight : Int, action : Actions, blocks : BOOLEAN,
   reduces : BOOLEAN]

Extracts == UNION {[D -> Rows] : D \in {D \in SUBSET Nat : IsFiniteSet(D)}}

PCs == {"idle", "awaiting", "items", "event", "analysing", "reading", "writing"}

Jobs ==
  [pc : PCs, sources : Seq(DOMAIN Feed), batch : SUBSET Stories,
   item : SUBSET (Stories \cup Events), rows : Extracts, fetched : SUBSET Stories]

Cycles == [reads : BOOLEAN, rows : Extracts, seen : Nat, at : Nat]

(* What a handler cannot have where it is.                                 *)
Placed(job) ==
  /\ job.pc = "awaiting" => job.sources # <<>>
  /\ job.pc \in {"awaiting", "reading", "writing"} => job.batch = {}
  /\ job.pc = "event" => job.fetched = {}

TypeOK ==
  /\ now \in Nat
  /\ analyses \in Seq(Rows)
  /\ handler \in [Handlers -> Jobs]
  /\ \A h \in Handlers : Placed(handler[h])
  /\ cycle \in Cycles

(* The rows the aggregation had to pick from the first n analyses at t.    *)
Picked(n, t) ==
  Restrict(analyses,
    {i \in 1..n : /\ IsUsable(analyses[i], t)
                  /\ Cardinality({j \in 1..n : j > i /\ analyses[j].until > t}) < Limit})

(* The cycle holds what it read, although the table has grown since.       *)
CycleInv ==
  cycle.reads => /\ cycle.seen <= Len(analyses)
                 /\ cycle.rows = Picked(cycle.seen, cycle.at)

(* An analysis that counts, whenever it ends.                              *)
Weighty(r) == r.relevance \in {"HIGH", "CRITICAL"} \/ r.confidence >= MinConfidence

(* The rows a handler or the cycle carries are rows of the table that      *)
(* counted when they were read.                                            *)
Drawn(rows) ==
  \A i \in DOMAIN rows : /\ i \in DOMAIN analyses
                         /\ rows[i] = analyses[i]
                         /\ Weighty(rows[i]) /\ rows[i].until > 0

DrawnInv == Drawn(cycle.rows) /\ \A h \in Handlers : Drawn(handler[h].rows)

(* The served row is the neutral one, or ends with an analysis that counts. *)
RowInv ==
  row = Neutral \/ \E i \in DOMAIN analyses : /\ Weighty(analyses[i])
                                             /\ analyses[i].until = row.until
                                             /\ row.until > 0

Analysed(story) ==
  story \in stories /\ \E i \in DOMAIN analyses : analyses[i].about = story.id

InHand(job, story) == job.pc = "analysing" /\ job.item = {story}

(* A story fetched is waiting, in hand, or analysed.                       *)
FetchedInv ==
  \A h \in Handlers :
    LET job == handler[h]
    IN  \A s \in job.fetched : /\ ShouldAnalyse(s)
                                /\ \/ s \in job.batch
                                   \/ InHand(job, s) /\ s \in stories
                                   \/ Analysed(s)

(*-------------------------------------------------------------------------*)
(* The aggregate                                                           *)
(*-------------------------------------------------------------------------*)
LEMMA ExtractsAreFunctions ==
  ASSUME NEW rows \in Extracts
  PROVE  /\ DOMAIN rows \in SUBSET Nat /\ IsFiniteSet(DOMAIN rows)
         /\ rows \in [DOMAIN rows -> Rows]
<1>1. PICK D \in {D \in SUBSET Nat : IsFiniteSet(D)} : rows \in [D -> Rows]
  BY DEF Extracts
<1>2. DOMAIN rows = D BY <1>1
<1> QED BY <1>1, <1>2

LEMMA SmallSets ==
  ASSUME NEW a \in Int, NEW b \in Int
  PROVE  /\ Max({a, b}) \in Int /\ Max({a, b}) >= a /\ Max({a, b}) >= b
         /\ Max({a, b}) = a \/ Max({a, b}) = b
         /\ Min({a, b}) \in Int
<1>1. IsFiniteSet({a, b})
  <2>1. IsFiniteSet({a}) BY FS_Singleton
  <2>2. IsFiniteSet({a} \cup {b}) BY <2>1, FS_AddElement
  <2>3. {a} \cup {b} = {a, b} OBVIOUS
  <2> QED BY <2>2, <2>3
<1>2. {a, b} \subseteq Int /\ {a, b} # {} OBVIOUS
<1>3. /\ Max({a, b}) \in {a, b} /\ \A y \in {a, b} : y <= Max({a, b})
      /\ Min({a, b}) \in {a, b}
  BY <1>1, <1>2, IntegersHaveExtremes
<1> QED BY <1>3

LEMMA FloorAndCeiling ==
  ASSUME NEW m \in Int
  PROVE  Max({0, m}) \in Nat /\ Min({100, m}) \in Int
<1> DEFINE floor == 0
           ceiling == 100
<1>1. floor \in Int /\ ceiling \in Int /\ floor = 0 /\ ceiling = 100 OBVIOUS
<1> HIDE DEF floor, ceiling
<1>2. /\ Max({floor, m}) >= floor /\ Max({floor, m}) \in Int
      /\ Min({ceiling, m}) \in Int
  BY <1>1, SmallSets
<1> QED BY <1>1, <1>2

LEMMA HeldIsNatural ==
  ASSUME NEW r \in Rows
  PROVE  HeldWeight(r) \in Nat
<1>1. r.weight \in Int BY DEF Rows
<1>2. WeightCap(r.impact) \in Int BY DEF WeightCap, MaxWeight
<1> DEFINE m == Min({r.weight, WeightCap(r.impact)})
<1>3. m \in Int BY <1>1, <1>2, SmallSets
<1>4. HeldWeight(r) = Max({0, m}) BY DEF HeldWeight
<1> HIDE DEF m
<1> QED BY <1>3, <1>4, FloorAndCeiling

LEMMA ScoreFollowsDirection ==
  ASSUME NEW r \in Rows
  PROVE  /\ Score(r) \in Int
         /\ r.direction # "UP" => Score(r) <= 0
         /\ r.direction # "DOWN" => Score(r) >= 0
<1>1. r.confidence \in Nat /\ r.impact \in Impacts BY DEF Rows
<1>2. ImpactMultiplier[r.impact] \in Nat
  BY <1>1 DEF ImpactMultiplier, Impacts
<1>3. CASE r.direction = "UP"
  <2>1. DirectionScore(r.direction) = 1 BY <1>3 DEF DirectionScore
  <2> QED BY <2>1, <1>1, <1>2, <1>3 DEF Score
<1>4. CASE r.direction = "DOWN"
  <2>1. DirectionScore(r.direction) = -1 BY <1>4 DEF DirectionScore
  <2> QED BY <2>1, <1>1, <1>2, <1>4 DEF Score
<1>5. CASE r.direction \notin {"UP", "DOWN"}
  <2>1. DirectionScore(r.direction) = 0 BY <1>5 DEF DirectionScore
  <2> QED BY <2>1, <1>1, <1>2, <1>5 DEF Score
<1> QED BY <1>3, <1>4, <1>5

LEMMA ProductSigns ==
  ASSUME NEW a \in Int, NEW b \in Nat
  PROVE  /\ a * b \in Int /\ a >= 0 => a * b >= 0
         /\ a <= 0 => a * b <= 0
OBVIOUS

Held(rows) == [i \in DOMAIN rows |-> HeldWeight(rows[i])]
Scored(rows) == [i \in DOMAIN rows |-> Score(rows[i]) * HeldWeight(rows[i])]

LEMMA TotalsAreSigned ==
  ASSUME NEW rows \in Extracts
  PROVE  /\ SumFunction(Held(rows)) \in Int
         /\ SumFunction(Scored(rows)) \in Int
         /\ SumFunction(Scored(rows)) > 0 => \E i \in DOMAIN rows : rows[i].direction = "UP"
         /\ SumFunction(Scored(rows)) < 0 => \E i \in DOMAIN rows : rows[i].direction = "DOWN"
<1> DEFINE D == DOMAIN rows
<1>1. IsFiniteSet(D) /\ rows \in [D -> Rows] BY ExtractsAreFunctions
<1> HIDE DEF D
<1>2. Held(rows) \in [D -> Int] BY <1>1, HeldIsNatural DEF Held, D
<1>3. \A i \in D : /\ Scored(rows)[i] = Score(rows[i]) * HeldWeight(rows[i])
                   /\ rows[i] \in Rows
  BY <1>1 DEF Scored, D
<1>4. ASSUME NEW i \in D
      PROVE  /\ Scored(rows)[i] \in Int
             /\ rows[i].direction # "UP" => Scored(rows)[i] <= 0
             /\ rows[i].direction # "DOWN" => Scored(rows)[i] >= 0
  <2>1. rows[i] \in Rows BY <1>3
  <2>2. HeldWeight(rows[i]) \in Nat BY <2>1, HeldIsNatural
  <2>3. /\ Score(rows[i]) \in Int
        /\ rows[i].direction # "UP" => Score(rows[i]) <= 0
        /\ rows[i].direction # "DOWN" => Score(rows[i]) >= 0
    BY <2>1, ScoreFollowsDirection
  <2>4. /\ Score(rows[i]) * HeldWeight(rows[i]) \in Int
        /\ Score(rows[i]) >= 0 => Score(rows[i]) * HeldWeight(rows[i]) >= 0
        /\ Score(rows[i]) <= 0 => Score(rows[i]) * HeldWeight(rows[i]) <= 0
    BY ONLY <2>2, <2>3, ProductSigns
  <2> QED BY <1>3, <2>3, <2>4
<1>5. Scored(rows) \in [D -> Int]
  BY <1>4 DEF Scored, D
<1>6. SumFunction(Held(rows)) \in Int BY <1>1, <1>2, SumSigns
<1>7. /\ SumFunction(Scored(rows)) \in Int
      /\ (\A i \in D : Scored(rows)[i] >= 0) => SumFunction(Scored(rows)) >= 0
      /\ (\A i \in D : Scored(rows)[i] <= 0) => SumFunction(Scored(rows)) <= 0
  BY ONLY <1>1, <1>5, SumSigns
<1> QED BY <1>4, <1>6, <1>7 DEF D

LEMMA AggregateSays ==
  ASSUME NEW rows \in Extracts, NEW i \in DOMAIN rows
  PROVE  /\ Blocking(rows[i]) => Aggregate(rows).blocks
         /\ Aggregate(rows).bias = "BUY" => rows[i].direction # "DOWN"
         /\ Aggregate(rows).bias = "SELL" => rows[i].direction # "UP"
<1> DEFINE total == SumFunction(Held(rows))
           score == SumFunction(Scored(rows))
           mixed == \A side \in {"UP", "DOWN"} :
                      \E r \in Range(rows) : r.direction = side
           leaning == IF total > 0 /\ score >= 3000 * total THEN <<"UP", "BUY">>
                      ELSE IF total > 0 /\ score <= -3000 * total THEN <<"DOWN", "SELL">>
                      ELSE <<"NEUTRAL", "HOLD">>
           verdict == IF mixed THEN <<"MIXED", "NO_TRADE">> ELSE leaning
<1>1. DOMAIN rows # {} OBVIOUS
<1>2. /\ Aggregate(rows).blocks = \E r \in Range(rows) : Blocking(r)
      /\ Aggregate(rows).bias = verdict[2]
  BY <1>1 DEF Aggregate, Held, Scored
<1>3. rows[i] \in Range(rows) BY DEF Range
<1>4. \A j \in DOMAIN rows : rows[j] \in Range(rows) BY DEF Range
<1>5. /\ total \in Int /\ score \in Int
      /\ score > 0 => \E j \in DOMAIN rows : rows[j].direction = "UP"
      /\ score < 0 => \E j \in DOMAIN rows : rows[j].direction = "DOWN"
  BY TotalsAreSigned
<1>6. verdict[2] = "BUY" => ~mixed /\ score > 0
  <2> HIDE DEF mixed, total, score
  <2> QED BY <1>5
<1>7. verdict[2] = "SELL" => ~mixed /\ score < 0
  <2> HIDE DEF mixed, total, score
  <2> QED BY <1>5
<1>8. Blocking(rows[i]) => Aggregate(rows).blocks BY <1>2, <1>3
<1>9. ASSUME verdict[2] = "BUY" PROVE rows[i].direction # "DOWN"
  <2>1. PICK j \in DOMAIN rows : rows[j].direction = "UP" BY <1>5, <1>6, <1>9
  <2>2. ~mixed BY <1>6, <1>9
  <2> QED BY <2>1, <2>2, <1>3, <1>4
<1>10. ASSUME verdict[2] = "SELL" PROVE rows[i].direction # "UP"
  <2>1. PICK j \in DOMAIN rows : rows[j].direction = "DOWN" BY <1>5, <1>7, <1>10
  <2>2. ~mixed BY <1>7, <1>10
  <2> QED BY <2>1, <2>2, <1>3, <1>4
<1> HIDE DEF verdict
<1> QED BY <1>2, <1>8, <1>9, <1>10

LEMMA AggregateEndsWithARow ==
  ASSUME NEW rows \in Extracts
  PROVE  \/ Aggregate(rows) = Neutral
         \/ \E i \in DOMAIN rows : Aggregate(rows).until = rows[i].until
<1>1. CASE DOMAIN rows = {} BY <1>1 DEF Aggregate
<1>2. CASE DOMAIN rows # {}
  <2> DEFINE ends == {r.until : r \in Range(rows)}
  <2>1. Aggregate(rows).until = Max(ends) BY <1>2 DEF Aggregate
  <2>2. IsFiniteSet(DOMAIN rows) /\ rows \in [DOMAIN rows -> Rows]
    BY ExtractsAreFunctions
  <2>3. ends = {rows[i].until : i \in DOMAIN rows} BY DEF Range
  <2>4. ends \subseteq Int /\ ends # {}
    <3>1. \A i \in DOMAIN rows : rows[i].until \in Int BY <2>2 DEF Rows
    <3> QED BY <3>1, <2>3, <1>2
  <2>5. IsFiniteSet(ends)
    <3> DEFINE f == [i \in DOMAIN rows |-> rows[i].until]
    <3>1. f \in [DOMAIN rows -> ends] BY <2>3
    <3>2. f \in Surjection(DOMAIN rows, ends) BY <3>1, <2>3 DEF Surjection
    <3> HIDE DEF ends, f
    <3> QED BY <3>2, <2>2, FS_Surjection
  <2>6. Max(ends) \in ends
    <3> HIDE DEF ends
    <3> QED BY <2>4, <2>5, IntegersHaveExtremes
  <2> QED BY <2>1, <2>3, <2>6
<1> QED BY <1>1, <1>2

(*-------------------------------------------------------------------------*)
(* Readings and rows of the table                                          *)
(*-------------------------------------------------------------------------*)
LEMMA ClampIsNatural ==
  ASSUME NEW relevance \in Relevances, NEW weight \in Int, NEW high \in BOOLEAN
  PROVE  ClampedWeight(relevance, weight, high) \in Int
<1>1. WeightCapForRelevance[relevance] \in Int /\ MaxWeight(high) \in Int
  BY DEF Relevances, WeightCapForRelevance, MaxWeight
<1> DEFINE s == {weight, WeightCapForRelevance[relevance], MaxWeight(high)}
           m == Min(s)
<1>2. m \in Int
  <2>1. IsFiniteSet(s)
    <3>1. IsFiniteSet({weight}) BY FS_Singleton
    <3>2. IsFiniteSet({weight} \cup {WeightCapForRelevance[relevance]})
      BY <3>1, FS_AddElement
    <3>3. IsFiniteSet({weight} \cup {WeightCapForRelevance[relevance]}
                        \cup {MaxWeight(high)})
      BY <3>2, FS_AddElement
    <3>4. {weight} \cup {WeightCapForRelevance[relevance]} \cup {MaxWeight(high)} = s
      OBVIOUS
    <3> QED BY <3>3, <3>4
  <2>2. s \subseteq Int /\ s # {} BY <1>1
  <2> HIDE DEF s
  <2> QED BY <2>1, <2>2, IntegersHaveExtremes
<1>3. ClampedWeight(relevance, weight, high) = Max({0, m}) BY DEF ClampedWeight
<1> HIDE DEF m
<1>4. Max({0, m}) \in Nat BY ONLY <1>2, FloorAndCeiling
<1> QED BY <1>3, <1>4

(* What an analysis is made of: an answer whose confidence is in range.    *)
Sound == {a \in Answers : a.confidence \in Nat}

LEMMA ReadingsAreTyped ==
  \A tone \in {"conflict", "hawkish", "dovish", "macro", "plain"} :
     /\ Readings[tone].direction \in Directions /\ Readings[tone].confidence \in Nat
     /\ Readings[tone].impact \in Impacts /\ Readings[tone].action \in Actions
     /\ Readings[tone].reduces \in BOOLEAN
<1> DEFINE Typed(r) == /\ r.direction \in Directions /\ r.confidence \in Nat
                       /\ r.impact \in Impacts /\ r.action \in Actions
                       /\ r.reduces \in BOOLEAN
<1>1. Typed(Readings["conflict"]) BY DEF Readings, Directions, Impacts, Actions
<1>2. Typed(Readings["hawkish"]) BY DEF Readings, Directions, Impacts, Actions
<1>3. Typed(Readings["dovish"]) BY DEF Readings, Directions, Impacts, Actions
<1>4. Typed(Readings["macro"]) BY DEF Readings, Directions, Impacts, Actions
<1>5. Typed(Readings["plain"]) BY DEF Readings, Directions, Impacts, Actions
<1> QED BY <1>1, <1>2, <1>3, <1>4, <1>5

LEMMA RulesAreSound ==
  /\ \A story \in Stories : RulesForNews(story, NewsValidity) \in Sound
  /\ \A event : RulesForMacro(event, MacroValidity) \in Sound
<1>1. ASSUME NEW story \in Stories PROVE RulesForNews(story, NewsValidity) \in Sound
  <2> DEFINE relevance == IF story.relevance = "UNKNOWN"
                            THEN ClassifyRelevance(story.words) ELSE story.relevance
             reading == Readings[Tone(story.words)]
             quiet == relevance \in {"LOW", "UNKNOWN"}
             weight == ClampedWeight(relevance, SuggestedWeight(relevance, reading.impact),
                                     HighImpact(reading.impact))
  <2>1. relevance \in Relevances
    BY ItemsAssumption DEF ClassifyRelevance, Relevances
  <2>2. /\ reading.direction \in Directions /\ reading.confidence \in Nat
        /\ reading.impact \in Impacts /\ reading.action \in Actions
        /\ reading.reduces \in BOOLEAN
    <3>1. Tone(story.words) \in {"conflict", "hawkish", "dovish", "macro", "plain"}
      BY DEF Tone
    <3> QED BY <3>1, ReadingsAreTyped
  <2>3. RulesForNews(story, NewsValidity) =
          [relevance |-> relevance, direction |-> reading.direction,
           confidence |-> reading.confidence, impact |-> reading.impact,
           weight |-> weight,
           action |-> IF quiet THEN "INFO_ONLY" ELSE reading.action,
           blocks |-> FALSE, reduces |-> reading.reduces /\ ~quiet,
           duration |-> ValidFor(NewsValidity, NewsValidity)]
    BY DEF RulesForNews
  <2>4. quiet \in BOOLEAN OBVIOUS
  <2> HIDE DEF relevance, reading
  <2>5. weight \in Int
    <3>1. SuggestedWeight(relevance, reading.impact) \in Int
      BY <2>1, <2>2 DEF SuggestedWeight, Relevances, Impacts
    <3>2. HighImpact(reading.impact) \in BOOLEAN BY DEF HighImpact
    <3> QED BY <2>1, <3>1, <3>2, ClampIsNatural
  <2>6. ValidFor(NewsValidity, NewsValidity) \in Nat
    BY ItemsAssumption DEF ValidFor
  <2>7. (IF quiet THEN "INFO_ONLY" ELSE reading.action) \in Actions
    BY <2>2 DEF Actions
  <2> HIDE DEF weight, quiet
  <2> QED BY <2>1, <2>2, <2>3, <2>4, <2>5, <2>6, <2>7 DEF Sound, Answers
<1>2. ASSUME NEW event PROVE RulesForMacro(event, MacroValidity) \in Sound
  <2> DEFINE read == event.type \in {"CPI", "PPI", "NFP"} /\ event.surprise # "none"
             blocking == event.importance \in {"HIGH", "CRITICAL"}
             weight == ClampedWeight("CRITICAL", MaxWeight(TRUE), TRUE)
             direction == IF read /\ event.surprise = "above" THEN "DOWN"
                          ELSE IF read /\ event.surprise = "below" THEN "UP" ELSE "MIXED"
             confidence == IF read THEN 76 ELSE 70
             action == IF blocking THEN "BLOCK_NEW_TRADES" ELSE "RISK_REDUCE"
  <2>1. RulesForMacro(event, MacroValidity) =
          [relevance |-> "CRITICAL", direction |-> direction, confidence |-> confidence,
           impact |-> "HIGH", weight |-> weight, action |-> action,
           blocks |-> blocking, reduces |-> TRUE, duration |-> MacroValidity]
    BY DEF RulesForMacro
  <2>2. direction \in Directions /\ confidence \in Nat /\ action \in Actions
        /\ blocking \in BOOLEAN
    BY DEF Directions, Actions
  <2>3. weight \in Int
    <3>1. "CRITICAL" \in Relevances /\ MaxWeight(TRUE) \in Int
      BY DEF Relevances, MaxWeight
    <3> QED BY <3>1, ClampIsNatural
  <2>4. "CRITICAL" \in Relevances /\ "HIGH" \in Impacts BY DEF Relevances, Impacts
  <2> HIDE DEF read, blocking, weight, direction, confidence, action
  <2> QED BY <2>1, <2>2, <2>3, <2>4, ItemsAssumption DEF Sound, Answers
<1> QED BY <1>1, <1>2

LEMMA AnswersAreMadeSound ==
  ASSUME NEW raw \in Answers
  PROVE  Validated(raw, NewsValidity) \in Sound
<1> DEFINE weight == ClampedWeight(raw.relevance, raw.weight, HighImpact(raw.impact))
           m == Min({100, raw.confidence})
<1>1. weight \in Int
  <2>1. raw.relevance \in Relevances /\ raw.weight \in Int BY DEF Answers
  <2>2. HighImpact(raw.impact) \in BOOLEAN BY DEF HighImpact
  <2> QED BY <2>1, <2>2, ClampIsNatural
<1>2. Max({0, m}) \in Nat
  <2>1. raw.confidence \in Int BY DEF Answers
  <2>2. m \in Int BY <2>1, FloorAndCeiling
  <2> HIDE DEF m
  <2> QED BY <2>2, FloorAndCeiling
<1>3. ValidFor(raw.duration, NewsValidity) \in Nat
  BY ItemsAssumption DEF ValidFor, Answers
<1> DEFINE duration == ValidFor(raw.duration, NewsValidity)
           confidence == Max({0, m})
<1>4. Validated(raw, NewsValidity) =
        [raw EXCEPT !.weight = weight, !.confidence = confidence, !.duration = duration]
  BY DEF Validated, Answers
<1> HIDE DEF weight, m, duration, confidence
<1>5. confidence \in Nat /\ duration \in Nat
  BY <1>2, <1>3 DEF confidence, duration
<1> DEFINE made == [raw EXCEPT !.weight = weight, !.confidence = confidence,
                               !.duration = duration]
<1>6. made \in Answers
  <2> DEFINE one == [raw EXCEPT !.weight = weight]
             two == [one EXCEPT !.confidence = confidence]
             three == [two EXCEPT !.duration = duration]
  <2>1. one \in Answers BY <1>1 DEF Answers
  <2> HIDE DEF one
  <2>2. two \in Answers BY <2>1, <1>5 DEF Answers
  <2> HIDE DEF two
  <2>3. three \in Answers BY <2>2, <1>5 DEF Answers
  <2> USE DEF one, two
  <2>4. made = three OBVIOUS
  <2> QED BY <2>3, <2>4
<1>7. made.confidence = confidence BY DEF Answers
<1> HIDE DEF made
<1>8. Validated(raw, NewsValidity) = made BY <1>4 DEF made
<1> QED BY <1>5, <1>6, <1>7, <1>8 DEF Sound

LEMMA AnalysisRowsAreRows ==
  ASSUME now \in Nat, NEW item \in Stories \cup Events, NEW reading \in Readable(item)
  PROVE  AnalysisRow(item, reading) \in Rows
<1>1. reading \in Sound
  <2>1. CASE \E raw \in ProviderAnswers : reading = Validated(raw, NewsValidity)
    BY <2>1, AnswersAreMadeSound, ItemsAssumption
  <2>2. CASE reading = RulesForNews(item, NewsValidity) /\ item \in Stories
    BY <2>2, RulesAreSound
  <2>3. CASE reading = RulesForMacro(item, MacroValidity)
    BY <2>3, RulesAreSound
  <2> QED BY <2>1, <2>2, <2>3 DEF Readable
<1>2. now + reading.duration \in Nat BY <1>1 DEF Sound, Answers
<1> QED BY <1>1, <1>2 DEF Sound, Answers, AnalysisRow, Rows

(*-------------------------------------------------------------------------*)
(* Types are kept                                                          *)
(*-------------------------------------------------------------------------*)
LEMMA NothingDrawn ==
  /\ <<>> \in Extracts /\ DOMAIN <<>> = {}
  /\ Idle \in Jobs /\ Waiting \in Cycles
  /\ Idle.pc = "idle" /\ Idle.batch = {} /\ Idle.fetched = {}
  /\ Idle.rows = <<>> /\ Idle.item = {} /\ Idle.sources = <<>>
<1>1. DOMAIN <<>> = {} OBVIOUS
<1>2. <<>> \in Extracts
  <2>1. IsFiniteSet({}) /\ {} \in SUBSET Nat BY FS_EmptySet
  <2>2. <<>> \in [{} -> Rows] OBVIOUS
  <2> QED BY <2>1, <2>2 DEF Extracts
<1>3. <<>> \in Seq(DOMAIN Feed) OBVIOUS
<1>4. Idle \in Jobs BY <1>2, <1>3 DEF Idle, Jobs, PCs
<1>5. Waiting \in Cycles BY <1>2 DEF Waiting, Cycles
<1> QED BY <1>1, <1>2, <1>4, <1>5 DEF Idle

(* What becomes of a handler's job between two statements.                 *)
LEMMA OnwardLeaves ==
  ASSUME NEW job \in Jobs
  PROVE  /\ Onward(job) \in Jobs /\ Placed(Onward(job))
         /\ Onward(job).pc \in {"items", "awaiting", "reading"}
         /\ Onward(job).batch = job.batch /\ Onward(job).fetched = job.fetched
         /\ Onward(job).rows = job.rows
<1> DEFINE pc == IF job.batch # {} THEN "items"
                 ELSE IF job.sources # <<>> THEN "awaiting" ELSE "reading"
<1>1. Onward(job) = [job EXCEPT !.item = {}, !.pc = pc] BY DEF Onward
<1>2. pc \in PCs /\ pc \in {"items", "awaiting", "reading"} BY DEF PCs
<1>3. pc = "awaiting" => job.sources # <<>> OBVIOUS
<1>4. pc \in {"awaiting", "reading", "writing"} => job.batch = {} OBVIOUS
<1> HIDE DEF pc
<1>5. [job EXCEPT !.item = {}, !.pc = pc] \in Jobs BY <1>2 DEF Jobs
<1>6. /\ Onward(job).pc = pc /\ Onward(job).sources = job.sources
      /\ Onward(job).batch = job.batch /\ Onward(job).fetched = job.fetched
      /\ Onward(job).rows = job.rows
  BY <1>1 DEF Jobs
<1> QED BY <1>1, <1>2, <1>3, <1>4, <1>5, <1>6 DEF Placed

LEMMA CollectRunNowLeaves ==
  ASSUME TypeOK, NEW h \in Handlers, CollectRunNow(h)
  PROVE  \E new \in Jobs :
           /\ handler' = [handler EXCEPT ![h] = new] /\ Placed(new)
           /\ new.fetched = {} /\ new.rows = <<>>
<1> DEFINE job == [Idle EXCEPT !.sources = Collectors]
<1>1. job \in Jobs /\ job.fetched = {} /\ job.rows = <<>>
  BY NothingDrawn, ItemsAssumption DEF Jobs
<1> HIDE DEF job
<1> QED BY <1>1, OnwardLeaves DEF CollectRunNow, job

LEMMA ManualNewsLeaves ==
  ASSUME TypeOK, NEW h \in Handlers, ManualNews(h)
  PROVE  \E new \in Jobs :
           /\ handler' = [handler EXCEPT ![h] = new] /\ Placed(new)
           /\ new.fetched = {} /\ new.rows = <<>>
<1>1. PICK s \in Stories :
        handler' = [handler EXCEPT ![h] = Onward([Idle EXCEPT !.batch = {s}])]
  BY DEF ManualNews
<1> DEFINE job == [Idle EXCEPT !.batch = {s}]
<1>2. job \in Jobs /\ job.fetched = {} /\ job.rows = <<>>
  BY NothingDrawn DEF Jobs
<1> HIDE DEF job
<1>3. handler' = [handler EXCEPT ![h] = Onward(job)] BY <1>1 DEF job
<1> QED BY <1>2, <1>3, OnwardLeaves

LEMMA ManualMacroEventLeaves ==
  ASSUME TypeOK, NEW h \in Handlers, ManualMacroEvent(h)
  PROVE  \E new \in Jobs :
           /\ handler' = [handler EXCEPT ![h] = new] /\ Placed(new)
           /\ new.fetched = {} /\ new.rows = <<>>
<1>1. PICK e \in Events :
        handler' = [handler EXCEPT ![h] = [Idle EXCEPT !.pc = "event", !.item = {e}]]
  BY DEF ManualMacroEvent
<1> DEFINE job == [Idle EXCEPT !.pc = "event", !.item = {e}]
<1>2. job \in Jobs /\ job.fetched = {} /\ job.rows = <<>> /\ job.pc = "event"
  BY NothingDrawn DEF Jobs, PCs
<1> HIDE DEF job
<1>3. handler' = [handler EXCEPT ![h] = job] BY <1>1 DEF job
<1> QED BY <1>2, <1>3 DEF Placed

LEMMA CollectorAnswersLeaves ==
  ASSUME TypeOK, NEW h \in Handlers, CollectorAnswers(h)
  PROVE  \E new \in Jobs, items \in SUBSET Stories :
           /\ handler' = [handler EXCEPT ![h] = new] /\ Placed(new)
           /\ new.batch = items
           /\ new.fetched = handler[h].fetched \cup {s \in items : ShouldAnalyse(s)}
           /\ new.rows = handler[h].rows
<1> DEFINE old == handler[h]
<1>1. old \in Jobs /\ old.pc = "awaiting" /\ old.sources # <<>>
  BY DEF TypeOK, CollectorAnswers, At, Placed
<1>2. PICK items \in SUBSET Feed[Head(old.sources)] :
        handler' = [handler EXCEPT ![h] =
          Onward([old EXCEPT !.sources = Tail(old.sources), !.batch = items,
                   !.fetched = old.fetched \cup {s \in items : ShouldAnalyse(s)}])]
  BY DEF CollectorAnswers
<1>3. old.sources \in Seq(DOMAIN Feed) /\ old.fetched \subseteq Stories
  BY <1>1 DEF Jobs
<1>4. Head(old.sources) \in DOMAIN Feed /\ Tail(old.sources) \in Seq(DOMAIN Feed)
  BY <1>1, <1>3, HeadTailProperties
<1>5. items \subseteq Stories BY <1>4 DEF Stories, Range
<1> DEFINE more == old.fetched \cup {s \in items : ShouldAnalyse(s)}
           rest == Tail(old.sources)
           job == [old EXCEPT !.sources = rest, !.batch = items, !.fetched = more]
<1>6. more \in SUBSET Stories /\ items \in SUBSET Stories /\ rest \in Seq(DOMAIN Feed)
  BY <1>3, <1>4, <1>5
<1>7. handler' = [handler EXCEPT ![h] = Onward(job)] BY <1>2
<1> HIDE DEF more, rest, old
<1>8. /\ job \in Jobs /\ job.batch = items /\ job.fetched = more /\ job.rows = old.rows
  BY <1>1, <1>6 DEF Jobs
<1> HIDE DEF job
<1>9. /\ Onward(job) \in Jobs /\ Placed(Onward(job)) /\ Onward(job).batch = items
      /\ Onward(job).fetched = more /\ Onward(job).rows = old.rows
  BY <1>8, OnwardLeaves
<1> QED BY <1>6, <1>7, <1>9 DEF more, old

LEMMA CollectorFailsLeaves ==
  ASSUME TypeOK, NEW h \in Handlers, CollectorFails(h)
  PROVE  \E new \in Jobs :
           /\ handler' = [handler EXCEPT ![h] = new] /\ Placed(new)
           /\ new.batch = {}
           /\ new.fetched = handler[h].fetched
           /\ new.rows = handler[h].rows
<1> DEFINE old == handler[h]
<1>1. /\ old \in Jobs /\ old.pc = "awaiting" /\ old.sources # <<>> /\ old.batch = {}
  BY DEF TypeOK, CollectorFails, At, Placed
<1>2. handler' = [handler EXCEPT ![h] = Onward([old EXCEPT !.sources = Tail(old.sources)])]
  BY DEF CollectorFails
<1>3. Tail(old.sources) \in Seq(DOMAIN Feed)
  <2>1. old.sources \in Seq(DOMAIN Feed) BY <1>1 DEF Jobs
  <2> QED BY <1>1, <2>1, HeadTailProperties
<1> DEFINE rest == Tail(old.sources)
           job == [old EXCEPT !.sources = rest]
<1>4. handler' = [handler EXCEPT ![h] = Onward(job)] /\ rest \in Seq(DOMAIN Feed)
  BY <1>2, <1>3
<1> HIDE DEF rest, old
<1>5. /\ job \in Jobs /\ job.batch = {} /\ job.fetched = old.fetched /\ job.rows = old.rows
  BY <1>1, <1>4 DEF Jobs
<1> HIDE DEF job
<1>6. /\ Onward(job) \in Jobs /\ Placed(Onward(job)) /\ Onward(job).batch = {}
      /\ Onward(job).fetched = old.fetched /\ Onward(job).rows = old.rows
  BY <1>5, OnwardLeaves
<1> QED BY <1>4, <1>6 DEF old

LEMMA SaveNewsItemLeaves ==
  ASSUME TypeOK, NEW h \in Handlers, SaveNewsItem(h)
  PROVE  \E new \in Jobs, s \in Stories :
           /\ handler' = [handler EXCEPT ![h] = new] /\ Placed(new)
           /\ stories' = stories \cup {s}
           /\ new.batch = handler[h].batch \ {s}
           /\ new.fetched = handler[h].fetched /\ new.rows = handler[h].rows
           /\ ShouldAnalyse(s) => InHand(new, s)
<1> DEFINE old == handler[h]
           Left(s) == [old EXCEPT !.batch = old.batch \ {s}]
<1>1. PICK s \in old.batch :
        /\ stories' = stories \cup {s}
        /\ handler' = [handler EXCEPT ![h] =
             IF ShouldAnalyse(s) THEN [Left(s) EXCEPT !.pc = "analysing", !.item = {s}]
             ELSE Onward(Left(s))]
  BY DEF SaveNewsItem
<1>2. old \in Jobs BY DEF TypeOK
<1> DEFINE left == Left(s)
<1>3. old.batch \ {s} \in SUBSET Stories /\ s \in Stories BY <1>2, <1>1 DEF Jobs
<1> HIDE DEF old
<1>4. /\ left \in Jobs /\ left.batch = old.batch \ {s}
      /\ left.fetched = old.fetched /\ left.rows = old.rows
  BY <1>2, <1>3 DEF Jobs
<1>5. handler' = [handler EXCEPT ![h] =
        IF ShouldAnalyse(s) THEN [left EXCEPT !.pc = "analysing", !.item = {s}]
        ELSE Onward(left)]
  BY <1>1
<1> HIDE DEF left, Left
<1>6. CASE ShouldAnalyse(s)
  <2> DEFINE new == [left EXCEPT !.pc = "analysing", !.item = {s}]
  <2>1. {s} \in SUBSET (Stories \cup Events) BY <1>3
  <2>2. /\ new \in Jobs /\ new.batch = left.batch /\ new.fetched = left.fetched
        /\ new.rows = left.rows /\ new.pc = "analysing" /\ new.item = {s}
    BY <2>1, <1>4 DEF Jobs, PCs
  <2>3. handler' = [handler EXCEPT ![h] = new] BY <1>5, <1>6
  <2> HIDE DEF new
  <2>4. Placed(new) /\ InHand(new, s) BY <2>2 DEF Placed, InHand
  <2> QED BY <2>2, <2>3, <2>4, <1>1, <1>3, <1>4 DEF old
<1>7. CASE ~ShouldAnalyse(s)
  <2>1. handler' = [handler EXCEPT ![h] = Onward(left)] BY <1>5, <1>7
  <2>2. /\ Onward(left) \in Jobs /\ Placed(Onward(left))
        /\ Onward(left).batch = left.batch /\ Onward(left).fetched = left.fetched
        /\ Onward(left).rows = left.rows
    BY <1>4, OnwardLeaves
  <2> QED BY <2>1, <2>2, <1>1, <1>3, <1>4, <1>7 DEF old
<1> QED BY <1>6, <1>7

LEMMA SaveMacroEventLeaves ==
  ASSUME TypeOK, NEW h \in Handlers, SaveMacroEvent(h)
  PROVE  \E new \in Jobs :
           /\ handler' = [handler EXCEPT ![h] = new] /\ Placed(new)
           /\ new.fetched = {} /\ new.rows = handler[h].rows
<1> DEFINE old == handler[h]
           new == [old EXCEPT !.pc = "analysing"]
<1>1. old \in Jobs /\ old.fetched = {}
  BY DEF TypeOK, SaveMacroEvent, At, Placed
<1>2. handler' = [handler EXCEPT ![h] = new] BY DEF SaveMacroEvent
<1> HIDE DEF old
<1>3. new \in Jobs /\ new.fetched = {} /\ new.rows = old.rows /\ new.pc = "analysing"
  BY <1>1 DEF Jobs, PCs
<1> HIDE DEF new
<1>4. Placed(new) BY <1>3 DEF Placed
<1> QED BY <1>2, <1>3, <1>4 DEF old

LEMMA SaveAiAnalysisLeaves ==
  ASSUME TypeOK, NEW h \in Handlers, SaveAiAnalysis(h)
  PROVE  \E new \in Jobs, r \in Rows, item \in handler[h].item :
           /\ handler' = [handler EXCEPT ![h] = new] /\ Placed(new)
           /\ new.batch = handler[h].batch /\ new.fetched = handler[h].fetched
           /\ new.rows = handler[h].rows
           /\ analyses' = Append(analyses, r) /\ r.about = item.id
<1> DEFINE old == handler[h]
<1>0. PICK item \in old.item : \E reading \in Readable(item) :
        analyses' = Append(analyses, AnalysisRow(item, reading))
  BY DEF SaveAiAnalysis
<1>1. PICK reading \in Readable(item) :
        analyses' = Append(analyses, AnalysisRow(item, reading))
  BY <1>0
<1>2. old \in Jobs /\ now \in Nat BY DEF TypeOK
<1>3. item \in Stories \cup Events BY <1>1, <1>2 DEF Jobs
<1>4. AnalysisRow(item, reading) \in Rows
  BY ONLY <1>1, <1>2, <1>3, AnalysisRowsAreRows
<1>5. AnalysisRow(item, reading).about = item.id BY DEF AnalysisRow
<1>6. handler' = [handler EXCEPT ![h] = Onward(old)] BY DEF SaveAiAnalysis
<1>7. /\ Onward(old) \in Jobs /\ Placed(Onward(old))
      /\ Onward(old).batch = old.batch /\ Onward(old).fetched = old.fetched
      /\ Onward(old).rows = old.rows
  BY <1>2, OnwardLeaves
<1> QED BY <1>1, <1>4, <1>5, <1>6, <1>7

LEMMA AnalyzerFailsLeaves ==
  ASSUME TypeOK, NEW h \in Handlers, AnalyzerFails(h)
  PROVE  \E new \in Jobs :
           /\ handler' = [handler EXCEPT ![h] = new] /\ Placed(new)
           /\ new.batch = handler[h].batch
           /\ new.fetched = handler[h].fetched \ handler[h].item
           /\ new.rows = handler[h].rows
<1> DEFINE old == handler[h]
           left == old.fetched \ old.item
           job == [old EXCEPT !.fetched = left]
<1>1. old \in Jobs BY DEF TypeOK
<1>2. left \in SUBSET Stories BY <1>1 DEF Jobs
<1>3. handler' = [handler EXCEPT ![h] = Onward(job)] BY DEF AnalyzerFails
<1> HIDE DEF old, left
<1>4. job \in Jobs /\ job.batch = old.batch /\ job.fetched = left /\ job.rows = old.rows
  BY <1>1, <1>2 DEF Jobs
<1> HIDE DEF job
<1>5. /\ Onward(job) \in Jobs /\ Placed(Onward(job)) /\ Onward(job).batch = old.batch
      /\ Onward(job).fetched = left /\ Onward(job).rows = old.rows
  BY <1>4, OnwardLeaves
<1> QED BY <1>3, <1>5 DEF old, left

(* What a reader has of the table is what it had to pick from it.          *)
LEMMA UsableIsPicked ==
  ASSUME TypeOK
  PROVE  UsableNow = Picked(Len(analyses), now)
<1>1. DOMAIN analyses = 1..Len(analyses) BY DEF TypeOK
<1>2. ASSUME NEW i \in 1..Len(analyses)
      PROVE  {j \in Open(analyses, now) : j > i} =
               {j \in 1..Len(analyses) : j > i /\ analyses[j].until > now}
  BY <1>1 DEF Open
<1>3. {i \in NewestActive(analyses, now) : IsUsable(analyses[i], now)} =
        {i \in 1..Len(analyses) :
           /\ IsUsable(analyses[i], now)
           /\ Cardinality({j \in 1..Len(analyses) :
                             j > i /\ analyses[j].until > now}) < Limit}
  <2>1. ASSUME NEW i \in 1..Len(analyses), IsUsable(analyses[i], now)
        PROVE  i \in NewestActive(analyses, now) <=>
                 Cardinality({j \in 1..Len(analyses) :
                                j > i /\ analyses[j].until > now}) < Limit
    <3>1. i \in Open(analyses, now) BY <2>1, <1>1 DEF Open, IsUsable
    <3>2. i \in NewestActive(analyses, now) <=>
            Cardinality({j \in Open(analyses, now) : j > i}) < Limit
      BY <3>1 DEF NewestActive
    <3> QED BY <3>2, <1>2
  <2>2. NewestActive(analyses, now) \subseteq 1..Len(analyses)
    BY <1>1 DEF NewestActive, Open
  <2> QED BY <2>1, <2>2
<1> QED BY <1>3 DEF UsableNow, Picked

LEMMA PickedIsAnExtract ==
  ASSUME TypeOK, NEW n \in 0..Len(analyses), NEW t \in Nat
  PROVE  /\ Picked(n, t) \in Extracts
         /\ \A i \in DOMAIN Picked(n, t) :
              /\ i \in 1..n /\ Picked(n, t)[i] = analyses[i] /\ IsUsable(analyses[i], t)
<1> DEFINE D == {i \in 1..n :
                   /\ IsUsable(analyses[i], t)
                   /\ Cardinality({j \in 1..n : j > i /\ analyses[j].until > t}) < Limit}
<1>1. Picked(n, t) = [i \in D |-> analyses[i]] BY DEF Picked, Restrict
<1>2. D \subseteq 1..n OBVIOUS
<1>3. \A i \in D : IsUsable(analyses[i], t) OBVIOUS
<1> HIDE DEF D
<1>4. \A i \in 1..n : analyses[i] \in Rows BY DEF TypeOK
<1>5. IsFiniteSet(1..n) BY FS_Interval
<1>6. IsFiniteSet(D) BY <1>2, <1>5, FS_Subset
<1>7. D \in SUBSET Nat BY <1>2
<1>8. Picked(n, t) \in [D -> Rows] BY <1>1, <1>2, <1>4
<1> QED BY <1>1, <1>2, <1>3, <1>6, <1>7, <1>8 DEF Extracts

LEMMA HandlerReadsLeaves ==
  ASSUME TypeOK, NEW h \in Handlers, HandlerReads(h)
  PROVE  \E new \in Jobs :
           /\ handler' = [handler EXCEPT ![h] = new] /\ Placed(new)
           /\ new.batch = {} /\ new.fetched = handler[h].fetched
           /\ new.rows = UsableNow
<1> DEFINE old == handler[h]
           new == [old EXCEPT !.pc = "writing", !.rows = UsableNow]
<1>1. old \in Jobs /\ old.batch = {} BY DEF TypeOK, HandlerReads, At, Placed
<1>2. UsableNow \in Extracts
  <2>1. Len(analyses) \in 0..Len(analyses) /\ now \in Nat BY DEF TypeOK
  <2> QED BY <2>1, UsableIsPicked, PickedIsAnExtract
<1>3. handler' = [handler EXCEPT ![h] = new] BY DEF HandlerReads, TypeOK
<1> HIDE DEF old
<1>4. /\ new \in Jobs /\ new.fetched = old.fetched /\ new.rows = UsableNow
      /\ new.pc = "writing" /\ new.batch = old.batch
  BY <1>1, <1>2 DEF Jobs, PCs
<1> HIDE DEF new
<1>5. Placed(new) BY <1>1, <1>4 DEF Placed
<1> QED BY <1>1, <1>3, <1>4, <1>5 DEF old

IInv == TypeOK /\ CycleInv /\ DrawnInv /\ RowInv /\ FetchedInv

(*-------------------------------------------------------------------------*)
(* What a step can do                                                      *)
(*-------------------------------------------------------------------------*)
LEMMA TableGrows ==
  ASSUME TypeOK, [Next]_vars
  PROVE  /\ analyses' \in Seq(Rows) /\ now' \in Nat
         /\ Len(analyses) <= Len(analyses')
         /\ \A i \in DOMAIN analyses : i \in DOMAIN analyses' /\ analyses'[i] = analyses[i]
         /\ stories \subseteq stories'
<1>1. analyses \in Seq(Rows) /\ now \in Nat BY DEF TypeOK
<1>2. CASE UNCHANGED <<now, stories, analyses>> BY <1>1, <1>2
<1>3. ASSUME NEW h \in Handlers, SaveNewsItem(h)
      PROVE  UNCHANGED <<now, analyses>> /\ stories \subseteq stories'
  BY <1>3 DEF SaveNewsItem
<1>4. ASSUME NEW h \in Handlers, SaveAiAnalysis(h)
      PROVE  UNCHANGED <<now, stories>> /\ \E r \in Rows : analyses' = Append(analyses, r)
  BY <1>4, SaveAiAnalysisLeaves DEF SaveAiAnalysis
<1>5. CASE \E h \in Handlers : SaveNewsItem(h) BY <1>5, <1>3, <1>1
<1>6. CASE \E h \in Handlers : SaveAiAnalysis(h)
  <2>1. UNCHANGED <<now, stories>> BY <1>6, <1>4
  <2>2. PICK r \in Rows : analyses' = Append(analyses, r) BY <1>6, <1>4
  <2> QED BY <1>1, <2>1, <2>2, AppendProperties
<1>7. CASE Tick
  BY <1>1, <1>7 DEF Tick, stored
<1>8. \/ UNCHANGED <<now, stories, analyses>>
      \/ \E h \in Handlers : SaveNewsItem(h)
      \/ \E h \in Handlers : SaveAiAnalysis(h)
      \/ Tick
  <2>1. CASE UNCHANGED vars BY <2>1 DEF vars, stored
  <2>2. ASSUME NEW h \in Handlers,
               \/ CollectRunNow(h) \/ CollectorAnswers(h) \/ CollectorFails(h)
               \/ ManualNews(h) \/ ManualMacroEvent(h) \/ SaveMacroEvent(h)
               \/ AnalyzerFails(h) \/ Raises(h) \/ HandlerReads(h) \/ HandlerWrites(h)
        PROVE  UNCHANGED <<now, stories, analyses>>
    BY <2>2 DEF AnalyzerFails, CollectRunNow, CollectorAnswers, CollectorFails, ManualNews,
                ManualMacroEvent, SaveMacroEvent, Raises, HandlerReads, HandlerWrites,
                stored
  <2>3. CASE UpdateMacroActual \/ CycleReads \/ CycleWrites \/ CycleAggregationFails
    BY <2>3 DEF UpdateMacroActual, CycleReads, CycleWrites, CycleAggregationFails, stored
  <2> QED BY <2>1, <2>2, <2>3 DEF Next
<1> QED BY <1>2, <1>5, <1>6, <1>7, <1>8

(* What a step leaves of a handler: its place, where its rows come from,   *)
(* and where the stories are that it has fetched.                          *)
HandlerStep(h, new) ==
  /\ handler' = [handler EXCEPT ![h] = new] /\ Placed(new)
  /\ new.rows \in {handler[h].rows, <<>>, UsableNow}
  /\ \/ new.fetched = {}
     \/ /\ handler[h].pc = "analysing" /\ new.batch = handler[h].batch
        /\ new.fetched = handler[h].fetched \ handler[h].item
     \/ new.fetched = handler[h].fetched /\ new.batch = handler[h].batch
          /\ handler[h].pc # "analysing"
     \/ \E items \in SUBSET Stories :
          /\ handler[h].pc = "awaiting" /\ new.batch = items
          /\ new.fetched = handler[h].fetched \cup {s \in items : ShouldAnalyse(s)}
     \/ \E s \in Stories :
          /\ handler[h].pc = "items"
          /\ new.batch = handler[h].batch \ {s} /\ new.fetched = handler[h].fetched
          /\ stories' = stories \cup {s} /\ (ShouldAnalyse(s) => InHand(new, s))
     \/ \E r \in Rows, item \in handler[h].item :
          /\ handler[h].pc = "analysing"
          /\ new.batch = handler[h].batch /\ new.fetched = handler[h].fetched
          /\ analyses' = Append(analyses, r) /\ r.about = item.id

LEMMA HandlersStep ==
  ASSUME TypeOK, [Next]_vars
  PROVE  \/ UNCHANGED handler
         \/ \E h \in Handlers, new \in Jobs : HandlerStep(h, new)
<1>1. CASE UNCHANGED vars BY <1>1 DEF vars
<1>2. ASSUME NEW h \in Handlers, CollectRunNow(h) \/ ManualNews(h) \/ ManualMacroEvent(h)
      PROVE  \E new \in Jobs : HandlerStep(h, new)
  <2>1. PICK new \in Jobs : /\ handler' = [handler EXCEPT ![h] = new] /\ Placed(new)
                            /\ new.fetched = {} /\ new.rows = <<>>
    BY <1>2, CollectRunNowLeaves, ManualNewsLeaves, ManualMacroEventLeaves
  <2> QED BY <2>1 DEF HandlerStep
<1>3. ASSUME NEW h \in Handlers, CollectorAnswers(h)
      PROVE  \E new \in Jobs : HandlerStep(h, new)
  <2>1. PICK new \in Jobs, items \in SUBSET Stories :
           /\ handler' = [handler EXCEPT ![h] = new] /\ Placed(new)
           /\ new.batch = items
           /\ new.fetched = handler[h].fetched \cup {s \in items : ShouldAnalyse(s)}
           /\ new.rows = handler[h].rows
    BY <1>3, CollectorAnswersLeaves
  <2>2. handler[h].pc = "awaiting" BY <1>3 DEF CollectorAnswers, At
  <2> QED BY <2>1, <2>2 DEF HandlerStep
<1>4. ASSUME NEW h \in Handlers, CollectorFails(h)
      PROVE  \E new \in Jobs : HandlerStep(h, new)
  <2>1. PICK new \in Jobs :
           /\ handler' = [handler EXCEPT ![h] = new] /\ Placed(new)
           /\ new.batch = {} /\ new.fetched = handler[h].fetched
           /\ new.rows = handler[h].rows
    BY <1>4, CollectorFailsLeaves
  <2>2. handler[h].pc = "awaiting" BY <1>4 DEF CollectorFails, At
  <2>3. handler[h].batch = {} BY <2>2 DEF TypeOK, Placed
  <2> QED BY <2>1, <2>2, <2>3 DEF HandlerStep
<1>5. ASSUME NEW h \in Handlers, SaveNewsItem(h)
      PROVE  \E new \in Jobs : HandlerStep(h, new)
  <2>1. PICK new \in Jobs, s \in Stories :
           /\ handler' = [handler EXCEPT ![h] = new] /\ Placed(new)
           /\ stories' = stories \cup {s}
           /\ new.batch = handler[h].batch \ {s}
           /\ new.fetched = handler[h].fetched /\ new.rows = handler[h].rows
           /\ ShouldAnalyse(s) => InHand(new, s)
    BY <1>5, SaveNewsItemLeaves
  <2>2. handler[h].pc = "items" BY <1>5 DEF SaveNewsItem, At
  <2> QED BY <2>1, <2>2 DEF HandlerStep
<1>6. ASSUME NEW h \in Handlers, SaveMacroEvent(h)
      PROVE  \E new \in Jobs : HandlerStep(h, new)
  BY <1>6, SaveMacroEventLeaves DEF HandlerStep
<1>7. ASSUME NEW h \in Handlers, SaveAiAnalysis(h)
      PROVE  \E new \in Jobs : HandlerStep(h, new)
  <2>1. PICK new \in Jobs, r \in Rows, item \in handler[h].item :
           /\ handler' = [handler EXCEPT ![h] = new] /\ Placed(new)
           /\ new.batch = handler[h].batch /\ new.fetched = handler[h].fetched
           /\ new.rows = handler[h].rows
           /\ analyses' = Append(analyses, r) /\ r.about = item.id
    BY <1>7, SaveAiAnalysisLeaves
  <2>2. handler[h].pc = "analysing" BY <1>7 DEF SaveAiAnalysis, At
  <2> QED BY <2>1, <2>2 DEF HandlerStep
<1>8. ASSUME NEW h \in Handlers, Raises(h) \/ HandlerWrites(h)
      PROVE  \E new \in Jobs : HandlerStep(h, new)
  <2>1. handler' = [handler EXCEPT ![h] = Idle]
    BY <1>8 DEF Raises, HandlerWrites
  <2>2. Idle \in Jobs /\ Idle.fetched = {} /\ Idle.rows = <<>> /\ Placed(Idle)
    BY NothingDrawn DEF Placed
  <2> QED BY <2>1, <2>2 DEF HandlerStep
<1>9. ASSUME NEW h \in Handlers, HandlerReads(h)
      PROVE  \E new \in Jobs : HandlerStep(h, new)
  <2>1. PICK new \in Jobs :
           /\ handler' = [handler EXCEPT ![h] = new] /\ Placed(new)
           /\ new.batch = {} /\ new.fetched = handler[h].fetched
           /\ new.rows = UsableNow
    BY <1>9, HandlerReadsLeaves
  <2>2. handler[h].pc = "reading" BY <1>9 DEF HandlerReads, At
  <2>3. handler[h].batch = {} BY <2>2 DEF TypeOK, Placed
  <2> QED BY <2>1, <2>2, <2>3 DEF HandlerStep
<1>10. CASE \/ UpdateMacroActual \/ CycleReads \/ CycleWrites \/ CycleAggregationFails
            \/ Tick
  BY <1>10 DEF UpdateMacroActual, CycleReads, CycleWrites, CycleAggregationFails, Tick
<1>11. ASSUME NEW h \in Handlers, AnalyzerFails(h)
       PROVE  \E new \in Jobs : HandlerStep(h, new)
  <2>1. handler[h].pc = "analysing" BY <1>11 DEF AnalyzerFails, At
  <2> QED BY <2>1, <1>11, AnalyzerFailsLeaves DEF HandlerStep
<1> QED BY <1>1, <1>2, <1>3, <1>4, <1>5, <1>6, <1>7, <1>8, <1>9, <1>10, <1>11 DEF Next

(* What a step leaves of the cycle.                                        *)
LEMMA CycleStep ==
  ASSUME TypeOK, [Next]_vars
  PROVE  \/ UNCHANGED cycle
         \/ cycle' = Waiting
         \/ /\ cycle' = [reads |-> TRUE, rows |-> UsableNow, seen |-> Len(analyses),
                         at |-> now]
            /\ UNCHANGED analyses
<1>1. CASE UNCHANGED vars BY <1>1 DEF vars
<1>2. ASSUME NEW h \in Handlers,
             \/ CollectRunNow(h) \/ CollectorAnswers(h) \/ CollectorFails(h)
             \/ ManualNews(h) \/ SaveNewsItem(h) \/ ManualMacroEvent(h)
             \/ SaveMacroEvent(h) \/ SaveAiAnalysis(h) \/ AnalyzerFails(h) \/ Raises(h)
             \/ HandlerReads(h) \/ HandlerWrites(h)
      PROVE  UNCHANGED cycle
  BY <1>2 DEF AnalyzerFails, CollectRunNow, CollectorAnswers, CollectorFails, ManualNews, SaveNewsItem,
              ManualMacroEvent, SaveMacroEvent, SaveAiAnalysis, Raises, HandlerReads,
              HandlerWrites
<1>3. CASE UpdateMacroActual \/ Tick BY <1>3 DEF UpdateMacroActual, Tick
<1>4. CASE CycleReads BY <1>4 DEF CycleReads, stored
<1>5. CASE CycleWrites \/ CycleAggregationFails
  BY <1>5 DEF CycleWrites, CycleAggregationFails
<1> QED BY <1>1, <1>2, <1>3, <1>4, <1>5 DEF Next

(*-------------------------------------------------------------------------*)
(* The invariant                                                           *)
(*-------------------------------------------------------------------------*)
LEMMA InitHolds ==
  ASSUME Init
  PROVE  IInv
<1>1. /\ now = 1 /\ analyses = <<>> /\ row = Neutral /\ cycle = Waiting
      /\ handler = [h \in Handlers |-> Idle]
  BY DEF Init
<1>2. /\ Idle \in Jobs /\ Waiting \in Cycles /\ DOMAIN <<>> = {}
      /\ Idle.pc = "idle" /\ Idle.fetched = {} /\ Idle.rows = <<>>
  BY NothingDrawn
<1>3. Placed(Idle) BY <1>2 DEF Placed
<1>4. Waiting.reads = FALSE /\ Waiting.rows = <<>> BY DEF Waiting
<1>5. <<>> \in Seq(Rows) OBVIOUS
<1>6. TypeOK BY <1>1, <1>2, <1>3, <1>5 DEF TypeOK
<1>7. CycleInv BY <1>1, <1>4 DEF CycleInv
<1>8. DrawnInv
  <2>1. Drawn(<<>>) BY <1>2 DEF Drawn
  <2> QED BY <2>1, <1>1, <1>2, <1>4 DEF DrawnInv
<1>9. RowInv BY <1>1 DEF RowInv
<1>10. FetchedInv BY <1>1, <1>2 DEF FetchedInv
<1> QED BY <1>6, <1>7, <1>8, <1>9, <1>10 DEF IInv

LEMMA TypesAreKept ==
  ASSUME TypeOK, [Next]_vars
  PROVE  TypeOK'
<1>1. analyses' \in Seq(Rows) /\ now' \in Nat BY TableGrows
<1>2. handler' \in [Handlers -> Jobs] /\ \A h \in Handlers : Placed(handler'[h])
  <2>1. CASE UNCHANGED handler BY <2>1 DEF TypeOK
  <2>2. CASE \E h \in Handlers, new \in Jobs : HandlerStep(h, new)
    <3>1. PICK h \in Handlers, new \in Jobs : HandlerStep(h, new) BY <2>2
    <3>2. handler' = [handler EXCEPT ![h] = new] /\ Placed(new)
      BY <3>1 DEF HandlerStep
    <3> QED BY <3>2 DEF TypeOK
  <2> QED BY <2>1, <2>2, HandlersStep
<1>3. cycle' \in Cycles
  <2>1. CASE UNCHANGED cycle BY <2>1 DEF TypeOK
  <2>2. CASE cycle' = Waiting BY <2>2, NothingDrawn
  <2>3. CASE cycle' = [reads |-> TRUE, rows |-> UsableNow, seen |-> Len(analyses),
                       at |-> now]
    <3>1. Len(analyses) \in Nat /\ now \in Nat BY DEF TypeOK
    <3>2. UsableNow \in Extracts BY <3>1, UsableIsPicked, PickedIsAnExtract
    <3> QED BY <2>3, <3>1, <3>2 DEF Cycles
  <2> QED BY <2>1, <2>2, <2>3, CycleStep
<1> QED BY <1>1, <1>2, <1>3 DEF TypeOK

LEMMA CycleIsKept ==
  ASSUME IInv, [Next]_vars
  PROVE  CycleInv'
<1>0. TypeOK BY DEF IInv
<1>1. CASE cycle' = Waiting
  <2>1. ~cycle'.reads BY <1>1 DEF Waiting
  <2> QED BY <2>1 DEF CycleInv
<1>2. CASE /\ cycle' = [reads |-> TRUE, rows |-> UsableNow, seen |-> Len(analyses),
                        at |-> now]
           /\ UNCHANGED analyses
  <2>1. /\ cycle'.rows = Picked(Len(analyses), now) /\ cycle'.seen = Len(analyses)
        /\ cycle'.at = now
    BY <1>0, <1>2, UsableIsPicked
  <2>2. Len(analyses) \in Nat BY <1>0 DEF TypeOK
  <2>3. cycle'.seen <= Len(analyses)' BY <1>2, <2>1, <2>2
  <2>4. cycle'.rows = Picked(cycle.seen, cycle.at)'
    BY <1>2, <2>1 DEF Picked
  <2> QED BY <2>3, <2>4 DEF CycleInv
<1>3. CASE UNCHANGED cycle
  <2> SUFFICES ASSUME cycle.reads
               PROVE  /\ cycle.seen <= Len(analyses')
                      /\ cycle.rows = Picked(cycle.seen, cycle.at)'
    BY <1>3 DEF CycleInv
  <2>1. cycle.seen <= Len(analyses) /\ cycle.rows = Picked(cycle.seen, cycle.at)
    BY DEF IInv, CycleInv
  <2>2. /\ Len(analyses) <= Len(analyses') /\ analyses' \in Seq(Rows)
        /\ \A i \in DOMAIN analyses : analyses'[i] = analyses[i]
    BY <1>0, TableGrows
  <2>3. cycle.seen \in Nat /\ Len(analyses) \in Nat /\ Len(analyses') \in Nat
        /\ DOMAIN analyses = 1..Len(analyses)
    BY <1>0, <2>2 DEF TypeOK, Cycles
  <2>4. \A i \in 1..cycle.seen : analyses'[i] = analyses[i]
    BY <2>1, <2>2, <2>3
  <2>5. Picked(cycle.seen, cycle.at)' = Picked(cycle.seen, cycle.at)
    <3> DEFINE n == cycle.seen
               t == cycle.at
               New(i) == {j \in 1..n : j > i /\ analyses'[j].until > t}
               Old(i) == {j \in 1..n : j > i /\ analyses[j].until > t}
               newD == {i \in 1..n : /\ IsUsable(analyses'[i], t)
                                     /\ Cardinality(New(i)) < Limit}
               oldD == {i \in 1..n : /\ IsUsable(analyses[i], t)
                                     /\ Cardinality(Old(i)) < Limit}
    <3>1. \A i \in 1..n : New(i) = Old(i) BY <2>4
    <3>2. newD = oldD
      <4> HIDE DEF New, Old, n, t
      <4>1. \A i \in 1..n : analyses'[i] = analyses[i] BY <2>4 DEF n
      <4> QED BY <3>1, <4>1
    <3>3. Picked(cycle.seen, cycle.at)' = [i \in newD |-> analyses'[i]]
      BY <1>3 DEF Picked, Restrict
    <3>4. Picked(cycle.seen, cycle.at) = [i \in oldD |-> analyses[i]]
      BY DEF Picked, Restrict
    <3>5. oldD \subseteq 1..n OBVIOUS
    <3> HIDE DEF oldD, newD
    <3> QED BY <3>2, <3>3, <3>4, <3>5, <2>4
  <2>6. cycle.seen <= Len(analyses') BY <2>1, <2>2, <2>3
  <2> QED BY <2>1, <2>5, <2>6
<1> QED BY <1>0, <1>1, <1>2, <1>3, CycleStep

(* What was drawn from the table stays drawn from it.                      *)
LEMMA DrawnStaysDrawn ==
  ASSUME TypeOK, [Next]_vars, NEW rows, Drawn(rows)
  PROVE  \A i \in DOMAIN rows :
           /\ i \in DOMAIN analyses' /\ rows[i] = analyses'[i]
           /\ Weighty(rows[i]) /\ rows[i].until > 0
<1>1. \A i \in DOMAIN analyses : i \in DOMAIN analyses' /\ analyses'[i] = analyses[i]
  BY TableGrows
<1> QED BY <1>1 DEF Drawn

LEMMA UsableIsDrawn ==
  ASSUME TypeOK
  PROVE  Drawn(UsableNow)
<1> DEFINE n == Len(analyses)
<1>1. /\ n \in 0..n /\ now \in Nat /\ DOMAIN analyses = 1..n
      /\ \A i \in 1..n : analyses[i] \in Rows
  BY DEF TypeOK
<1>2. \A i \in DOMAIN Picked(n, now) :
        /\ i \in 1..n /\ Picked(n, now)[i] = analyses[i] /\ IsUsable(analyses[i], now)
  BY <1>1, PickedIsAnExtract
<1>3. UsableNow = Picked(n, now) BY UsableIsPicked
<1> HIDE DEF n
<1>4. \A i \in 1..n : analyses[i].until \in Nat BY <1>1 DEF Rows
<1> QED BY <1>1, <1>2, <1>3, <1>4 DEF Drawn, IsUsable, Weighty

LEMMA DrawnIsKept ==
  ASSUME IInv, [Next]_vars
  PROVE  DrawnInv'
<1>0. TypeOK /\ DrawnInv BY DEF IInv
<1> DEFINE DrawnNext(rows) ==
             \A i \in DOMAIN rows : /\ i \in DOMAIN analyses' /\ rows[i] = analyses'[i]
                                    /\ Weighty(rows[i]) /\ rows[i].until > 0
<1>1. \A rows : Drawn(rows) => DrawnNext(rows) BY <1>0, DrawnStaysDrawn
<1>2. DrawnNext(UsableNow) BY <1>0, <1>1, UsableIsDrawn
<1>3. DrawnNext(<<>>) BY NothingDrawn
<1> HIDE DEF DrawnNext
<1>4. DrawnNext(cycle'.rows)
  <2>1. CASE UNCHANGED cycle BY <2>1, <1>0, <1>1 DEF DrawnInv
  <2>2. CASE cycle' = Waiting BY <2>2, <1>3 DEF Waiting
  <2>3. CASE cycle' = [reads |-> TRUE, rows |-> UsableNow, seen |-> Len(analyses),
                       at |-> now]
    BY <2>3, <1>2
  <2> QED BY <2>1, <2>2, <2>3, <1>0, CycleStep
<1>5. ASSUME NEW g \in Handlers PROVE DrawnNext(handler'[g].rows)
  <2>1. CASE UNCHANGED handler BY <2>1, <1>0, <1>1 DEF DrawnInv
  <2>2. CASE \E h \in Handlers, new \in Jobs : HandlerStep(h, new)
    <3>1. PICK h \in Handlers, new \in Jobs : HandlerStep(h, new) BY <2>2
    <3>2. /\ handler' = [handler EXCEPT ![h] = new]
          /\ new.rows \in {handler[h].rows, <<>>, UsableNow}
      BY <3>1 DEF HandlerStep
    <3>3. handler'[g] = IF g = h THEN new ELSE handler[g]
      BY <3>2, <1>0 DEF TypeOK
    <3>4. Drawn(handler[g].rows) /\ Drawn(handler[h].rows) BY <1>0 DEF DrawnInv
    <3> QED BY <3>2, <3>3, <3>4, <1>1, <1>2, <1>3
  <2> QED BY <2>1, <2>2, <1>0, HandlersStep
<1> QED BY <1>4, <1>5 DEF DrawnInv, Drawn, DrawnNext

LEMMA RowIsKept ==
  ASSUME IInv, [Next]_vars
  PROVE  RowInv'
<1>0. TypeOK /\ DrawnInv /\ RowInv BY DEF IInv
<1>1. \A i \in DOMAIN analyses : i \in DOMAIN analyses' /\ analyses'[i] = analyses[i]
  BY <1>0, TableGrows
<1>2. CASE UNCHANGED row BY <1>0, <1>1, <1>2 DEF RowInv
<1>3. ASSUME NEW rows \in Extracts, Drawn(rows), row' = Aggregate(rows)
      PROVE  RowInv'
  <2>1. CASE Aggregate(rows) = Neutral BY <2>1, <1>3 DEF RowInv
  <2>2. CASE \E i \in DOMAIN rows : Aggregate(rows).until = rows[i].until
    <3>1. PICK i \in DOMAIN rows : row'.until = rows[i].until BY <2>2, <1>3
    <3>2. /\ i \in DOMAIN analyses /\ rows[i] = analyses[i]
          /\ Weighty(rows[i]) /\ rows[i].until > 0
      BY <3>1, <1>3 DEF Drawn
    <3>3. i \in DOMAIN analyses' /\ analyses'[i] = rows[i] BY <3>2, <1>1
    <3> QED BY <3>1, <3>2, <3>3 DEF RowInv, Weighty
  <2> QED BY <2>1, <2>2, AggregateEndsWithARow
<1>4. ASSUME NEW h \in Handlers, HandlerWrites(h) PROVE RowInv'
  <2>1. row' = Aggregate(handler[h].rows) BY <1>4 DEF HandlerWrites
  <2>2. handler[h].rows \in Extracts BY <1>0 DEF TypeOK, Jobs
  <2>3. Drawn(handler[h].rows) BY <1>0 DEF DrawnInv
  <2> QED BY <2>1, <2>2, <2>3, <1>3
<1>5. CASE CycleWrites
  <2>1. row' = Aggregate(cycle.rows) BY <1>5 DEF CycleWrites
  <2>2. cycle.rows \in Extracts BY <1>0 DEF TypeOK, Cycles
  <2>3. Drawn(cycle.rows) BY <1>0 DEF DrawnInv
  <2> QED BY <2>1, <2>2, <2>3, <1>3
<1>6. \/ UNCHANGED row \/ CycleWrites \/ \E h \in Handlers : HandlerWrites(h)
  <2>1. CASE UNCHANGED vars BY <2>1 DEF vars, stored
  <2>2. ASSUME NEW h \in Handlers,
               \/ CollectRunNow(h) \/ CollectorAnswers(h) \/ CollectorFails(h)
               \/ ManualNews(h) \/ SaveNewsItem(h) \/ ManualMacroEvent(h)
               \/ SaveMacroEvent(h) \/ SaveAiAnalysis(h) \/ AnalyzerFails(h) \/ Raises(h)
               \/ HandlerReads(h)
        PROVE  UNCHANGED row
    BY <2>2 DEF AnalyzerFails, CollectRunNow, CollectorAnswers, CollectorFails, ManualNews, SaveNewsItem,
                ManualMacroEvent, SaveMacroEvent, SaveAiAnalysis, Raises, HandlerReads,
                stored
  <2>3. CASE UpdateMacroActual \/ CycleReads \/ CycleAggregationFails \/ Tick
    BY <2>3 DEF UpdateMacroActual, CycleReads, CycleAggregationFails, Tick, stored
  <2> QED BY <2>1, <2>2, <2>3 DEF Next
<1> QED BY <1>2, <1>4, <1>5, <1>6

LEMMA FetchedIsKept ==
  ASSUME IInv, [Next]_vars
  PROVE  FetchedInv'
<1>0. TypeOK /\ FetchedInv BY DEF IInv
<1> DEFINE Done(s) == s \in stories' /\ \E i \in DOMAIN analyses' : analyses'[i].about = s.id
           Cared(job, s) == \/ s \in job.batch
                            \/ InHand(job, s) /\ s \in stories'
                            \/ Done(s)
<1>1. /\ stories \subseteq stories'
      /\ \A i \in DOMAIN analyses : i \in DOMAIN analyses' /\ analyses'[i] = analyses[i]
  BY <1>0, TableGrows
<1>2. \A s : Analysed(s) => Done(s) BY <1>1 DEF Analysed
<1>3. ASSUME NEW g \in Handlers, NEW s \in handler[g].fetched
      PROVE  ShouldAnalyse(s) /\ Cared(handler[g], s)
  BY <1>0, <1>1, <1>2, <1>3 DEF FetchedInv
<1> SUFFICES ASSUME NEW g \in Handlers, NEW s \in handler'[g].fetched
             PROVE  ShouldAnalyse(s) /\ Cared(handler'[g], s)
  BY DEF FetchedInv, Analysed
<1>4. CASE UNCHANGED handler BY <1>3, <1>4
<1>5. CASE \E h \in Handlers, new \in Jobs : HandlerStep(h, new)
  <2>1. PICK h \in Handlers, new \in Jobs : HandlerStep(h, new) BY <1>5
  <2>2. handler'[g] = IF g = h THEN new ELSE handler[g]
    BY <2>1, <1>0 DEF HandlerStep, TypeOK
  <2>3. CASE g # h BY <2>2, <2>3, <1>3
  <2>4. CASE g = h
    <3> DEFINE old == handler[h]
    <3>0. s \in new.fetched /\ handler'[g] = new BY <2>2, <2>4
    <3> SUFFICES ShouldAnalyse(s) /\ Cared(new, s) BY <3>0
    <3>1. CASE new.fetched = {} BY <3>0, <3>1
    <3>2. CASE new.fetched = old.fetched /\ new.batch = old.batch /\ old.pc # "analysing"
      <4>1. ~InHand(old, s) BY <3>2 DEF InHand
      <4>2. ShouldAnalyse(s) /\ Cared(old, s) BY <3>0, <3>2, <1>3
      <4> QED BY <4>1, <4>2, <3>2
    <3>3. CASE \E items \in SUBSET Stories :
                 /\ old.pc = "awaiting" /\ new.batch = items
                 /\ new.fetched = old.fetched \cup {x \in items : ShouldAnalyse(x)}
      <4>1. old.pc = "awaiting" BY <3>3
      <4>2. old.batch = {} /\ ~InHand(old, s)
        BY <4>1, <1>0 DEF TypeOK, Placed, InHand
      <4>3. CASE s \in old.fetched
        <5>1. ShouldAnalyse(s) /\ Cared(old, s) BY <4>3, <1>3
        <5> QED BY <5>1, <4>2
      <4>4. CASE s \notin old.fetched BY <4>4, <3>3, <3>0
      <4> QED BY <4>3, <4>4
    <3>4. CASE \E x \in Stories :
                 /\ old.pc = "items"
                 /\ new.batch = old.batch \ {x} /\ new.fetched = old.fetched
                 /\ stories' = stories \cup {x} /\ (ShouldAnalyse(x) => InHand(new, x))
      <4>1. PICK x \in Stories :
                 /\ old.pc = "items"
                 /\ new.batch = old.batch \ {x} /\ new.fetched = old.fetched
                 /\ stories' = stories \cup {x} /\ (ShouldAnalyse(x) => InHand(new, x))
        BY <3>4
      <4>2. ShouldAnalyse(s) /\ Cared(old, s) BY <4>1, <3>0, <1>3
      <4>3. ~InHand(old, s) BY <4>1 DEF InHand
      <4>4. CASE s = x BY <4>1, <4>2, <4>4
      <4>5. CASE s # x BY <4>1, <4>2, <4>3, <4>5
      <4> QED BY <4>4, <4>5
    <3>5. CASE \E r \in Rows, item \in old.item :
                 /\ old.pc = "analysing"
                 /\ new.batch = old.batch /\ new.fetched = old.fetched
                 /\ analyses' = Append(analyses, r) /\ r.about = item.id
      <4>1. PICK r \in Rows, item \in old.item :
                 /\ new.batch = old.batch /\ new.fetched = old.fetched
                 /\ analyses' = Append(analyses, r) /\ r.about = item.id
        BY <3>5
      <4>2. ShouldAnalyse(s) /\ Cared(old, s) BY <4>1, <3>0, <1>3
      <4>3. CASE InHand(old, s) /\ s \in stories'
        <5>1. item = s BY <4>1, <4>3 DEF InHand
        <5>2. /\ Len(analyses) + 1 \in DOMAIN analyses'
              /\ analyses'[Len(analyses) + 1] = r
          BY <4>1, <1>0, AppendProperties DEF TypeOK
        <5> QED BY <4>1, <4>2, <4>3, <5>1, <5>2
      <4> QED BY <4>1, <4>2, <4>3
    <3>6. CASE /\ old.pc = "analysing" /\ new.batch = old.batch
               /\ new.fetched = old.fetched \ old.item
      <4>1. s \in old.fetched /\ s \notin old.item BY <3>6, <3>0
      <4>2. ShouldAnalyse(s) /\ Cared(old, s) BY <4>1, <1>3
      <4>3. ~InHand(old, s) BY <4>1 DEF InHand
      <4> QED BY <4>2, <4>3, <3>6
    <3> HIDE DEF Cared
    <3> QED BY <2>1, <3>1, <3>2, <3>3, <3>4, <3>5, <3>6 DEF HandlerStep
  <2> QED BY <2>3, <2>4
<1> HIDE DEF Cared
<1> QED BY <1>0, <1>4, <1>5, HandlersStep

(* The invariant of the news service holds in every state.                 *)
LEMMA InvariantHolds == Spec => []IInv
<1>1. Init => IInv BY InitHolds
<1>2. IInv /\ [Next]_vars => IInv'
  BY TypesAreKept, CycleIsKept, DrawnIsKept, RowIsKept, FetchedIsKept DEF IInv
<1> QED BY <1>1, <1>2, PTL DEF Spec

(*-------------------------------------------------------------------------*)
(* What the checks say of small instances, for every instance              *)
(*-------------------------------------------------------------------------*)
(* The served state, when it says anything, ends with a usable analysis.   *)
THEOREM ServedStateIsAlive == Spec => []ServedIsAlive
<1>1. IInv => ServedIsAlive
  <2> SUFFICES ASSUME IInv,
                      \/ Cleared(row, now).weight > 0
                      \/ Cleared(row, now).blocks
                      \/ Cleared(row, now).reduces
               PROVE  \E i \in DOMAIN analyses :
                        IsUsable([analyses[i] EXCEPT !.until = @ + 1], now)
    BY DEF ServedIsAlive
  <2>0. TypeOK /\ RowInv BY DEF IInv
  <2>1. /\ ~(Neutral.weight > 0) /\ ~Neutral.blocks /\ ~Neutral.reduces
        /\ \A u : /\ ~([Neutral EXCEPT !.until = u].weight > 0)
                  /\ ~[Neutral EXCEPT !.until = u].blocks
                  /\ ~[Neutral EXCEPT !.until = u].reduces
    BY DEF Neutral
  <2>2. ~(row.until # NoDate /\ row.until < now) /\ row # Neutral
    BY <2>1 DEF Cleared
  <2>3. PICK i \in DOMAIN analyses : /\ Weighty(analyses[i])
                                     /\ analyses[i].until = row.until /\ row.until > 0
    BY <2>0, <2>2 DEF RowInv
  <2>4. analyses[i] \in Rows /\ now \in Nat BY <2>0 DEF TypeOK
  <2>5. analyses[i].until \in Nat BY <2>4 DEF Rows
  <2>6. analyses[i].until + 1 > now BY <2>2, <2>3, <2>4, <2>5 DEF NoDate
  <2> DEFINE r == [analyses[i] EXCEPT !.until = analyses[i].until + 1]
  <2>7. /\ r.until = analyses[i].until + 1 /\ r.relevance = analyses[i].relevance
        /\ r.confidence = analyses[i].confidence
    BY <2>4 DEF Rows
  <2> HIDE DEF r
  <2>8. IsUsable(r, now) BY <2>3, <2>6, <2>7 DEF IsUsable, Weighty
  <2> QED BY <2>8 DEF r
<1> QED BY <1>1, InvariantHolds, PTL

(* What the cycle is told blocks when a usable analysis it could see does, *)
(* and never leans against one.                                            *)
THEOREM AnswersHeedTheNews == Spec => AnswerHeedsTheNews
<1>1. ASSUME IInv, CycleWrites,
             NEW i \in 1..cycle.seen,
             IsUsable(analyses[i], cycle.at),
             Cardinality({j \in 1..cycle.seen : j > i /\ analyses[j].until > cycle.at})
               < Limit
      PROVE  /\ Blocking(analyses[i]) => row'.blocks
             /\ row'.bias = "BUY" => analyses[i].direction # "DOWN"
             /\ row'.bias = "SELL" => analyses[i].direction # "UP"
  <2>1. TypeOK /\ CycleInv BY <1>1 DEF IInv
  <2>2. row' = Aggregate(cycle.rows) /\ cycle.reads BY <1>1 DEF CycleWrites
  <2>3. cycle.rows = Picked(cycle.seen, cycle.at) BY <2>1, <2>2 DEF CycleInv
  <2>4. i \in DOMAIN cycle.rows /\ cycle.rows[i] = analyses[i]
    BY <1>1, <2>3 DEF Picked, Restrict
  <2>5. cycle.rows \in Extracts BY <2>1 DEF TypeOK, Cycles
  <2> QED BY <2>2, <2>4, <2>5, AggregateSays
<1>2. IInv => (CycleWrites =>
       LET seen == 1..cycle.seen
           open(i) == analyses[i].until > cycle.at
           visible(i) == /\ IsUsable(analyses[i], cycle.at)
                         /\ Cardinality({j \in seen : j > i /\ open(j)}) < Limit
       IN  \A i \in seen : visible(i) =>
             /\ Blocking(analyses[i]) => row'.blocks
             /\ row'.bias = "BUY" => analyses[i].direction # "DOWN"
             /\ row'.bias = "SELL" => analyses[i].direction # "UP")
  BY <1>1
<1> QED BY <1>2, InvariantHolds, PTL DEF AnswerHeedsTheNews

(* A collection that ends has analysed every relevant story it fetched.    *)
THEOREM CollectionsAreAnalysed == Spec => CollectedIsAnalysed
<1>1. IInv => \A h \in Handlers : HandlerWrites(h) =>
       \A s \in handler[h].fetched :
         s \in stories /\ \E i \in DOMAIN analyses : analyses[i].about = s.id
  <2> SUFFICES ASSUME IInv, NEW h \in Handlers, HandlerWrites(h),
                      NEW s \in handler[h].fetched
               PROVE  Analysed(s)
    BY DEF Analysed
  <2>1. handler[h].pc = "writing" BY DEF HandlerWrites, At
  <2>2. handler[h].batch = {} BY <2>1 DEF IInv, TypeOK, Placed
  <2>3. ~InHand(handler[h], s) BY <2>1 DEF InHand
  <2> QED BY <2>2, <2>3 DEF IInv, FetchedInv
<1> QED BY <1>1, InvariantHolds, PTL DEF CollectedIsAnalysed
=============================================================================
