------------------------ MODULE SignalPipelineProofs ------------------------
(***************************************************************************)
(* What a signal cycle guarantees, for every set of charts, ballots and    *)
(* contexts.  The facts about one plan and about one evaluation are        *)
(* lemmas; the invariant carries them from the stage that establishes them *)
(* to the recommendation.                                                  *)
(***************************************************************************)
EXTENDS SignalPipeline, TLAPS

-------------------------------------------------------------------------------
(* Plans                                                                   *)

\* The levels a plan is made of are prices.
Levelled(st) ==
  st.unit \in Nat \ {0} /\ st.support \in Int /\ st.resistance \in Int /\ st.ema20 \in Int

LevelledSmc(sm) ==
  sm.ifvgs \in Seq(GapType) /\ sm.gaps \in Seq(GapType) /\ sm.dol.price \in Int

Types == Structural \cup {"SMC_IFVG"}

\* Entry prices are prices (_entry_price).
LEMMA EntryType ==
  ASSUME NEW direction, NEW type \in Types, NEW st, Levelled(st)
  PROVE  EntryPrice(direction, type, st) \in Int
  BY DEF EntryPrice, Types, Structural, Levelled, Rearmost, Frontmost, Least, Greatest, Behind,
         Ahead, Close

\* The stop of a structural plan is at least 1.6 ATR behind its entry (_stop_loss).
LEMMA StopIsBehind ==
  ASSUME NEW direction \in Directions, NEW type \in Structural, NEW entry \in Int,
         NEW st, Levelled(st), NEW sm
  PROVE  /\ StopLoss(direction, type, entry, st, sm) \in Int
         /\ Room(direction, StopLoss(direction, type, entry, st, sm), entry) > 0
  <1>1. type # "SMC_IFVG"
    BY DEF Structural
  <1>2. CASE direction = "BUY"
    BY <1>1, <1>2 DEF StopLoss, Rearmost, Least, Behind, Close, Room, Levelled
  <1>3. CASE direction = "SELL"
    BY <1>1, <1>3 DEF StopLoss, Rearmost, Greatest, Behind, Close, Room, Levelled
  <1> QED
    BY <1>2, <1>3 DEF Directions

\* The stop of any plan is a price.
LEMMA StopType ==
  ASSUME NEW direction \in Directions, NEW type \in Types, NEW entry \in Int,
         NEW st, Levelled(st), NEW sm, LevelledSmc(sm)
  PROVE  StopLoss(direction, type, entry, st, sm) \in Int
  <1>1. CASE type = "SMC_IFVG" /\ sm.ifvgs # <<>>
    <2>1. sm.ifvgs[1] \in GapType
      BY <1>1 DEF LevelledSmc
    <2>2. sm.ifvgs[1].top \in Int /\ sm.ifvgs[1].bottom \in Int
      BY <2>1 DEF GapType
    <2>3. StopLoss(direction, type, entry, st, sm) = SmcStop(direction, entry, st, sm)
      BY <1>1 DEF StopLoss
    <2>4. 3 * st.unit \in Int /\ 10 * st.unit \in Int
      BY DEF Levelled
    <2> QED
      BY <2>2, <2>3, <2>4 DEF SmcStop, Rearmost, Least, Greatest, Behind
  <1>2. CASE ~(type = "SMC_IFVG" /\ sm.ifvgs # <<>>)
    <2>1. /\ Close(st, direction) \in Int
          /\ 3 * st.unit \in Int /\ 32 * st.unit \in Int
      BY DEF Close, Levelled
    <2>2. Behind(direction, Close(st, direction), 3 * st.unit) \in Int
          /\ Behind(direction, entry, 32 * st.unit) \in Int
      BY <2>1 DEF Behind
    <2>3. StopLoss(direction, type, entry, st, sm)
            = Rearmost(direction, Behind(direction, Close(st, direction), 3 * st.unit),
                                  Behind(direction, entry, 32 * st.unit))
      BY <1>2 DEF StopLoss
    <2> QED
      BY <2>2, <2>3 DEF Rearmost, Least, Greatest
  <1> QED
    BY <1>1, <1>2

\* The last target of a structural plan is ahead of the second (_take_profits).
LEMMA LastIsAhead ==
  ASSUME NEW direction \in Directions, NEW entry \in Int, NEW risked \in Nat \ {0},
         NEW st, Levelled(st)
  PROVE  /\ LastTarget(direction, entry, risked, st) \in Int
         /\ Room(direction, Ahead(direction, entry, 2 * risked),
                 LastTarget(direction, entry, risked, st)) > 0
  <1> DEFINE more == Greatest(5 * st.unit, risked \div 2)
  <1>1. more \in Nat \ {0}
    BY DEF Greatest, Levelled
  <1> HIDE DEF more
  <1>2. Ahead(direction, entry, 60 * st.unit) \in Int /\ Far(st, direction) \in Int
    BY DEF Ahead, Far, Levelled
  <1>3. LastTarget(direction, entry, risked, st)
          = Frontmost(direction, Frontmost(direction, Ahead(direction, entry, 60 * st.unit),
                                                      Far(st, direction)),
                                 Ahead(direction, entry, 2 * risked + more))
    BY DEF LastTarget, more
  <1>4. CASE direction = "BUY"
    BY <1>1, <1>2, <1>3, <1>4 DEF Frontmost, Greatest, Room, Ahead
  <1>5. CASE direction = "SELL"
    BY <1>1, <1>2, <1>3, <1>5 DEF Frontmost, Least, Room, Ahead
  <1> QED
    BY <1>4, <1>5 DEF Directions

\* The risk of a candidate is positive.
LEMMA RiskIsPositive ==
  ASSUME NEW a \in Int, NEW b \in Int
  PROVE  /\ Distance(a, b) \in Nat
         /\ Greatest(Distance(a, b), 1) \in Nat \ {0}
  BY DEF Distance, Greatest

\* The targets of a plan are prices; those of a structural plan are one after
\* the other, ahead of the entry (_take_profits).
LEMMA TargetsAreAhead ==
  ASSUME NEW direction \in Directions, NEW type \in Structural, NEW entry \in Int,
         NEW risked \in Nat \ {0}, NEW st, Levelled(st), NEW sm,
         NEW t, t = TakeProfits(direction, type, entry, risked, st, sm)
  PROVE  /\ t[1] \in Int /\ t[2] \in Int /\ t[3] \in Int
         /\ Room(direction, entry, t[1]) > 0
         /\ Room(direction, t[1], t[2]) > 0
         /\ Room(direction, t[2], t[3]) > 0
  <1>1. t = <<Ahead(direction, entry, risked), Ahead(direction, entry, 2 * risked),
              LastTarget(direction, entry, risked, st)>>
    BY DEF TakeProfits, Structural
  <1>2. /\ t[1] = Ahead(direction, entry, risked) /\ t[2] = Ahead(direction, entry, 2 * risked)
        /\ t[3] = LastTarget(direction, entry, risked, st)
    BY <1>1
  <1>3. /\ t[3] \in Int
        /\ Room(direction, t[2], t[3]) > 0
    BY <1>2, LastIsAhead
  <1> QED
    BY <1>2, <1>3 DEF Room, Ahead, Directions

\* The first target of a sell is below its entry, whatever its type.
LEMMA SellTargetIsBelow ==
  ASSUME NEW type \in Types, NEW entry \in Int, NEW risked \in Nat \ {0},
         NEW st, Levelled(st), NEW sm, LevelledSmc(sm)
  PROVE  /\ TakeProfits("SELL", type, entry, risked, st, sm)[1] \in Int
         /\ TakeProfits("SELL", type, entry, risked, st, sm)[1] < entry
  <1>1. CASE type = "SMC_IFVG"
    <2>1. TakeProfits("SELL", type, entry, risked, st, sm)[1] = SmcFirst("SELL", entry, risked, sm)
      BY <1>1 DEF TakeProfits
    <2>2. CASE sm.gaps = <<>>
      BY <2>1, <2>2 DEF SmcFirst, Ahead
    <2>3. CASE sm.gaps # <<>>
      <3>1. sm.gaps[1] \in GapType
        BY <2>3 DEF LevelledSmc
      <3>2. sm.gaps[1].top \in Int /\ sm.gaps[1].bottom \in Int
        BY <3>1 DEF GapType
      <3>3. (sm.gaps[1].top + sm.gaps[1].bottom) \div 2 \in Int
        BY <3>2
      <3> QED
        BY <2>1, <3>3 DEF SmcFirst, Ahead, Room
    <2> QED
      BY <2>2, <2>3
  <1>2. CASE type # "SMC_IFVG"
    BY <1>2 DEF TakeProfits, Ahead
  <1> QED
    BY <1>1, <1>2

\* Targets of any plan are prices.
LEMMA RewardType ==
  ASSUME NEW direction \in Directions, NEW type \in Types, NEW entry \in Int,
         NEW risked \in Nat \ {0}, NEW st, Levelled(st), NEW sm, LevelledSmc(sm)
  PROVE  TakeProfits(direction, type, entry, risked, st, sm)[2] \in Int
  <1>1. CASE type = "SMC_IFVG"
    BY <1>1 DEF TakeProfits, LevelledSmc
  <1>2. CASE type # "SMC_IFVG"
    BY <1>2 DEF TakeProfits, Ahead
  <1> QED
    BY <1>1, <1>2

\* The score of a candidate is a number.
LEMMA ScoreType ==
  ASSUME NEW direction \in Directions, NEW type \in Types, NEW entry \in Int,
         NEW risked \in Nat \ {0}, NEW reward \in Nat, NEW st, Levelled(st),
         NEW confidence \in Nat, NEW regime, NEW confirmed
  PROVE  Score(direction, type, entry, risked, reward, st, confidence, regime, confirmed) \in Int
  <1>1. Cap(type, risked, reward, st) \in Int
    BY DEF Cap, Least
  <1>2. RegimeScore(type, regime) \in Int /\ ExecutionProbability(type, entry, st) \in Int
    BY DEF RegimeScore, ExecutionProbability
  <1>3. StructureScore(direction, entry, st, confirmed) \in Int
    BY DEF StructureScore
  <1>4. (1000 * reward) \div risked \in Int
    OBVIOUS
  <1>5. Least(2000, (1000 * reward) \div risked) \in Int
    BY <1>4 DEF Least
  <1> QED
    BY <1>1, <1>2, <1>3, <1>5 DEF Score, Least

\* What is true of every candidate of a direction.
Sound(direction, made) ==
  /\ made.score \in Int
  /\ made.type \in Structural => Ordered(direction, made)
  /\ direction = "SELL" => made.targets[1] <= made.entry

LEMMA CandidateIsSound ==
  ASSUME NEW direction \in Directions, NEW type \in Types, NEW st, Levelled(st),
         NEW sm, LevelledSmc(sm), NEW confidence \in Nat, NEW regime, NEW confirmed
  PROVE  Sound(direction, Candidate(direction, type, st, sm, confidence, regime, confirmed))
  <1> DEFINE entry == EntryPrice(direction, type, st)
             stop == StopLoss(direction, type, entry, st, sm)
             risked == Greatest(Distance(entry, stop), 1)
             targets == TakeProfits(direction, type, entry, risked, st, sm)
             reward == Distance(targets[2], entry)
             score == Score(direction, type, entry, risked, reward, st, confidence, regime, confirmed)
             made == Candidate(direction, type, st, sm, confidence, regime, confirmed)
  <1>1. /\ made.type = type /\ made.entry = entry /\ made.stop = stop
        /\ made.targets = targets /\ made.score = score
    BY DEF Candidate
  <1>2. entry \in Int
    BY EntryType
  <1>3. stop \in Int
    BY <1>2, StopType
  <1>4. risked \in Nat \ {0}
    BY <1>2, <1>3, RiskIsPositive
  <1>5. reward \in Nat
    BY <1>2, <1>4, RewardType, RiskIsPositive
  <1>6. score \in Int
    BY <1>2, <1>4, <1>5, ScoreType
  <1>7. ASSUME type \in Structural
        PROVE  Ordered(direction, made)
    <2>1. Room(direction, stop, entry) > 0
      BY <1>2, <1>7, StopIsBehind
    <2>2. /\ Room(direction, entry, targets[1]) > 0
          /\ Room(direction, targets[1], targets[2]) > 0
          /\ Room(direction, targets[2], targets[3]) > 0
      BY <1>2, <1>4, <1>7, TargetsAreAhead
    <2> HIDE DEF made, entry, stop, targets
    <2> QED
      BY <1>1, <2>1, <2>2 DEF Ordered
  <1>8. ASSUME direction = "SELL"
        PROVE  targets[1] <= entry
    <2>1. targets[1] < entry
      BY <1>2, <1>4, <1>8, SellTargetIsBelow
    <2>2. targets[1] \in Int
      BY <1>2, <1>4, <1>8, SellTargetIsBelow
    <2> HIDE DEF targets, entry
    <2> QED
      BY <1>2, <2>1, <2>2
  <1> HIDE DEF made, entry, stop, targets, score
  <1>9. Sound(direction, made)
    BY <1>1, <1>6, <1>7, <1>8 DEF Sound
  <1> QED
    BY <1>9 DEF made

\* max() over at most six numbers returns one of them.
LEMMA BestExists ==
  ASSUME NEW f, NEW n \in 1..6, \A i \in 1..n : f[i] \in Int,
         NEW pool \in SUBSET (1..n), pool # {}
  PROVE  \E i \in pool : \A j \in pool : f[j] <= f[i]
  <1> DEFINE UpTo(k) == pool \cap 1..k # {} =>
                          \E i \in pool \cap 1..k : \A j \in pool \cap 1..k : f[j] <= f[i]
  <1>1. UpTo(0)
    OBVIOUS
  <1>2. ASSUME NEW k \in 0..5, UpTo(k)
        PROVE  UpTo(k + 1)
    <2>1. 1..(k + 1) = 1..k \cup {k + 1}
      OBVIOUS
    <2>2. CASE k + 1 \notin pool
      <3>1. pool \cap 1..(k + 1) = pool \cap 1..k
        BY <2>1, <2>2
      <3> QED
        BY <1>2, <3>1
    <2>3. CASE k + 1 \in pool /\ pool \cap 1..k = {}
      <3>1. pool \cap 1..(k + 1) = {k + 1}
        BY <2>1, <2>3
      <3> QED
        BY <3>1, <2>3
    <2>4. CASE k + 1 \in pool /\ pool \cap 1..k # {}
      <3>1. PICK i \in pool \cap 1..k : \A j \in pool \cap 1..k : f[j] <= f[i]
        BY <1>2, <2>4
      <3>2. f[i] \in Int /\ f[k + 1] \in Int /\ \A j \in pool : f[j] \in Int
        BY <2>4
      <3>3. CASE f[k + 1] <= f[i]
        BY <2>1, <3>1, <3>3
      <3>4. CASE f[i] <= f[k + 1]
        <4>1. \A j \in pool \cap 1..k : f[j] <= f[k + 1]
          BY <3>1, <3>2, <3>4
        <4> QED
          BY <2>1, <2>4, <3>2, <4>1
      <3> QED
        BY <3>2, <3>3, <3>4
    <2> QED
      BY <2>2, <2>3, <2>4
  <1>3. UpTo(1) /\ UpTo(2) /\ UpTo(3) /\ UpTo(4) /\ UpTo(5) /\ UpTo(6)
    <2> HIDE DEF UpTo
    <2>1. UpTo(0 + 1)
      BY <1>1, <1>2
    <2>2. UpTo(1 + 1)
      BY <2>1, <1>2
    <2>3. UpTo(2 + 1)
      BY <2>2, <1>2
    <2>4. UpTo(3 + 1)
      BY <2>3, <1>2
    <2>5. UpTo(4 + 1)
      BY <2>4, <1>2
    <2>6. UpTo(5 + 1)
      BY <2>5, <1>2
    <2> QED
      BY <2>1, <2>2, <2>3, <2>4, <2>5, <2>6
  <1>4. pool \cap 1..6 = pool
    <2>1. 1..n \subseteq 1..6
      OBVIOUS
    <2> QED
      BY <2>1
  <1> QED
    BY <1>3, <1>4

\* The selected plan is one of the candidates (select_plan).
LEMMA SelectedIsCandidate ==
  ASSUME NEW candidates, NEW n \in 1..6, DOMAIN candidates = 1..n,
         \A i \in 1..n : candidates[i].score \in Int
  PROVE  Selected(candidates) \in 1..n
  <1> DEFINE valid == {i \in DOMAIN candidates : candidates[i].rejection = "none"}
             pool == IF valid = {} THEN DOMAIN candidates ELSE valid
             best == {i \in pool : \A j \in pool : candidates[j].score <= candidates[i].score}
             score == [i \in 1..n |-> candidates[i].score]
  <1>1. pool \in SUBSET (1..n) /\ pool # {}
    <2>1. valid \subseteq 1..n /\ 1 \in 1..n
      OBVIOUS
    <2> HIDE DEF valid
    <2> QED
      BY <2>1
  <1>2. \E i \in pool : \A j \in pool : score[j] <= score[i]
    <2>1. \A i \in 1..n : score[i] \in Int
      OBVIOUS
    <2> HIDE DEF pool
    <2> HIDE DEF score
    <2> QED
      BY <1>1, <2>1, BestExists
  <1>3. best # {} /\ best \subseteq 1..n
    <2> HIDE DEF pool
    <2> QED
      BY <1>1, <1>2
  <1>4. \E i \in best : \A j \in best : i <= j
    <2> HIDE DEF best
    <2>1. \A i \in 1..n : [j \in 1..n |-> 0 - j][i] \in Int
      OBVIOUS
    <2>2. \E i \in best : \A j \in best : [k \in 1..n |-> 0 - k][j] <= [k \in 1..n |-> 0 - k][i]
      BY <1>3, <2>1, BestExists
    <2> QED
      BY <1>3, <2>2
  <1>5. Selected(candidates) = CHOOSE i \in best : \A j \in best : i <= j
    BY DEF Selected
  <1> HIDE DEF best
  <1>6. Selected(candidates) \in best
    BY <1>4, <1>5
  <1> QED
    BY <1>3, <1>6

\* The plan of a cycle is sound.
LEMMA PlannedIsSound ==
  ASSUME NEW direction \in Directions, NEW st, Levelled(st), NEW sm, LevelledSmc(sm),
         NEW confidence \in Nat, NEW regime, NEW confirmed,
         NEW candidates, candidates = Candidates(direction, st, sm, confidence, regime, confirmed)
  PROVE  Sound(direction, candidates[Selected(candidates)])
  <1>1. PICK n \in 1..6 : /\ DOMAIN candidates = 1..n
                           /\ \A i \in 1..n : candidates[i] =
                                Candidate(direction, EntryTypes[i], st, sm, confidence, regime, confirmed)
    BY DEF Candidates
  <1>2. \A i \in 1..6 : EntryTypes[i] \in Types
    BY DEF EntryTypes, Types, Structural
  <1>3. \A i \in 1..n : Sound(direction, candidates[i])
    BY <1>1, <1>2, CandidateIsSound
  <1>4. Selected(candidates) \in 1..n
    BY <1>1, <1>3, SelectedIsCandidate DEF Sound
  <1> QED
    BY <1>3, <1>4

-------------------------------------------------------------------------------
(* Evaluations                                                             *)

LEMMA SignalType ==
  ASSUME NEW ballot
  PROVE  Ensemble(ballot).signal \in Signals
  BY DEF Ensemble, Argmax, Signals, Directions

\* What an executable status says of the ensemble and the snapshot (evaluate).
Confirmed(en, st) ==
  /\ en.signal # "HOLD"
  /\ en.agreement # "HIGH_CONFLICT" /\ en.directional >= MinConfidence
  /\ st.news = "CLEAR" /\ st.volatility \notin {"TOO_LOW", "EXTREME"}

LEMMA EvaluatedIsConfirmed ==
  ASSUME NEW en, NEW st, NEW sm, NEW quality, NEW passed, NEW state,
         en.directional \in Int, Evaluated(en, st, sm, quality, passed, state) \in Actionable
  PROVE  Confirmed(en, st)
  <1> DEFINE found == StrategyBlocks(en, st)
  <1>1. en.signal # "HOLD" /\ "conflict" \notin found /\ "news" \notin found
    BY DEF Evaluated, Actionable
  <1>2. ~(en.directional < MinConfidence) /\ found = {}
    BY DEF Evaluated, Actionable
  <1>3. "conflict" \notin found => en.agreement # "HIGH_CONFLICT"
    BY DEF StrategyBlocks
  <1>4. "news" \notin found => st.news = "CLEAR"
    BY DEF StrategyBlocks
  <1>5. "volatility" \notin found => st.volatility \notin {"TOO_LOW", "EXTREME"}
    BY DEF StrategyBlocks
  <1> HIDE DEF found
  <1> QED
    BY <1>1, <1>2, <1>3, <1>4, <1>5, ThresholdAssumption DEF Confirmed

\* No risk check that blocks leaves an executable status (_risk_to_status).
LEMMA RiskStatusIsBlocked ==
  ASSUME NEW reasons
  PROVE  RiskStatus(reasons) \notin Actionable
  BY DEF RiskStatus, Actionable

\* The news state of the risk engine, and a first target that is not above the
\* entry, are reasons to block (validate).
LEMMA BlockReasons ==
  ASSUME NEW p, NEW en, NEW st, NEW ctx, NEW blocking
  PROVE  /\ blocking => RiskBlocks(p, en, st, ctx, blocking) # {}
         /\ p.targets[1] <= p.entry => RiskBlocks(p, en, st, ctx, blocking) # {}
  <1>1. blocking => "news" \in RiskBlocks(p, en, st, ctx, blocking)
    BY Zenon DEF RiskBlocks
  <1>2. p.targets[1] <= p.entry => "opposite" \in RiskBlocks(p, en, st, ctx, blocking)
    BY Zenon DEF RiskBlocks, NoRoom
  <1> QED
    BY <1>1, <1>2

-------------------------------------------------------------------------------
(* The invariant                                                           *)

\* What each stage leaves to the next ones.
SnapshotKept ==
  stage \in {"vote", "decide", "plan", "build", "execute", "done"} => Levelled(s) /\ LevelledSmc(smc)

EnsembleKept ==
  stage \in {"decide", "plan", "build", "execute", "done"} =>
    e.signal \in Signals /\ e.confidence \in Nat /\ e.directional \in Int

\* A signal in a direction is planned, a HOLD stays a HOLD.
PlanKept ==
  /\ stage = "plan" => e.signal \in Directions
  /\ stage \in {"build", "execute", "done"} =>
       \/ e.signal = "HOLD" /\ plan = NoPlan /\ blocks = {}
       \/ e.signal \in Directions /\ Sound(e.signal, plan)
            /\ (news.block => blocks # {})
            /\ (plan.targets[1] <= plan.entry => blocks # {})

\* The vetoes that survive the second evaluation.
VetoesKept ==
  stage \in {"build", "execute", "done"} /\ status \in Actionable =>
    Confirmed(e, s) /\ mtf # "CONFLICT" /\ risk.status # "BLOCKED"

ClearedByBuild == Finished /\ status \in Actionable => ~gated /\ blocks = {}

\* There is no plan before the planning.
Unplanned == stage \in {"clean", "analyse", "vote", "decide", "plan"} => plan = NoPlan /\ blocks = {}

CycleInvariant ==
  gated \in BOOLEAN /\ Unplanned /\ SnapshotKept /\ EnsembleKept /\ PlanKept /\ VetoesKept /\ ClearedByBuild

LEMMA InitInvariant == Init => CycleInvariant
  BY DEF Init, CycleInvariant, SnapshotKept, EnsembleKept, PlanKept, VetoesKept, ClearedByBuild,
         Finished, Unplanned

LEMMA CleanStep ==
  ASSUME CycleInvariant, NEW feed, NEW gate \in BOOLEAN, Clean(feed, gate)
  PROVE  CycleInvariant'
  <1>1. gated' \in BOOLEAN
    BY DEF Clean
  <1>2. stage = "clean" /\ stage' = "analyse" /\ UNCHANGED <<plan, blocks>>
    BY DEF Clean
  <1> QED
    BY <1>1, <1>2 DEF CycleInvariant, SnapshotKept, EnsembleKept, PlanKept, VetoesKept,
                      ClearedByBuild, Finished, Unplanned

LEMMA AnalyseStep ==
  ASSUME CycleInvariant, NEW c \in Charts, NEW calendar, NEW block, Analyse(c, calendar, block)
  PROVE  CycleInvariant'
  <1>1. stage = "analyse" /\ stage' = "vote" /\ UNCHANGED <<gated, plan, blocks>>
    BY DEF Analyse
  <1>2. Levelled(s')
    BY ChartAssumption DEF Analyse, Snapshot, Levelled
  <1>3. LevelledSmc(smc')
    BY ChartAssumption DEF Analyse, LevelledSmc
  <1> QED
    BY <1>1, <1>2, <1>3 DEF CycleInvariant, SnapshotKept, EnsembleKept, PlanKept, VetoesKept,
                            ClearedByBuild, Finished, Unplanned

LEMMA VoteStep ==
  ASSUME CycleInvariant, NEW ballot \in Ballots, Vote(ballot)
  PROVE  CycleInvariant'
  <1>1. stage = "vote" /\ stage' = "decide" /\ UNCHANGED <<gated, s, smc, plan, blocks>>
    BY DEF Vote
  <1>2. PICK heard \in {ballot, Abstained(ballot)} : e' = Ensemble(heard)
    BY DEF Vote
  <1>3. e'.signal \in Signals /\ e'.confidence \in Nat /\ e'.directional \in Int
    BY <1>2, SignalType, BallotAssumption
  <1> QED
    BY <1>1, <1>3 DEF CycleInvariant, SnapshotKept, EnsembleKept, PlanKept, VetoesKept,
                      ClearedByBuild, Finished, Unplanned

\* Without a veto the first evaluation decides.
LEMMA PreTradeClear ==
  ASSUME NEW evaluated, NEW regime, NEW confirmation, e.signal \in Directions,
         PreTrade(evaluated, regime, confirmation) \in Actionable
  PROVE  evaluated \in Actionable /\ risk.status # "BLOCKED" /\ confirmation # "CONFLICT"
  BY DEF PreTrade, Actionable, Directions

LEMMA DecideStep ==
  ASSUME CycleInvariant, NEW views, NEW state, NEW weighted, NEW blocking,
         Decide(views, state, weighted, blocking)
  PROVE  CycleInvariant'
  <1>1. stage = "decide" /\ UNCHANGED <<gated, s, smc, risk, e, plan, blocks>>
    BY DEF Decide
  <1>2. stage' = IF e.signal \in Directions THEN "plan" ELSE "build"
    BY DEF Decide
  <1>3. CASE e.signal \in Directions
    BY <1>1, <1>2, <1>3 DEF CycleInvariant, SnapshotKept, EnsembleKept, PlanKept, VetoesKept,
                            ClearedByBuild, Finished, Unplanned
  <1>4. CASE e.signal \notin Directions
    <2>1. e.signal = "HOLD"
      BY <1>1, <1>4 DEF CycleInvariant, EnsembleKept, Signals
    <2>2. status' = "HOLD"
      BY <2>1 DEF Decide, PreTrade, Evaluated
    <2>3. plan = NoPlan /\ blocks = {}
      BY <1>1 DEF CycleInvariant, Unplanned
    <2> QED
      BY <1>1, <1>2, <1>4, <2>1, <2>2, <2>3
         DEF CycleInvariant, SnapshotKept, EnsembleKept, PlanKept, VetoesKept, ClearedByBuild,
             Finished, Actionable, Unplanned
  <1> QED
    BY <1>3, <1>4

LEMMA PlanStep ==
  ASSUME CycleInvariant, Plan
  PROVE  CycleInvariant'
  <1> DEFINE candidates == Planned
             selected == candidates[Selected(candidates)]
             reasons == RiskBlocks(selected, e, s, context, news.block)
             again == Evaluated(e, s, smc, selected.score, reasons = {}, news)
  <1>1. stage = "plan" /\ stage' = "build" /\ UNCHANGED <<gated, s, smc, risk, e, mtf, news>>
    BY DEF Plan
  <1>2. plan' = selected /\ blocks' = reasons /\ status' = Repeated(again)
    BY DEF Plan
  <1>3. e.signal \in Directions /\ e.confidence \in Nat /\ e.directional \in Int
        /\ Levelled(s) /\ LevelledSmc(smc) /\ gated \in BOOLEAN
    BY <1>1 DEF CycleInvariant, PlanKept, EnsembleKept, SnapshotKept
  <1>4. Sound(e.signal, selected)
    BY <1>3, PlannedIsSound DEF Planned
  <1>5. (news.block => reasons # {}) /\ (selected.targets[1] <= selected.entry => reasons # {})
    BY BlockReasons
  <1> HIDE DEF selected, reasons
  <1>6. ASSUME status' \in Actionable
        PROVE  Confirmed(e, s) /\ mtf # "CONFLICT" /\ risk.status # "BLOCKED"
    <2>1. again \in Actionable /\ mtf # "CONFLICT" /\ risk.status # "BLOCKED"
      BY <1>2, <1>6 DEF Repeated, Actionable
    <2> QED
      BY <1>3, <2>1, EvaluatedIsConfirmed
  <1> HIDE DEF again
  <1>7. PlanKept'
    BY <1>1, <1>2, <1>3, <1>4, <1>5 DEF PlanKept
  <1>8. VetoesKept'
    BY <1>1, <1>6 DEF VetoesKept
  <1> QED
    BY <1>1, <1>3, <1>7, <1>8 DEF CycleInvariant, SnapshotKept, EnsembleKept,
       ClearedByBuild, Finished, Signals, Unplanned

LEMMA BuildStep ==
  ASSUME CycleInvariant, NEW critical \in BOOLEAN, Build(critical)
  PROVE  CycleInvariant'
  <1>1. stage = "build" /\ stage' = "execute"
        /\ UNCHANGED <<gated, s, smc, risk, e, mtf, news, plan, blocks>>
    BY DEF Build
  <1>2. status' = Recommended(status, critical)
    BY DEF Build
  <1>3. ASSUME status' \in Actionable
        PROVE  ~gated /\ blocks = {} /\ status \in Actionable
    BY <1>2, <1>3, RiskStatusIsBlocked DEF Recommended, Built, Actionable
  <1> QED
    BY <1>1, <1>3 DEF CycleInvariant, SnapshotKept, EnsembleKept, PlanKept, VetoesKept,
                      ClearedByBuild, Finished, Unplanned

LEMMA ExecuteStep ==
  ASSUME CycleInvariant, NEW control, NEW source, NEW permitted, Execute(control, source, permitted)
  PROVE  CycleInvariant'
  <1>1. stage = "execute" /\ stage' = "done"
        /\ UNCHANGED <<gated, s, smc, risk, e, mtf, news, plan, blocks, status>>
    BY DEF Execute
  <1> QED
    BY <1>1 DEF CycleInvariant, SnapshotKept, EnsembleKept, PlanKept, VetoesKept, ClearedByBuild,
                Finished, Unplanned

LEMMA StutterStep ==
  ASSUME CycleInvariant, UNCHANGED vars
  PROVE  CycleInvariant'
  BY DEF vars, CycleInvariant, SnapshotKept, EnsembleKept, PlanKept, VetoesKept, ClearedByBuild,
         Finished, Unplanned

\* The invariant of a cycle holds in every state (run_signal_cycle).
THEOREM CycleInvariantHolds == Spec => []CycleInvariant
  <1>1. CycleInvariant /\ [Next]_vars => CycleInvariant'
    BY CleanStep, AnalyseStep, VoteStep, DecideStep, PlanStep, BuildStep, ExecuteStep, StutterStep
       DEF Next
  <1> QED
    BY InitInvariant, <1>1, PTL DEF Spec

\* Every judge of the cycle has cleared an executable recommendation, although
\* only two of the vetoes are repeated after the second evaluation.
THEOREM ActionableIsClear == Spec => []ActionableOnlyIfClear
  <1>1. CycleInvariant => ActionableOnlyIfClear
    <2> SUFFICES ASSUME CycleInvariant, Finished, status \in Actionable
                 PROVE  /\ ~gated /\ e.signal \in Directions
                        /\ mtf # "CONFLICT" /\ risk.status # "BLOCKED" /\ blocks = {} /\ ~news.block
                        /\ e.agreement # "HIGH_CONFLICT" /\ e.directional >= MinConfidence
                        /\ s.news = "CLEAR" /\ s.volatility \notin {"TOO_LOW", "EXTREME"}
      BY DEF ActionableOnlyIfClear
    <2>1. stage \in {"build", "execute", "done"}
      BY DEF Finished
    <2>2. Confirmed(e, s) /\ mtf # "CONFLICT" /\ risk.status # "BLOCKED" /\ ~gated /\ blocks = {}
      BY <2>1 DEF CycleInvariant, VetoesKept, ClearedByBuild
    <2>3. e.signal \in Directions /\ (news.block => blocks # {})
      BY <2>1, <2>2 DEF CycleInvariant, PlanKept, Confirmed
    <2> QED
      BY <2>2, <2>3 DEF Confirmed
  <1> QED
    BY <1>1, CycleInvariantHolds, PTL

\* Stop, entry and targets of a structural plan are in the order a trade meets
\* them, for every chart.
THEOREM StructuralPlansOrdered == Spec => []PlanIsOrdered
  <1>1. CycleInvariant => PlanIsOrdered
    <2> SUFFICES ASSUME CycleInvariant, Finished, plan.type \in Structural
                 PROVE  Ordered(e.signal, plan)
      BY DEF PlanIsOrdered
    <2>1. stage \in {"build", "execute", "done"}
      BY DEF Finished
    <2>2. plan # NoPlan
      BY DEF NoPlan, None, Structural
    <2> QED
      BY <2>1, <2>2 DEF CycleInvariant, PlanKept, Sound
  <1> QED
    BY <1>1, CycleInvariantHolds, PTL

\* No sell is executable, whatever the chart, the votes and the limits are.
THEOREM SellsAreBlocked == Spec => []NoSellIsExecutable
  <1>1. CycleInvariant => NoSellIsExecutable
    <2> SUFFICES ASSUME CycleInvariant, Finished, status \in Actionable
                 PROVE  e.signal = "BUY"
      BY DEF NoSellIsExecutable
    <2>1. stage \in {"build", "execute", "done"}
      BY DEF Finished
    <2>2. e.signal # "HOLD" /\ blocks = {}
      BY <2>1 DEF CycleInvariant, VetoesKept, ClearedByBuild, Confirmed
    <2>3. e.signal \in Directions /\ Sound(e.signal, plan) /\ ~(plan.targets[1] <= plan.entry)
      BY <2>1, <2>2 DEF CycleInvariant, PlanKept
    <2> QED
      BY <2>3 DEF Sound, Directions
  <1> QED
    BY <1>1, CycleInvariantHolds, PTL

=============================================================================
