---------------------------- MODULE NewsAnalysis ----------------------------
(***************************************************************************)
(* What one story or one macro event is taken to mean for gold: the        *)
(* keyword rules, the validation of an AI provider's answer and the clamp  *)
(* both go through (news_intelligence/ai_analyzer.py, collectors.py).      *)
(*                                                                         *)
(* A text is the set of the keyword groups found in it.  Confidences and   *)
(* impact multipliers are in hundredths, weights in thousandths.           *)
(***************************************************************************)
EXTENDS Integers, FiniteSets, FiniteSetsExt

Relevances == {"LOW", "MEDIUM", "HIGH", "CRITICAL", "UNKNOWN"}
Directions == {"UP", "DOWN", "NEUTRAL", "MIXED", "UNKNOWN"}
Impacts    == {"LOW", "MEDIUM", "HIGH", "EXTREME"}
Actions    == {"INFO_ONLY", "WEIGHT_ONLY", "RISK_REDUCE", "BLOCK_NEW_TRADES",
               "MANUAL_REVIEW"}

(* A provider's answer: any other word is read as one of these.             *)
Answers ==
  [relevance : Relevances, direction : Directions, confidence : Int,
   impact : Impacts, weight : Int, action : Actions, blocks : BOOLEAN,
   reduces : BOOLEAN, duration : Nat]

(* classify_relevance: an off-topic word decides only when no word on gold *)
(* or on its drivers is there too.                                         *)
ClassifyRelevance(words) ==
  IF "offtopic" \in words /\ words \cap {"gold", "driver"} = {} THEN "LOW"
  ELSE IF "attack" \in words THEN "CRITICAL"
  ELSE IF "gold" \in words THEN "HIGH"
  ELSE IF "driver" \in words THEN "MEDIUM"
  ELSE "UNKNOWN"

(* The first keyword group of the rules that the text holds.               *)
Tone(words) ==
  IF "conflict" \in words THEN "conflict"
  ELSE IF "hawkish" \in words THEN "hawkish"
  ELSE IF "dovish" \in words THEN "dovish"
  ELSE IF "macro" \in words THEN "macro"
  ELSE "plain"

Readings ==
  [conflict |-> [direction |-> "UP", confidence |-> 72, impact |-> "HIGH",
                 action |-> "RISK_REDUCE", reduces |-> TRUE],
   hawkish  |-> [direction |-> "DOWN", confidence |-> 66, impact |-> "MEDIUM",
                 action |-> "WEIGHT_ONLY", reduces |-> FALSE],
   dovish   |-> [direction |-> "UP", confidence |-> 66, impact |-> "MEDIUM",
                 action |-> "WEIGHT_ONLY", reduces |-> FALSE],
   macro    |-> [direction |-> "MIXED", confidence |-> 62, impact |-> "HIGH",
                 action |-> "RISK_REDUCE", reduces |-> TRUE],
   plain    |-> [direction |-> "NEUTRAL", confidence |-> 48, impact |-> "LOW",
                 action |-> "INFO_ONLY", reduces |-> FALSE]]

WeightCapForRelevance ==
  [LOW |-> 0, UNKNOWN |-> 0, MEDIUM |-> 100, HIGH |-> 200, CRITICAL |-> 350]

HighImpact(impact) == impact \in {"HIGH", "EXTREME"}

MaxWeight(high) == IF high THEN 350 ELSE 200

SuggestedWeight(relevance, impact) ==
  LET base == [LOW |-> 0, UNKNOWN |-> 0, MEDIUM |-> 80, HIGH |-> 160,
               CRITICAL |-> 250]
      tenths == [LOW |-> 4, MEDIUM |-> 7, HIGH |-> 10, EXTREME |-> 12]
  IN  (base[relevance] * tenths[impact]) \div 10

(* _clamped_action: no weight beyond what the relevance and the impact     *)
(* allow, and a validity of zero is the default validity.                  *)
ClampedWeight(relevance, weight, high) ==
  Max({0, Min({weight, WeightCapForRelevance[relevance], MaxWeight(high)})})

ValidFor(duration, default) == IF duration = 0 THEN default ELSE duration

(* _rules_for_news *)
RulesForNews(story, validity) ==
  LET relevance == IF story.relevance = "UNKNOWN"
                     THEN ClassifyRelevance(story.words) ELSE story.relevance
      reading == Readings[Tone(story.words)]
      quiet == relevance \in {"LOW", "UNKNOWN"}
  IN  [relevance |-> relevance, direction |-> reading.direction,
       confidence |-> reading.confidence, impact |-> reading.impact,
       weight |-> ClampedWeight(relevance, SuggestedWeight(relevance, reading.impact),
                                HighImpact(reading.impact)),
       action |-> IF quiet THEN "INFO_ONLY" ELSE reading.action,
       blocks |-> FALSE, reduces |-> reading.reduces /\ ~quiet,
       duration |-> ValidFor(validity, validity)]

(* _rules_for_macro: "surprise" is how the actual value compares with the  *)
(* forecast, "none" when either is missing or holds no number.             *)
RulesForMacro(event, validity) ==
  LET read == event.type \in {"CPI", "PPI", "NFP"} /\ event.surprise # "none"
      blocking == event.importance \in {"HIGH", "CRITICAL"}
  IN  [relevance |-> "CRITICAL",
       direction |-> IF read /\ event.surprise = "above" THEN "DOWN"
                     ELSE IF read /\ event.surprise = "below" THEN "UP" ELSE "MIXED",
       confidence |-> IF read THEN 76 ELSE 70, impact |-> "HIGH",
       weight |-> ClampedWeight("CRITICAL", MaxWeight(TRUE), TRUE),
       action |-> IF blocking THEN "BLOCK_NEW_TRADES" ELSE "RISK_REDUCE",
       blocks |-> blocking, reduces |-> TRUE, duration |-> validity]

(* validate_ai_payload: of a provider's answer only the weight, the        *)
(* validity and the confidence are forced into range; the action and the   *)
(* two flags are taken as they are.                                        *)
Validated(raw, validity) ==
  [raw EXCEPT !.weight = ClampedWeight(raw.relevance, @, HighImpact(raw.impact)),
              !.confidence = Max({0, Min({100, @})}),
              !.duration = ValidFor(@, validity)]
=============================================================================
