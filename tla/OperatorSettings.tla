--------------------------- MODULE OperatorSettings ---------------------------
(***************************************************************************)
(* What operators set on the dashboard beside the profiles: the weights of *)
(* the models and the risk limits (api.py), with the cycles that adapt the *)
(* weights (pipeline.py, dynamic_weights.py), and the start that loads all *)
(* of it (startup_state.py and the constructor of GoldSignalSystem).       *)
(*                                                                         *)
(* A handler occupies the event loop until it returns, but the threads of  *)
(* cycles run beside it, one statement or assignment at a time.            *)
(*                                                                         *)
(* Weights are known by their origin: the numbers of the posted weights    *)
(* that went into them.  A limit is known by whether it was posted.        *)
(***************************************************************************)
EXTENDS OptimizationProfiles

CONSTANTS
  Cycles,         \* threads that run cycles: live, validating, replaying
  Limits,         \* the fields of RiskLimits
  MaxPosts,       \* bound: weights ever posted
  MaxLapses,      \* bound: failing statements about settings
  MaxCalls        \* bound: requests and restarts

ASSUME SettingsAssumption ==
  MaxPosts \in Nat /\ MaxLapses \in Nat /\ MaxCalls \in Nat

VARIABLES
  configured,     \* system.configured_model_weights
  engine,         \* model_engine.model_weights
  last,           \* dynamic_weight_service._last_effective_weights
  limits,         \* risk_engine.limits: the fields that differ from RiskLimits()
  weightsRow,     \* system_settings: model_weights.active, 0 without a row
  stateRow,       \* model_weight_profiles: the active weights
  limitsRow,      \* system_settings: risk_limits.active
  handler,        \* the next step of POST /api/settings/model-weights
  step, base, result,   \* of each cycle
  posted, lapses, calls,
  torn            \* history: settings whose last POST met a cycle, a failed
                  \* statement or a crash

weightVars == <<configured, engine, last>>
rowVars == <<weightsRow, stateRow, limitsRow>>
cycleVars == <<step, base, result>>
settingsVars == <<weightVars, limits, rowVars, handler, cycleVars, posted, lapses, calls, torn>>

Runtimes == 0       \* ModelWeights(): the weights of the code
Nothing == {}       \* no weights, no row
Posts == Runtimes..MaxPosts

-------------------------------------------------------------------------------
(* The cycles                                                              *)

UnderWay == {c \in Cycles : step[c] # "idle"}

At(c, from, to) == step[c] = from /\ step' = [step EXCEPT ![c] = to]

Lapse == lapses < MaxLapses /\ lapses' = lapses + 1

\* A cycle that begins between the assignments of a POST meets it.
Meet == torn' = IF handler \in {"engine", "last"} THEN torn \cup {"weights"} ELSE torn

\* base_weights = dict(self.configured_model_weights.weights)
ReadBase(c) ==
  /\ At(c, "idle", "weigh")
  /\ base' = [base EXCEPT ![c] = configured]
  /\ Meet
  /\ UNCHANGED <<weightVars, limits, rowVars, handler, result, posted, lapses, calls>>

\* A model whose baseline is retained gets its configured weight, any other one
\* no more than a small step away from its last weight.
Calculated(c, retained) == {base[c]} \cup (IF retained THEN Nothing ELSE last)

Calculate(c) ==
  /\ At(c, "weigh", "install")
  /\ \E retained \in BOOLEAN : result' = [result EXCEPT ![c] = Calculated(c, retained)]
  /\ last' = result'[c]
  /\ UNCHANGED <<configured, engine, limits, rowVars, handler, base, posted, lapses, calls, torn>>

\* With bad data the weights of the engine are those of this cycle; an outcome,
\* at the end of a cycle, moves the weights of the engine (record_model_outcome).
Reuse(c) ==
  /\ At(c, "weigh", "install") \/ At(c, "idle", "install")
  /\ result' = [result EXCEPT ![c] = engine]
  /\ Meet
  /\ UNCHANGED <<weightVars, limits, rowVars, handler, base, posted, lapses, calls>>

Install(c) ==
  /\ At(c, "install", "keep")
  /\ engine' = result[c]
  /\ UNCHANGED <<configured, last, limits, rowVars, handler, base, result, posted, lapses, calls, torn>>

\* save_model_weight_state; an error ends the cycle.
Keep(c) ==
  /\ At(c, "keep", "idle")
  /\ \/ stateRow' = result[c] /\ UNCHANGED lapses
     \/ Lapse /\ UNCHANGED stateRow
  /\ base' = [base EXCEPT ![c] = Runtimes] /\ result' = [result EXCEPT ![c] = Nothing]
  /\ UNCHANGED <<weightVars, limits, weightsRow, limitsRow, handler, posted, calls, torn>>

-------------------------------------------------------------------------------
(* The requests                                                            *)

Request == handler = "idle" /\ calls < MaxCalls /\ calls' = calls + 1

\* The history of a setting that was posted: whole or torn.
Tear(setting, cut) == torn' = IF cut THEN torn \cup {setting} ELSE torn \ {setting}

\* The new weights replace those in memory, one variable after the other.
PostWeights ==
  /\ Request
  /\ posted < MaxPosts /\ posted' = posted + 1
  /\ configured' = posted + 1
  /\ Tear("weights", UnderWay # {})
  /\ handler' = "engine"
  /\ UNCHANGED <<engine, last, limits, rowVars, cycleVars, lapses>>

ReplaceEngine ==
  /\ handler = "engine" /\ handler' = "last"
  /\ engine' = {configured}
  /\ UNCHANGED <<configured, last, limits, rowVars, cycleVars, posted, lapses, calls, torn>>

\* Mutant: the last weights are kept.
KeepLast ==
  /\ handler = "last" /\ handler' = "setting"
  /\ UNCHANGED <<weightVars, limits, rowVars, cycleVars, posted, lapses, calls, torn>>

\* The adaptation starts anew.
ForgetLast ==
  /\ handler = "last" /\ handler' = "setting"
  /\ last' = Nothing
  /\ UNCHANGED <<configured, engine, limits, rowVars, cycleVars, posted, lapses, calls, torn>>

SaveWeights ==
  /\ handler = "setting" /\ handler' = "state"
  /\ weightsRow' = configured
  /\ UNCHANGED <<weightVars, limits, stateRow, limitsRow, cycleVars, posted, lapses, calls, torn>>

SaveState ==
  /\ handler = "state" /\ handler' = "idle"
  /\ stateRow' = {configured}
  /\ UNCHANGED <<weightVars, limits, weightsRow, limitsRow, cycleVars, posted, lapses, calls, torn>>

\* Either statement raises: the answer is an error and the rest is left out.
SavingFails ==
  /\ handler \in {"setting", "state"} /\ handler' = "idle"
  /\ Lapse
  /\ Tear("weights", TRUE)
  /\ UNCHANGED <<weightVars, limits, rowVars, cycleVars, posted, calls>>

\* PUT /api/models/weights/profile: the bounds of a model are kept in memory, and
\* the weights of the engine are saved.
UpdateProfile ==
  /\ Request
  /\ stateRow' = engine
  /\ UNCHANGED <<weightVars, limits, weightsRow, limitsRow, handler, cycleVars, posted, lapses, torn>>

\* Mutant: the limits in force are the base of the new ones.
OverCurrent(given) == limits \cup given

\* RiskLimits() is the base of the new limits.
OverDefaults(given) == given

PostLimits(given, ok) ==
  /\ Request
  /\ limits' = OverDefaults(given)
  /\ IF ok THEN limitsRow' = given /\ UNCHANGED lapses
           ELSE Lapse /\ UNCHANGED limitsRow
  /\ Tear("limits", ~ok)
  /\ UNCHANGED <<weightVars, weightsRow, stateRow, handler, cycleVars, posted>>

-------------------------------------------------------------------------------
(* The start                                                               *)

\* The statements that fail while the process starts: the queries of the active
\* weights, by the constructor and by the bootstrap, answer "nothing"; another
\* statement of the bootstrap, before the weights of the settings are in force,
\* after it, or where the weights are saved, ends the bootstrap.
Failing == SUBSET {"constructor", "settings", "limits", "bootstrap", "saving"}

\* The weights the constructor leaves in the engine, and as the last ones.
Built(fails) ==
  IF "constructor" \in fails \/ stateRow = Nothing THEN {weightsRow} ELSE stateRow
BuiltLast(fails) == IF "constructor" \in fails THEN Nothing ELSE stateRow

\* The bootstrap puts posted weights over them before it asks again.
Posted(fails) == IF weightsRow = Runtimes THEN Built(fails) ELSE {weightsRow}

\* The bootstrap comes to the active weights, and finds them.
Reached(fails) == fails \cap {"settings", "limits"} = {}
Found(fails) == Reached(fails) /\ "bootstrap" \notin fails /\ stateRow # Nothing

Load(fails) ==
  /\ configured' = weightsRow
  /\ limits' = limitsRow
  /\ engine' = IF "settings" \in fails THEN Built(fails)
               ELSE IF Found(fails) THEN stateRow ELSE Posted(fails)
  /\ last' = IF Found(fails) THEN stateRow ELSE BuiltLast(fails)
  /\ stateRow' = IF Reached(fails) /\ ~Found(fails) /\ "saving" \notin fails
                 THEN engine' ELSE stateRow
  /\ UNCHANGED <<weightsRow, limitsRow>>

Start(fails) ==
  /\ calls < MaxCalls /\ calls' = calls + 1
  /\ lapses + Cardinality(fails) <= MaxLapses /\ lapses' = lapses + Cardinality(fails)
  /\ Load(fails)
  /\ step' = [c \in Cycles |-> "idle"]
  /\ base' = [c \in Cycles |-> Runtimes] /\ result' = [c \in Cycles |-> Nothing]
  /\ torn' = IF handler = "idle" THEN torn ELSE torn \cup {"weights"}
  /\ handler' = "idle"
  /\ UNCHANGED posted

-------------------------------------------------------------------------------
(* Together with the profiles                                              *)

\* The process has started on empty tables; saving the weights may have failed.
SettingsInit ==
  /\ Init
  /\ configured = Runtimes /\ engine = {Runtimes} /\ last = Nothing
  /\ limits = {} /\ limitsRow = {}
  /\ weightsRow = Runtimes /\ stateRow \in {Nothing, {Runtimes}}
  /\ handler = "idle"
  /\ step = [c \in Cycles |-> "idle"]
  /\ base = [c \in Cycles |-> Runtimes] /\ result = [c \in Cycles |-> Nothing]
  /\ posted = 0 /\ lapses = 0 /\ calls = 0 /\ torn = {}

CycleStep(c) == ReadBase(c) \/ Calculate(c) \/ Reuse(c) \/ Install(c) \/ Keep(c)

SettingsStep ==
  \/ \E c \in Cycles : CycleStep(c)
  \/ PostWeights \/ ReplaceEngine \/ ForgetLast \/ SaveWeights \/ SaveState \/ SavingFails
  \/ UpdateProfile
  \/ \E given \in SUBSET Limits, ok \in BOOLEAN : PostLimits(given, ok)

\* The requests about profiles are handlers too.
ProfileRequest ==
  /\ Request
  /\ \/ \E ok \in BOOLEAN : Candidate(ok)
     \/ \E cut \in Cuts : Rollback(cut) \/ \E p \in Ids : Activate(p, cut)
  /\ UNCHANGED <<weightVars, limits, rowVars, handler, cycleVars, posted, lapses, torn>>

SettingsNext ==
  \/ SettingsStep /\ UNCHANGED vars
  \/ ProfileRequest
  \/ \E fails \in Failing, ok \in BOOLEAN : Start(fails) /\ Restart(ok)

SettingsSpec == SettingsInit /\ [][SettingsNext]_<<vars, settingsVars>>

-------------------------------------------------------------------------------
(* Properties                                                              *)

\* The weights the ensemble works with, and those it adapts them from, are those
\* the operator has configured, also after a restart: nothing is left of earlier
\* ones, unless their POST met a cycle under way, or was cut short between its
\* statements (api.py 1551-1561, pipeline.py 320-352).
WeightsAreConfigured ==
  handler = "idle" /\ "weights" \notin torn =>
    engine = {configured} /\ last \in {Nothing, {configured}}

\* "No manual dashboard setting should disappear after restart"
\* (Changes/persist_remaining_state_prompt.md): what is in force is what the next
\* start loads, unless saving it was cut short.
SettingsSurvive ==
  handler = "idle" =>
    /\ "weights" \notin torn => weightsRow = configured /\ stateRow \in {Nothing, {configured}}
    /\ "limits" \notin torn => limitsRow = limits

===============================================================================
