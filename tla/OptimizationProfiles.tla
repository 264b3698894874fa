------------------------ MODULE OptimizationProfiles ------------------------
(***************************************************************************)
(* The strategy profiles of ThresholdOptimizationService (optimization.py) *)
(* in memory and in the table optimization_profiles, and the thresholds    *)
(* the strategy works with (api.py).                                       *)
(*                                                                         *)
(* Every operation runs on the event loop without an await, so it is one   *)
(* step.  A statement of the storage that fails raises and cuts the        *)
(* operation short; a crash is such a cut followed by a restart.           *)
(***************************************************************************)
EXTENDS Naturals, Sequences, FiniteSets

CONSTANTS
  MaxProfiles,    \* bound: ids of profiles
  MaxMade,        \* bound: profiles ever made
  MaxStack,       \* bound: activations that can be rolled back
  MaxFaults       \* bound: statements that fail

ASSUME BoundAssumption ==
  /\ MaxProfiles \in Nat \ {0} /\ MaxMade \in Nat \ {0}
  /\ MaxStack \in Nat /\ MaxFaults \in Nat

VARIABLES
  rows,           \* optimization_profiles: parameters_json by profile_id
  flags,          \* the rows with is_active
  profiles,       \* self.profiles
  stack,          \* self.rollback_stack
  thresholds,     \* the parameters in system.strategy_brain.threshold_profile
  made,           \* history: parameters made so far, each with a number
  faults          \* history: statements that failed

vars == <<rows, flags, profiles, stack, thresholds, made, faults>>

Ids  == 1..MaxProfiles
Made == 1..MaxMade
None == 0           \* no such row, no profile
Runtime == 0        \* thresholds from the environment

Profile == [id : Ids, params : Made, active : BOOLEAN]
Default == [id |-> 1, params |-> 1, active |-> TRUE]

Saved == {p \in Ids : rows[p] # None}

-------------------------------------------------------------------------------

\* list_optimization_profiles orders by profile_id.
SavedAt(n) == CHOOSE p \in Saved : Cardinality({q \in Saved : q <= p}) = n

Loaded ==
  [n \in 1..Cardinality(Saved) |->
     [id |-> SavedAt(n), params |-> rows[SavedAt(n)], active |-> SavedAt(n) \in flags]]

\* next(profile for profile in list if ...): the first one, or nothing.
First(S) == IF S = {} THEN None ELSE CHOOSE i \in S : \A j \in S : i <= j

Find(list, p) == First({i \in DOMAIN list : list[i].id = p})

Current(list) == First({i \in DOMAIN list : list[i].active})

-------------------------------------------------------------------------------
(* A candidate of start().  An optimization that makes several is several  *)
(* of these steps.                                                         *)

Fault(ok) == IF ok THEN faults ELSE faults + 1

\* Mutant: ids from zero.
NewIdReused == Len(profiles)

NewId == Len(profiles) + 1

Candidate(ok) ==
  /\ NewId \in Ids /\ made < MaxMade
  /\ ok \/ faults < MaxFaults
  /\ made' = made + 1
  /\ profiles' = Append(profiles, [id |-> NewId, params |-> made + 1, active |-> FALSE])
  /\ IF ok THEN /\ rows' = [rows EXCEPT ![NewId] = made + 1]
                /\ flags' = flags \ {NewId}
           ELSE UNCHANGED <<rows, flags>>
  /\ faults' = Fault(ok)
  /\ UNCHANGED <<stack, thresholds>>

-------------------------------------------------------------------------------
(* activate() and rollback() with the endpoint that called them            *)

\* How far set_active_optimization_profile came: "before" the first update,
\* "between" the two, "after" them (the rollback record failed), or "ok".
Cuts == {"before", "between", "after", "ok"}

Flagged(p, cut) ==
  IF cut = "before" THEN flags ELSE IF cut = "between" THEN {} ELSE {p} \cap Saved

\* The endpoint sets the thresholds when the service has returned OK.
Told(params, cut) == IF cut = "ok" THEN params ELSE thresholds

\* Profile i of the list becomes the active one.
Switch(list, i, cut) ==
  /\ cut = "ok" \/ faults < MaxFaults
  /\ profiles' = [j \in DOMAIN list |-> [list[j] EXCEPT !.active = (j = i)]]
  /\ flags' = Flagged(list[i].id, cut)
  /\ thresholds' = Told(list[i].params, cut)
  /\ faults' = Fault(cut = "ok")
  /\ UNCHANGED <<rows, made>>

\* Mutant: the profile that becomes active is pushed.
PushNew(list, p) == Append(stack, p)

Push(list, p) ==
  IF Current(list) = None THEN stack ELSE Append(stack, list[Current(list)].id)

\* A profile that is not in memory is looked for in the table.
Activate(p, cut) ==
  LET list == IF Find(profiles, p) # None THEN profiles ELSE Loaded
      i == Find(list, p)
  IN /\ Len(stack) < MaxStack
     /\ IF i = None THEN /\ profiles' = list
                         /\ UNCHANGED <<rows, flags, stack, thresholds, made, faults>>
                    ELSE /\ stack' = Push(list, p)
                         /\ Switch(list, i, cut)

\* Without a past: the last row that is not active.
Fallback ==
  LET others == Saved \ flags
  IN IF others = {} THEN <<>> ELSE <<CHOOSE p \in others : \A q \in others : q <= p>>

\* Mutant: the endpoint returns the result and tells nobody.
RollbackUntold(cut) ==
  LET i == Find(profiles, stack[Len(stack)])
  IN /\ stack # <<>> /\ i # None
     /\ stack' = SubSeq(stack, 1, Len(stack) - 1)
     /\ profiles' = [j \in DOMAIN profiles |-> [profiles[j] EXCEPT !.active = (j = i)]]
     /\ flags' = Flagged(profiles[i].id, cut)
     /\ faults' = Fault(cut = "ok")
     /\ UNCHANGED <<rows, thresholds, made>>

Rollback(cut) ==
  LET past == IF stack = <<>> THEN Fallback ELSE stack
      i == Find(profiles, past[Len(past)])
  IN /\ past # <<>>
     /\ stack' = SubSeq(past, 1, Len(past) - 1)
     /\ IF i = None THEN UNCHANGED <<rows, flags, profiles, thresholds, made, faults>>
                    ELSE Switch(profiles, i, cut)

\* The process starts: the constructor and bootstrap_runtime_state reload the
\* profiles; nobody loads the thresholds.  A list that fails leaves the default.
Restart(ok) ==
  /\ ok \/ faults < MaxFaults
  /\ profiles' = IF ok THEN Loaded ELSE <<Default>>
  /\ stack' = <<>>
  /\ thresholds' = Runtime
  /\ faults' = Fault(ok)
  /\ UNCHANGED <<rows, flags, made>>

Init ==
  /\ rows = [p \in Ids |-> IF p = 1 THEN 1 ELSE None] /\ flags = {1}
  /\ profiles = <<Default>> /\ stack = <<>>
  /\ thresholds = Runtime
  /\ made = 1 /\ faults = 0

Next ==
  \/ \E ok \in BOOLEAN : Candidate(ok) \/ Restart(ok)
  \/ \E cut \in Cuts : Rollback(cut) \/ \E p \in Ids : Activate(p, cut)

Spec == Init /\ [][Next]_vars

-------------------------------------------------------------------------------
(* Properties                                                              *)

ActiveId == IF Current(profiles) = None THEN None ELSE profiles[Current(profiles)].id

\* As long as no statement fails, the profile that is active in memory is the one
\* in the table, and the strategy works with its parameters; only after a start it
\* has those of the environment, until a profile is activated or rolled back.
ThresholdsFollow ==
  faults = 0 => /\ flags = {ActiveId}
                /\ thresholds \in {Runtime, rows[ActiveId]}

\* Changes/production_hardening_tasks/04_threshold_optimization.md:90: as long as
\* no statement fails, no optimization replaces the parameters of a saved profile.
ProfilesPreserved ==
  [][faults' = 0 => \A p \in Saved : rows'[p] = rows[p]]_vars

\* Activations, rollbacks and restarts are those of ProfileHistory.
History == INSTANCE ProfileHistory
             WITH Profiles <- Ids, active <- ActiveId, past <- stack, broken <- faults > 0

UndoHistory == History!Spec

=============================================================================
