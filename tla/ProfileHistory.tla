--------------------------- MODULE ProfileHistory ---------------------------
(***************************************************************************)
(* What the activation and the rollback of strategy profiles promise: a    *)
(* rollback returns to the profile that was active before, and a restart   *)
(* keeps the active profile and forgets the way to it.  Nothing is         *)
(* promised once a statement of the storage has failed.                    *)
(***************************************************************************)
EXTENDS Naturals, Sequences

CONSTANT Profiles

VARIABLES
  active,         \* the active profile
  past,           \* the profiles a rollback returns to, the last one first
  broken          \* a statement of the storage has failed

vars == <<active, past, broken>>

Init == active \in Profiles /\ past = <<>> /\ broken = FALSE

Activate(p) ==
  /\ active' = p
  /\ past' = Append(past, active)

Rollback ==
  /\ past # <<>>
  /\ active' = past[Len(past)]
  /\ past' = SubSeq(past, 1, Len(past) - 1)

\* Without a past any other profile may be meant.
RollbackBlindly ==
  /\ past = <<>>
  /\ active' \in Profiles \ {active}
  /\ UNCHANGED past

Restart ==
  /\ past' = <<>>
  /\ UNCHANGED active

Next ==
  \/ /\ broken' = FALSE
     /\ (\E p \in Profiles : Activate(p)) \/ Rollback \/ RollbackBlindly \/ Restart
  \/ broken' = TRUE

\* What has failed stays failed.
StaysBroken == broken => broken'

Spec == Init /\ [][Next /\ StaysBroken]_vars

=============================================================================
