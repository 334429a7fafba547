--------------------------- MODULE MigrationPhases ---------------------------
(***************************************************************************)
(* What the secret migration workflow promises of a tenant: a plan is      *)
(* approved, then staged, then committed; it may be rolled back once it is *)
(* staged; planning anew starts over.                                      *)
(***************************************************************************)
CONSTANT Tenant

VARIABLE phase

Phase  == {"none", "planned", "approved", "staged", "committed", "rolled_back"}
Action == {"plan", "approve", "stage", "commit", "rollback"}

From(a) ==
  CASE a = "plan"     -> Phase
    [] a = "approve"  -> {"planned"}
    [] a = "stage"    -> {"approved"}
    [] a = "commit"   -> {"staged"}
    [] a = "rollback" -> {"staged", "committed"}

To(a) ==
  CASE a = "plan"     -> "planned"
    [] a = "approve"  -> "approved"
    [] a = "stage"    -> "staged"
    [] a = "commit"   -> "committed"
    [] a = "rollback" -> "rolled_back"

PhaseInit == phase = [t \in Tenant |-> "none"]

Advance(t, a) ==
  /\ phase[t] \in From(a)
  /\ phase' = [phase EXCEPT ![t] = To(a)]

\* A restart of the server forgets every workflow.
Forget == phase' = [t \in Tenant |-> "none"]

PhaseNext == Forget \/ \E t \in Tenant, a \in Action : Advance(t, a)

PhaseSpec == PhaseInit /\ [][PhaseNext]_phase
=============================================================================
