--------------------------- MODULE SecretMigration ---------------------------
(***************************************************************************)
(* The metadata-only secret migration workflow: routes, API with its       *)
(* idempotency store, and state machine (webui/secret-migration*.js,       *)
(* webui/secrets-migration*.js).                                           *)
(*                                                                         *)
(* The broker the API builds for a stage keeps its metadata in memory, so  *)
(* no handler waits for I/O and each request is one step.  A manifest or   *)
(* rollback evidence is its secret refs and whether all else in it (kind,  *)
(* state, tenant, signatures, hash, checkpoints, plan) is in order.        *)
(***************************************************************************)
EXTENDS FiniteSets

CONSTANTS
  SecretTenant,
  Ref,         (* secret refs                                               *)
  TenantOfRef,
  Key,         (* idempotency keys that may be sent more than once          *)
  Fresh,       (* stands for every key that is sent only once               *)
  BodyOf       (* the request bodies each tenant's operators send           *)

ASSUME MigrationAssumption ==
  /\ TenantOfRef \in [Ref -> SecretTenant]
  /\ Fresh \notin Key

VARIABLES
  workflow,     (* the tenant records, with their workflow                      *)
  sent      (* the idempotency store: requests that have been answered      *)

migrationVars == <<workflow, sent>>

-----------------------------------------------------------------------------
NoPaper == [given |-> FALSE, sound |-> FALSE, refs |-> {}]
NoFlow  == [state |-> "none", plan |-> {}, required |-> {}, scope |-> {},
            approval |-> NoPaper, evidence |-> NoPaper]

WorkflowState == {"none", "planned", "approved", "staged", "committed", "rolled_back"}

OwnRefs(t) == {r \in Ref : TenantOfRef[r] = t}

\* What an operation of a plan is about: a plaintext without a secure copy, with
\* one, or with a name that is no secret's.
OpStatus == {"pending", "secure-copy", "invalid-name"}

ASSUME BodyAssumption ==
  \A t \in SecretTenant : \A b \in BodyOf[t] : b.plan \subseteq OpStatus

\* The refs an action is about: the body's, even if they are none, or else the recorded.
Required(t, b) == IF b.said THEN b.refs ELSE workflow[t].required

\* Wrong variant: the required refs need not be among those the paper names.
CoversLoosely(t, p, R, needed) ==
  p.given /\ p.sound /\ p.refs \subseteq OwnRefs(t) /\ (needed => p.refs # {})

\* validateSecretMigrationApprovalManifest and validateSecretMigrationRollbackEvidence.
Covers(t, p, R, needed) ==
  /\ p.given
  /\ p.sound
  /\ p.refs \subseteq OwnRefs(t)
  /\ R \subseteq p.refs
  /\ needed => p.refs # {}

\* The execution contract: every operation could have its plaintext retired.
ReadyToRetire(plan) == plan \subseteq {"secure-copy"}

\* Wrong variant: what was approved may be committed without being staged.
AllowedEarly(a) ==
  CASE a = "plan"     -> WorkflowState
    [] a = "approve"  -> {"planned"}
    [] a = "stage"    -> {"approved"}
    [] a = "commit"   -> {"approved", "staged"}
    [] a = "rollback" -> {"staged", "committed"}

\* The states a transition is allowed from; a plan starts over from any.
Allowed(a) ==
  CASE a = "plan"     -> WorkflowState
    [] a = "approve"  -> {"planned"}
    [] a = "stage"    -> {"approved"}
    [] a = "commit"   -> {"staged"}
    [] a = "rollback" -> {"staged", "committed"}

\* A stage, commit or rollback takes the paper of the body, or else the stored one.
ApprovalUsed(t, b) == IF b.paper.given THEN b.paper ELSE workflow[t].approval
EvidenceUsed(t, b) == IF b.paper.given THEN b.paper ELSE workflow[t].evidence

\* Nothing is found against the action.
Acceptable(t, b, a) ==
  /\ workflow[t].state \in Allowed(a)
  /\ Required(t, b) \subseteq OwnRefs(t)
  /\ LET needed == workflow[t].plan # {} \/ Required(t, b) # {}
     IN  \/ a = "plan"    /\ b.planSound
         \/ a = "approve" /\ Covers(t, b.paper, Required(t, b), needed)
         \/ /\ a = "stage"
            /\ Covers(t, ApprovalUsed(t, b), Required(t, b), needed)
            /\ b.brokerFit
            /\ ReadyToRetire(workflow[t].plan)
         \/ /\ a \in {"commit", "rollback"}
            /\ Covers(t, EvidenceUsed(t, b), Required(t, b), FALSE)

\* What the action makes of the record: only plan and approve note the refs.
Executed(t, b, a) ==
  LET R == Required(t, b)
  IN  CASE a = "plan"     -> [NoFlow EXCEPT !.state = "planned", !.plan = b.plan,
                                            !.required = R, !.scope = R]
        [] a = "approve"  -> [workflow[t] EXCEPT !.state = "approved", !.approval = b.paper,
                                             !.required = R, !.scope = R]
        [] a = "stage"    -> [workflow[t] EXCEPT !.state = "staged", !.scope = R,
                                             !.approval = ApprovalUsed(t, b)]
        [] a = "commit"   -> [workflow[t] EXCEPT !.state = "committed", !.scope = R,
                                             !.evidence = EvidenceUsed(t, b)]
        [] a = "rollback" -> [workflow[t] EXCEPT !.state = "rolled_back", !.scope = R,
                                             !.evidence = EvidenceUsed(t, b)]

Mutating == {"plan", "approve", "stage", "commit", "rollback"}

\* A key that was answered is a replay or, with another body, a conflict: neither
\* executes anything, whatever the first answer was.
Unanswered(t, a, k) == <<t, a, k>> \notin sent

Remembered(t, a, k) == IF k = Fresh THEN sent ELSE sent \cup {<<t, a, k>>}

\* One mutating request past the gate: its context's tenant is t and its role is one
\* of an operator's, and neither the body nor the URL names another tenant.  Whether
\* it was executed or found wanting, its answer is remembered.
Request(t, a, k, b) ==
  /\ Unanswered(t, a, k)
  /\ sent' = Remembered(t, a, k)
  /\ workflow' = IF Acceptable(t, b, a) THEN [workflow EXCEPT ![t] = Executed(t, b, a)] ELSE workflow

\* Both stores are in the server's memory.
ServerRestarts ==
  /\ workflow' = [t \in SecretTenant |-> NoFlow]
  /\ sent' = {}

MigrationInit ==
  /\ workflow = [t \in SecretTenant |-> NoFlow]
  /\ sent = {}

MigrationNext ==
  \/ \E t \in SecretTenant, a \in Mutating, k \in Key \cup {Fresh} :
       \E b \in BodyOf[t] : Request(t, a, k, b)
  \/ ServerRestarts

MigrationSpec == MigrationInit /\ [][MigrationNext]_migrationVars

-----------------------------------------------------------------------------
\* Every variable has its type; a record holds refs of its own tenant only.
MigrationTypeOK ==
  /\ \A t \in SecretTenant :
       /\ workflow[t].state \in WorkflowState
       /\ workflow[t].plan \subseteq OpStatus
       /\ workflow[t].required \cup workflow[t].scope \subseteq OwnRefs(t)
       /\ workflow[t].approval.refs \cup workflow[t].evidence.refs \subseteq OwnRefs(t)
  /\ sent \subseteq SecretTenant \X Mutating \X Key

\* Until it is committed, a workflow's refs are covered by the approval it carries;
\* from then on by the rollback evidence it carries, although each request may name
\* other refs, and other papers, than the one before.
ScopeIsCovered ==
  \A t \in SecretTenant :
    /\ workflow[t].state \in {"approved", "staged"} => workflow[t].scope \subseteq workflow[t].approval.refs
    /\ workflow[t].state \in {"committed", "rolled_back"} => workflow[t].scope \subseteq workflow[t].evidence.refs

Phases == INSTANCE MigrationPhases WITH
  Tenant <- SecretTenant,
  phase <- [t \in SecretTenant |-> workflow[t].state]

\* Under retries, conflicts, new plans and restarts the workflow keeps the promised
\* order of phases.
KeepsPhases == Phases!PhaseSpec
=============================================================================
