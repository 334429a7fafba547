------------------------ MODULE SecretMigrationProofs ------------------------
(***************************************************************************)
(* For any tenants, refs, keys and request bodies: a workflow's refs are   *)
(* covered by the papers it carries, and the workflow implements the order *)
(* of phases of MigrationPhases.                                           *)
(***************************************************************************)
EXTENDS SecretMigration, TLAPS

FlowFields == {"state", "plan", "required", "scope", "approval", "evidence"}

(* What holds of a tenant's workflow whatever the requests brought: it keeps *)
(* its fields, is in one of its states, and its refs are covered.           *)
FlowOK(f) ==
  /\ f = [x \in FlowFields |-> f[x]]
  /\ f.state \in WorkflowState
  /\ f.state \in {"approved", "staged"} => f.scope \subseteq f.approval.refs
  /\ f.state \in {"committed", "rolled_back"} => f.scope \subseteq f.evidence.refs

MigrationInv ==
  /\ workflow = [t \in SecretTenant |-> workflow[t]]
  /\ \A t \in SecretTenant : FlowOK(workflow[t])

-----------------------------------------------------------------------------
\* A workflow nothing was asked of has no refs.
LEMMA NoFlowOK == FlowOK(NoFlow)
  BY DEF FlowOK, NoFlow, WorkflowState, FlowFields

\* A request that was found in order leaves a workflow in order, in the state its
\* action leads to: what its body brought was checked against the refs it named.
LEMMA ExecutedOK ==
  ASSUME NEW t \in SecretTenant, FlowOK(workflow[t]),
         NEW b, NEW a \in Mutating, Acceptable(t, b, a)
  PROVE  /\ FlowOK(Executed(t, b, a))
         /\ Executed(t, b, a).state = Phases!To(a)
<1> DEFINE R == Required(t, b)
<1>1. CASE a = "plan"
  <2>1. Executed(t, b, a) = [NoFlow EXCEPT !.state = "planned", !.plan = b.plan,
                                           !.required = R, !.scope = R]
    BY <1>1, Zenon DEF Executed
  <2>2. Phases!To(a) = "planned"
    BY <1>1, Zenon DEF Phases!To
  <2> QED BY <2>1, <2>2 DEF FlowOK, NoFlow, WorkflowState, FlowFields
<1>2. CASE a = "approve"
  <2>1. R \subseteq b.paper.refs
    BY <1>2 DEF Acceptable, Covers
  <2>2. Executed(t, b, a) = [workflow[t] EXCEPT !.state = "approved", !.approval = b.paper,
                                                !.required = R, !.scope = R]
    BY <1>2, Zenon DEF Executed
  <2>3. Phases!To(a) = "approved"
    BY <1>2, Zenon DEF Phases!To
  <2> QED BY <2>1, <2>2, <2>3 DEF FlowOK, WorkflowState, FlowFields
<1>3. CASE a = "stage"
  <2> DEFINE P == ApprovalUsed(t, b)
  <2>1. R \subseteq P.refs
    BY <1>3 DEF Acceptable, Covers
  <2>2. Executed(t, b, a) = [workflow[t] EXCEPT !.state = "staged", !.scope = R,
                                                !.approval = P]
    BY <1>3, Zenon DEF Executed
  <2>3. Phases!To(a) = "staged"
    BY <1>3, Zenon DEF Phases!To
  <2> HIDE DEF P
  <2> QED BY <2>1, <2>2, <2>3 DEF FlowOK, WorkflowState, FlowFields
<1>4. CASE a = "commit"
  <2> DEFINE P == EvidenceUsed(t, b)
  <2>1. R \subseteq P.refs
    BY <1>4 DEF Acceptable, Covers
  <2>2. Executed(t, b, a) = [workflow[t] EXCEPT !.state = "committed", !.scope = R,
                                                !.evidence = P]
    BY <1>4, Zenon DEF Executed
  <2>3. Phases!To(a) = "committed"
    BY <1>4, Zenon DEF Phases!To
  <2> HIDE DEF P
  <2> QED BY <2>1, <2>2, <2>3 DEF FlowOK, WorkflowState, FlowFields
<1>5. CASE a = "rollback"
  <2> DEFINE P == EvidenceUsed(t, b)
  <2>1. R \subseteq P.refs
    BY <1>5 DEF Acceptable, Covers
  <2>2. Executed(t, b, a) = [workflow[t] EXCEPT !.state = "rolled_back", !.scope = R,
                                                !.evidence = P]
    BY <1>5, Zenon DEF Executed
  <2>3. Phases!To(a) = "rolled_back"
    BY <1>5, Zenon DEF Phases!To
  <2> HIDE DEF P
  <2> QED BY <2>1, <2>2, <2>3 DEF FlowOK, WorkflowState, FlowFields
<1> QED BY <1>1, <1>2, <1>3, <1>4, <1>5 DEF Mutating

\* A request is only found in order in a state its phase may be left from.
LEMMA AcceptableFrom ==
  ASSUME NEW t \in SecretTenant, NEW b, NEW a \in Mutating, Acceptable(t, b, a)
  PROVE  workflow[t].state \in Phases!From(a)
<1>1. workflow[t].state \in Allowed(a)
  BY DEF Acceptable
<1>2. Allowed(a) = Phases!From(a)
  <2>1. WorkflowState = Phases!Phase
    BY DEF WorkflowState, Phases!Phase
  <2>2. CASE a = "plan"
    BY <2>1, <2>2, Zenon DEF Allowed, Phases!From
  <2>3. CASE a = "approve"
    BY <2>3, Zenon DEF Allowed, Phases!From
  <2>4. CASE a = "stage"
    BY <2>4, Zenon DEF Allowed, Phases!From
  <2>5. CASE a = "commit"
    BY <2>5, Zenon DEF Allowed, Phases!From
  <2>6. CASE a = "rollback"
    BY <2>6, Zenon DEF Allowed, Phases!From
  <2> QED BY <2>2, <2>3, <2>4, <2>5, <2>6 DEF Mutating
<1> QED BY <1>1, <1>2

-----------------------------------------------------------------------------
\* Initially no workflow has refs to cover.
LEMMA InitInv == MigrationInit => MigrationInv
  BY NoFlowOK DEF MigrationInit, MigrationInv

\* A request keeps every workflow in order.
LEMMA RequestInv ==
  ASSUME MigrationInv, NEW t \in SecretTenant, NEW a \in Mutating, NEW k, NEW b,
         Request(t, a, k, b)
  PROVE  MigrationInv'
<1>1. CASE Acceptable(t, b, a)
  <2>1. FlowOK(Executed(t, b, a))
    BY <1>1, ExecutedOK DEF MigrationInv
  <2>2. workflow' = [workflow EXCEPT ![t] = Executed(t, b, a)]
    BY <1>1 DEF Request
  <2>3. ASSUME NEW u \in SecretTenant
        PROVE  FlowOK(workflow'[u])
    BY <2>1, <2>2 DEF MigrationInv
  <2>4. workflow' = [u \in SecretTenant |-> workflow'[u]]
    BY <2>2 DEF MigrationInv
  <2> QED BY <2>3, <2>4 DEF MigrationInv
<1>2. CASE ~ Acceptable(t, b, a)
  BY <1>2 DEF Request, MigrationInv
<1> QED BY <1>1, <1>2

\* So does every step, a restart included.
LEMMA StepInv == MigrationInv /\ [MigrationNext]_migrationVars => MigrationInv'
<1> SUFFICES ASSUME MigrationInv, [MigrationNext]_migrationVars
             PROVE  MigrationInv'
  OBVIOUS
<1>1. ASSUME NEW t \in SecretTenant, NEW a \in Mutating, NEW k \in Key \cup {Fresh},
             NEW b \in BodyOf[t], Request(t, a, k, b)
      PROVE  MigrationInv'
  BY <1>1, RequestInv
<1>2. CASE ServerRestarts
  BY <1>2, NoFlowOK DEF ServerRestarts, MigrationInv
<1>3. CASE UNCHANGED migrationVars
  BY <1>3 DEF migrationVars, MigrationInv
<1> QED BY <1>1, <1>2, <1>3 DEF MigrationNext

\* What the type invariant says of a tenant's workflow.
TypedFlow(t, f) ==
  /\ f.state \in WorkflowState
  /\ f.plan \subseteq OpStatus
  /\ f.required \cup f.scope \subseteq OwnRefs(t)
  /\ f.approval.refs \cup f.evidence.refs \subseteq OwnRefs(t)

\* A request that was found in order leaves its tenant's refs and papers the tenant's own.
LEMMA ExecutedTyped ==
  ASSUME NEW t \in SecretTenant, FlowOK(workflow[t]), TypedFlow(t, workflow[t]),
         NEW b \in BodyOf[t], NEW a \in Mutating, Acceptable(t, b, a)
  PROVE  TypedFlow(t, Executed(t, b, a))
<1> DEFINE R == Required(t, b)
<1>1. R \subseteq OwnRefs(t) BY DEF Acceptable
<1>2. CASE a = "plan"
  <2>1. Executed(t, b, a) = [NoFlow EXCEPT !.state = "planned", !.plan = b.plan,
                                           !.required = R, !.scope = R]
    BY <1>2, Zenon DEF Executed
  <2>2. b.plan \subseteq OpStatus BY BodyAssumption
  <2> HIDE DEF R
  <2>3. QED BY <1>1, <2>1, <2>2 DEF TypedFlow, NoFlow, NoPaper, WorkflowState
<1>3. CASE a = "approve"
  <2>1. Executed(t, b, a) = [workflow[t] EXCEPT !.state = "approved", !.approval = b.paper,
                                                !.required = R, !.scope = R]
    BY <1>3, Zenon DEF Executed
  <2>2. b.paper.refs \subseteq OwnRefs(t) BY <1>3 DEF Acceptable, Covers
  <2> HIDE DEF R
  <2>3. QED BY <1>1, <2>1, <2>2 DEF FlowOK, FlowFields, TypedFlow, WorkflowState
<1>4. CASE a = "stage"
  <2> DEFINE P == ApprovalUsed(t, b)
  <2>1. Executed(t, b, a) = [workflow[t] EXCEPT !.state = "staged", !.scope = R,
                                                !.approval = P]
    BY <1>4, Zenon DEF Executed
  <2>2. P.refs \subseteq OwnRefs(t) BY <1>4 DEF Acceptable, Covers
  <2> HIDE DEF P, R
  <2>3. QED BY <1>1, <2>1, <2>2 DEF FlowOK, FlowFields, TypedFlow, WorkflowState
<1>5. CASE a \in {"commit", "rollback"}
  <2> DEFINE P == EvidenceUsed(t, b)
  <2>1. P.refs \subseteq OwnRefs(t) BY <1>5 DEF Acceptable, Covers
  <2>2. PICK s \in WorkflowState :
          Executed(t, b, a) = [workflow[t] EXCEPT !.state = s, !.scope = R, !.evidence = P]
    <3>1. CASE a = "commit"
      <4>1. Executed(t, b, a) = [workflow[t] EXCEPT !.state = "committed", !.scope = R,
                                                    !.evidence = P]
        BY <3>1, Zenon DEF Executed
      <4>2. QED BY <4>1 DEF WorkflowState
    <3>2. CASE a = "rollback"
      <4>1. Executed(t, b, a) = [workflow[t] EXCEPT !.state = "rolled_back", !.scope = R,
                                                    !.evidence = P]
        BY <3>2, Zenon DEF Executed
      <4>2. QED BY <4>1 DEF WorkflowState
    <3>3. QED BY <1>5, <3>1, <3>2
  <2> HIDE DEF P, R
  <2>3. QED BY <1>1, <2>1, <2>2 DEF FlowOK, FlowFields, TypedFlow
<1>6. QED BY <1>2, <1>3, <1>4, <1>5 DEF Mutating

\* The invariant, over all behaviours of the workflow.
THEOREM MigrationInvariant == MigrationSpec => []MigrationInv
<1> QED BY InitInv, StepInv, PTL DEF MigrationSpec

\* Every workflow is in one of its states, and the refs and papers it keeps are its tenant's.
THEOREM MigrationTyped == MigrationSpec => []MigrationTypeOK
<1>1. MigrationInit => MigrationTypeOK
  BY DEF MigrationInit, MigrationTypeOK, NoFlow, NoPaper, WorkflowState
<1>2. MigrationInv /\ MigrationTypeOK /\ [MigrationNext]_migrationVars => MigrationTypeOK'
  <2>1. SUFFICES ASSUME MigrationInv, MigrationTypeOK, [MigrationNext]_migrationVars
                 PROVE  MigrationTypeOK'
    OBVIOUS
  <2>2. ASSUME NEW t \in SecretTenant, NEW a \in Mutating, NEW k \in Key \cup {Fresh},
               NEW b \in BodyOf[t], Request(t, a, k, b)
        PROVE  MigrationTypeOK'
    <3>1. sent' \subseteq SecretTenant \X Mutating \X Key
      BY <2>1, <2>2 DEF Request, Remembered, MigrationTypeOK
    <3>2. \A u \in SecretTenant : TypedFlow(u, workflow[u])
      BY <2>1 DEF MigrationTypeOK, TypedFlow
    <3>3. \A u \in SecretTenant : TypedFlow(u, workflow'[u])
      <4>1. CASE Acceptable(t, b, a)
        <5>1. TypedFlow(t, Executed(t, b, a))
          BY <2>1, <3>2, <4>1, ExecutedTyped DEF MigrationInv
        <5>2. workflow' = [workflow EXCEPT ![t] = Executed(t, b, a)]
          BY <2>2, <4>1 DEF Request
        <5>3. QED BY <2>1, <3>2, <5>1, <5>2 DEF MigrationInv
      <4>2. CASE ~ Acceptable(t, b, a) BY <2>2, <3>2, <4>2 DEF Request
      <4>3. QED BY <4>1, <4>2
    <3>4. QED BY <3>1, <3>3 DEF TypedFlow, MigrationTypeOK
  <2>3. CASE ServerRestarts
    BY <2>3 DEF ServerRestarts, MigrationTypeOK, NoFlow, NoPaper, WorkflowState
  <2>4. CASE UNCHANGED migrationVars
    BY <2>1, <2>4 DEF migrationVars, MigrationTypeOK
  <2>5. QED BY <2>1, <2>2, <2>3, <2>4 DEF MigrationNext
<1>3. QED BY <1>1, <1>2, MigrationInvariant, PTL DEF MigrationSpec

\* Whatever refs and papers each request brings, for any tenants: the refs of a workflow
\* are covered by the approval it carries, and from the commit on by its evidence.
THEOREM MigrationScopeCovered == MigrationSpec => []ScopeIsCovered
<1>1. MigrationInv => ScopeIsCovered
  BY DEF MigrationInv, FlowOK, ScopeIsCovered
<1> QED BY <1>1, MigrationInvariant, PTL

-----------------------------------------------------------------------------
\* A request moves its tenant's phase along, or none.
LEMMA RequestAdvances ==
  ASSUME MigrationInv, NEW t \in SecretTenant, NEW a \in Mutating, NEW k, NEW b,
         Request(t, a, k, b)
  PROVE  Phases!Advance(t, a) \/ UNCHANGED [u \in SecretTenant |-> workflow[u].state]
<1>1. CASE Acceptable(t, b, a)
  <2>1. workflow[t].state \in Phases!From(a)
    BY <1>1, AcceptableFrom
  <2>2. Executed(t, b, a).state = Phases!To(a)
    BY <1>1, ExecutedOK DEF MigrationInv
  <2>3. workflow' = [workflow EXCEPT ![t] = Executed(t, b, a)]
    BY <1>1 DEF Request
  <2>4. ASSUME NEW u \in SecretTenant
        PROVE  workflow'[u].state = IF u = t THEN Phases!To(a) ELSE workflow[u].state
    BY <2>2, <2>3 DEF MigrationInv
  <2>5. [u \in SecretTenant |-> workflow[u].state]'
          = [[u \in SecretTenant |-> workflow[u].state] EXCEPT ![t] = Phases!To(a)]
    BY <2>4
  <2> QED BY <2>1, <2>5 DEF Phases!Advance
<1>2. CASE ~ Acceptable(t, b, a)
  BY <1>2 DEF Request
<1> QED BY <1>1, <1>2

\* A step of the workflow is a step of its phases, or none.
LEMMA StepAdvances ==
  MigrationInv /\ [MigrationNext]_migrationVars
    => [Phases!PhaseNext]_([t \in SecretTenant |-> workflow[t].state])
<1> SUFFICES ASSUME MigrationInv, [MigrationNext]_migrationVars
             PROVE  [Phases!PhaseNext]_([t \in SecretTenant |-> workflow[t].state])
  OBVIOUS
<1>1. ASSUME NEW s \in SecretTenant, NEW a \in Mutating, NEW k \in Key \cup {Fresh},
             NEW b \in BodyOf[s], Request(s, a, k, b)
      PROVE  Phases!PhaseNext \/ UNCHANGED [t \in SecretTenant |-> workflow[t].state]
  <2>1. Phases!Advance(s, a) \/ UNCHANGED [t \in SecretTenant |-> workflow[t].state]
    BY <1>1, RequestAdvances
  <2>2. a \in Phases!Action
    BY DEF Mutating, Phases!Action
  <2> QED BY <2>1, <2>2 DEF Phases!PhaseNext
<1>2. CASE ServerRestarts
  <2>1. [t \in SecretTenant |-> workflow[t].state]' = [t \in SecretTenant |-> "none"]
    BY <1>2 DEF ServerRestarts, NoFlow
  <2> QED BY <2>1 DEF Phases!PhaseNext, Phases!Forget
<1>3. CASE UNCHANGED migrationVars
  BY <1>3 DEF migrationVars
<1> QED BY <1>1, <1>2, <1>3 DEF MigrationNext

\* The workflow implements the order of phases: every request, retry and restart is a
\* step of MigrationPhases or none.
THEOREM MigrationInPhases == MigrationSpec => KeepsPhases
<1>1. MigrationInit => Phases!PhaseInit
  BY DEF MigrationInit, Phases!PhaseInit, NoFlow
<1>2. MigrationInv /\ [MigrationNext]_migrationVars
        => [Phases!PhaseNext]_([t \in SecretTenant |-> workflow[t].state])
  BY StepAdvances
<1>3. MigrationSpec => []MigrationInv
  BY MigrationInvariant
<1>4. MigrationSpec => Phases!PhaseSpec
  BY <1>1, <1>2, <1>3, PTL DEF MigrationSpec, Phases!PhaseSpec
<1> QED BY <1>4 DEF KeepsPhases
=============================================================================
