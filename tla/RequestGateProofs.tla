-------------------------- MODULE RequestGateProofs --------------------------
(***************************************************************************)
(* What the server lets through, proved for every set of requests,         *)
(* sessions, roles, system records, settings, flows and environments: the  *)
(* gates of http requests, of a run's egress and of a flow's replay.       *)
(***************************************************************************)
EXTENDS WebAccess, Egress, FlowReplay, TLAPS

-----------------------------------------------------------------------------
(* Requests.                                                                *)

\* What is awaited is a change, by an identity there was.
AccessInv ==
  /\ AccessTypeOK
  /\ \A p \in pending : p.request.route \in Posts
  /\ LiveActIsGated

\* The identity of a request that has one is one of those configured.
LEMMA IdentityIsKnown ==
  ASSUME NEW r, HasIdentity(r)
  PROVE  Identity(r) \in Identities
BY DEF HasIdentity, Identity, Identities, ByBearer, ByCookie, Valid

\* What the routes behind the page gate ask for.
LEMMA LiveAsksForBoth ==
  ASSUME NEW r, r.route = "confirm" \/ (r.route = "approve" /\ r.live)
  PROVE  RequiredForPost(r) = {"live-action", "approve"}
<1>1. r.route \notin {"logout", "run", "record", "deletion"} /\ ~ (r.route = "approve" /\ ~ r.live)
  OBVIOUS
<1>2. QED BY <1>1, Zenon DEF RequiredForPost

\* The invariant holds at the start.
LEMMA AccessInitOK == AccessInit => AccessInv
<1>1. MaxTime \in Nat BY WebAccessAssumption
<1>2. QED BY <1>1 DEF AccessInit, AccessInv, AccessTypeOK, LiveActIsGated, NoneDone

\* Every step keeps it: the pages served only grow until a restart forgets the last act.
LEMMA AccessStep == AccessInv /\ [AccessNext]_accessVars => AccessInv'
<1> SUFFICES ASSUME AccessInv, [AccessNext]_accessVars PROVE AccessInv'
  OBVIOUS
<1>1. ASSUME NEW r \in Requests, Get(r) PROVE AccessInv'
  <2>1. pages \subseteq pages' /\ pages' \subseteq Page
    BY <1>1 DEF Get, AccessInv, AccessTypeOK
  <2>2. streams' \subseteq Identities
    <3>1. streams' \in {streams, streams \cup {Identity(r)}} /\ HasIdentity(r)
      BY <1>1 DEF Get, LetIn
    <3>2. streams \subseteq Identities BY DEF AccessInv, AccessTypeOK
    <3>3. Identity(r) \in Identities BY <3>1, IdentityIsKnown
    <3>4. QED BY <3>1, <3>2, <3>3
  <2>3. UNCHANGED <<now, loggedOut, pending, done>>
    BY <1>1 DEF Get
  <2>4. AccessTypeOK'
    BY <2>1, <2>2, <2>3 DEF AccessInv, AccessTypeOK
  <2>5. LiveActIsGated'
    BY <2>1, <2>3 DEF AccessInv, LiveActIsGated
  <2>6. QED BY <2>3, <2>4, <2>5 DEF AccessInv
<1>2. ASSUME NEW r \in Requests, PostArrives(r) PROVE AccessInv'
  <2> DEFINE p == [request |-> r, who |-> Identity(r)]
  <2>1. pending' = pending \cup {p} /\ r.route \in Posts
    BY <1>2 DEF PostArrives
  <2>2. p \in [request : Requests, who : Identities] /\ p.request.route \in Posts
    BY <1>2, <2>1, IdentityIsKnown DEF PostArrives, LetIn
  <2>3. UNCHANGED <<now, loggedOut, pages, streams, done>>
    BY <1>2 DEF PostArrives
  <2>4. AccessTypeOK' /\ LiveActIsGated'
    <3> HIDE DEF p
    <3> QED BY <2>1, <2>2, <2>3 DEF AccessInv, AccessTypeOK, LiveActIsGated
  <2>5. \A q \in pending' : q.request.route \in Posts
    <3> HIDE DEF p
    <3> QED BY <2>1, <2>2 DEF AccessInv
  <2>6. QED BY <2>4, <2>5 DEF AccessInv
<1>3. ASSUME NEW p \in pending, Handle(p) PROVE AccessInv'
  <2> DEFINE r == p.request
             may == Authorized(r, p.who, RequiredForPost(r)) /\ (Gated(r) => FromOwnPage(r))
             act == [route |-> r.route, live |-> r.live, page |-> r.page,
                     from |-> {r.origin, r.referer}, role |-> p.who.role]
  <2>1. p \in [request : Requests, who : Identities] /\ r \in Requests /\ r.route \in Posts
    BY DEF AccessInv, AccessTypeOK
  <2>2. /\ pending' = pending \ {p}
        /\ UNCHANGED <<now, pages, streams>>
        /\ loggedOut' \in {loggedOut, loggedOut \cup {r.cookie}}
    BY <1>3 DEF Handle
  <2>3. done' = IF may THEN act ELSE done
    BY <1>3 DEF Handle
  <2>4. AccessTypeOK'
    BY <2>1, <2>2, <2>3 DEF AccessInv, AccessTypeOK
  <2>5. CASE may
    <3>1. done' = act BY <2>3, <2>5
    <3>2. ASSUME r.route = "confirm" \/ (r.route = "approve" /\ r.live)
          PROVE  /\ r.page \in pages /\ "own" \in {r.origin, r.referer}
                 /\ {"live-action", "approve"} \subseteq Permissions(p.who.role)
      <4>1. FromOwnPage(r) BY <2>5, <3>2 DEF Gated
      <4>2. RequiredForPost(r) = {"live-action", "approve"} BY <3>2, LiveAsksForBoth
      <4>3. RequiredForPost(r) \subseteq Permissions(p.who.role) BY <2>5 DEF Authorized
      <4>4. QED BY <4>1, <4>2, <4>3 DEF FromOwnPage
    <3>3. LiveActIsGated'
      BY <2>2, <3>1, <3>2 DEF LiveActIsGated
    <3>4. QED BY <2>2, <2>4, <3>3 DEF AccessInv
  <2>6. CASE ~ may
    BY <2>2, <2>3, <2>4, <2>6 DEF AccessInv, LiveActIsGated
  <2>7. QED BY <2>5, <2>6
<1>4. ASSUME NEW w \in streams, CloseStream(w) PROVE AccessInv'
  BY <1>4 DEF CloseStream, AccessInv, AccessTypeOK, LiveActIsGated
<1>5. CASE RestartServer
  BY <1>5 DEF RestartServer, AccessInv, AccessTypeOK, LiveActIsGated
<1>6. CASE PassTime
  <2>1. MaxTime \in Nat /\ now \in 0 .. MaxTime
    BY WebAccessAssumption DEF AccessInv, AccessTypeOK
  <2>2. now' \in 0 .. MaxTime BY <1>6, <2>1 DEF PassTime
  <2>3. QED BY <1>6, <2>2 DEF PassTime, AccessInv, AccessTypeOK, LiveActIsGated
<1>7. CASE UNCHANGED accessVars
  BY <1>7 DEF accessVars, AccessInv, AccessTypeOK, LiveActIsGated
<1>8. QED BY <1>1, <1>2, <1>3, <1>4, <1>5, <1>6, <1>7 DEF AccessNext

\* In every behaviour of the http server the types hold, and a live approval and a
\* plan's confirmation came from a page of this server by a role that may approve.
THEOREM AccessSound == AccessSpec => [](AccessTypeOK /\ LiveActIsGated)
<1>1. AccessInv => AccessTypeOK /\ LiveActIsGated BY DEF AccessInv
<1>2. QED BY <1>1, AccessInitOK, AccessStep, PTL DEF AccessSpec

\* Nothing of a session that has ended is let in again while the server runs.
THEOREM EndedIsOver == AccessSpec => EndedStaysEnded
<1> DEFINE A == \A s \in Session :
                  /\ mode = "external" /\ Over(s)
                  /\ \A p \in pending : p.who.session # s
                  => \A p \in pending' : p.who.session # s
<1>1. AccessInv /\ [AccessNext]_accessVars => A
  <2> SUFFICES ASSUME AccessInv, [AccessNext]_accessVars,
                      NEW s \in Session, mode = "external", Over(s),
                      \A p \in pending : p.who.session # s
               PROVE  \A p \in pending' : p.who.session # s
    OBVIOUS
  <2>1. ASSUME NEW r \in Requests, PostArrives(r) PROVE \A p \in pending' : p.who.session # s
    <3> DEFINE q == [request |-> r, who |-> Identity(r)]
    <3>1. pending' = pending \cup {q} /\ HasIdentity(r) BY <2>1 DEF PostArrives, LetIn
    <3>2. Identity(r).session # s
      <4>1. CASE ByBearer(r)
        BY <4>1, WebAccessAssumption DEF Identity
      <4>2. CASE ~ ByBearer(r)
        BY <3>1, <4>2 DEF Identity, HasIdentity, Valid, Over
      <4>3. QED BY <4>1, <4>2
    <3>3. QED BY <3>1, <3>2
  <2>2. ASSUME NEW r \in Requests, Get(r) PROVE \A p \in pending' : p.who.session # s
    BY <2>2 DEF Get
  <2>3. ASSUME NEW q \in pending, Handle(q) PROVE \A p \in pending' : p.who.session # s
    BY <2>3 DEF Handle
  <2>4. ASSUME NEW w \in streams, CloseStream(w) PROVE \A p \in pending' : p.who.session # s
    BY <2>4 DEF CloseStream
  <2>5. CASE RestartServer BY <2>5 DEF RestartServer
  <2>6. CASE PassTime BY <2>6 DEF PassTime
  <2>7. CASE UNCHANGED accessVars BY <2>7 DEF accessVars
  <2>8. QED BY <2>1, <2>2, <2>3, <2>4, <2>5, <2>6, <2>7 DEF AccessNext
<1>2. A => [A]_accessVars OBVIOUS
<1>3. QED BY <1>1, AccessInitOK, AccessStep, PTL DEF AccessSpec, EndedStaysEnded

-----------------------------------------------------------------------------
(* Replays.                                                                 *)

\* Policy asks for a gate where a flow is destructive or acts on a live site.
MustBeGated(f) == f.riskClass = "destructive" \/ f.environment = "live-action"

\* A flow that must be gated declares its point of no return, or is not run.
LEMMA GateIsDeclared ==
  ASSUME NEW f, PolicyAllows(f), MustBeGated(f)
  PROVE  GateDeclared(f)
<1>1. GateKind(f) = "irreversible" BY DEF PolicyAllows, MustBeGated
<1>2. ~ f.reversible /\ f.irreversibleAt # 0 BY <1>1 DEF GateKind
<1>3. f.irreversibleAt \in DOMAIN f.steps /\ Effectful(f.steps[f.irreversibleAt])
  BY <1>2 DEF PolicyAllows, GateInRange
<1>4. QED BY <1>2, <1>3 DEF GateDeclared, StepsOf

\* What has taken effect lies before the step the run is at, or is that step.
Behind ==
  /\ pc \in {"start", "open"} => took = {} /\ at = 1
  /\ \A i \in took : i <= at
  /\ pc = "step" => at \notin took
  /\ pc \in {"after", "auth"} => at \in took

\* Past the gate the commit is in the audit, and only a play gets there.
CommitAudited ==
  /\ GateDeclared(flow) /\ (at > flow.irreversibleAt \/ \E i \in took : i >= flow.irreversibleAt)
       => audited
  /\ audited => purpose = "play"
  /\ pc \notin {"start", "stopped"} \/ took # {} => Preflighted

\* A denial before the last check is still there to be found by it.
DenialFound ==
  /\ purpose \in {"play", "verify"} /\ deniedIn \in {"nowhere", "early", "late"}
  /\ deniedIn = "early" => denied
  /\ deniedIn = "early" /\ purpose = "play" => ~ LastChecked /\ result # "ok"
  /\ pc = "written" => purpose = "verify"

ReplayInv == ReplayTypeOK /\ Behind /\ CommitAudited /\ DenialFound

\* A flow's steps are numbered from one.
LEMMA StepsCounted ==
  ASSUME flow \in Flow
  PROVE  /\ Len(flow.steps) \in Nat /\ DOMAIN flow.steps = 1 .. Len(flow.steps)
         /\ flow.irreversibleAt \in Nat
<1>1. flow.steps \in Seq(ReplayStep) /\ flow.irreversibleAt \in Nat BY ReplayAssumption
<1>2. QED BY <1>1

\* The invariant implies the property that the runs check.
LEMMA ReplayInvGates == ReplayInv => ReplayIsGated
<1> SUFFICES ASSUME ReplayInv PROVE ReplayIsGated
  OBVIOUS
<1>1. ASSUME MustBeGated(flow), NEW i \in took, i >= flow.irreversibleAt
      PROVE  purpose = "play" /\ audited /\ RunAllowed(flow, env)
  <2>1. Preflighted BY DEF ReplayInv, CommitAudited
  <2>2. GateDeclared(flow) BY <1>1, <2>1, GateIsDeclared DEF Preflighted
  <2>3. audited /\ purpose = "play" BY <1>1, <2>2 DEF ReplayInv, CommitAudited
  <2>4. QED BY <2>1, <2>3 DEF Preflighted
<1>2. result = "ok" /\ purpose = "play" => deniedIn \in {"nowhere", "late"}
  BY DEF ReplayInv, DenialFound
<1>3. QED BY <1>1, <1>2 DEF ReplayIsGated, MustBeGated

\* The invariant holds at the start.
LEMMA ReplayInitOK == ReplayInit => ReplayInv
<1> SUFFICES ASSUME ReplayInit PROVE ReplayInv
  OBVIOUS
<1>1. flow \in Flow BY DEF ReplayInit
<1>2. Len(flow.steps) \in Nat /\ flow.irreversibleAt \in Nat BY <1>1, StepsCounted
<1>3. at = 1 /\ took = {} /\ pc = "start" /\ result = "none" BY DEF ReplayInit
<1>4. ReplayTypeOK BY <1>2, <1>3 DEF ReplayInit, ReplayTypeOK
<1>5. GateDeclared(flow) => ~ (at > flow.irreversibleAt)
  BY <1>2, <1>3 DEF GateDeclared
<1>6. Behind /\ CommitAudited BY <1>3, <1>5 DEF ReplayInit, Behind, CommitAudited
<1>7. DenialFound BY <1>3 DEF ReplayInit, DenialFound
<1>8. QED BY <1>4, <1>6, <1>7 DEF ReplayInv

\* A run that ends changes nothing else; that it may not end well with an early denial
\* is for the action to say.
LEMMA EndKeeps ==
  ASSUME ReplayInv, NEW r \in {"ok", "failed"}, EndReplay(r),
         r = "ok" /\ purpose = "play" => deniedIn # "early"
  PROVE  ReplayInv'
<1>1. /\ pc' = "stopped" /\ result' = r
      /\ UNCHANGED <<flow, purpose, env, at, denied, audited, took, deniedIn>>
  BY DEF EndReplay
<1>2. ReplayTypeOK' BY <1>1 DEF ReplayInv, ReplayTypeOK
<1>3. Behind' BY <1>1 DEF ReplayInv, Behind
<1>4. CommitAudited' BY <1>1 DEF ReplayInv, CommitAudited, Preflighted
<1>5. DenialFound' BY <1>1 DEF ReplayInv, DenialFound, LastChecked
<1>6. QED BY <1>2, <1>3, <1>4, <1>5 DEF ReplayInv

\* Every step keeps the invariant.
LEMMA ReplayStepOK == ReplayInv /\ [ReplayNext]_replayVars => ReplayInv'
<1> SUFFICES ASSUME ReplayInv, [ReplayNext]_replayVars PROVE ReplayInv'
  OBVIOUS
<1> DEFINE n == Len(flow.steps)
           gate == flow.irreversibleAt
<1>n. /\ n \in Nat /\ gate \in Nat /\ DOMAIN flow.steps = 1 .. n
      /\ at \in 1 .. n + 1 /\ took \subseteq 1 .. n
  BY StepsCounted DEF ReplayInv, ReplayTypeOK
<1>g. GateDeclared(flow) => gate >= 1
  BY <1>n DEF GateDeclared
<1>1. CASE Preflight
  <2>1. CASE ~ Preflighted
    BY <1>1, <2>1, EndKeeps DEF Preflight
  <2>2. CASE Preflighted
    <3>1. /\ pc = "start" /\ pc' = "open" /\ at' = 1 /\ at = 1 /\ took = {}
          /\ UNCHANGED <<flow, purpose, env, denied, audited, took, deniedIn, result>>
      BY <1>1, <2>2 DEF Preflight, Goto, ReplayInv, Behind
    <3>2. ReplayTypeOK' BY <3>1 DEF ReplayInv, ReplayTypeOK
    <3>3. Behind' BY <3>1 DEF Behind
    <3>4. CommitAudited' BY <2>2, <3>1 DEF ReplayInv, CommitAudited, Preflighted
    <3>5. n # 0
      BY <2>2, <1>n, ReplayAssumption DEF Preflighted, StepsValid, ReplayInv, ReplayTypeOK
    <3>6. DenialFound' BY <1>n, <3>1, <3>5 DEF ReplayInv, DenialFound, LastChecked
    <3>7. QED BY <3>2, <3>3, <3>4, <3>6 DEF ReplayInv
  <2>3. QED BY <2>1, <2>2
<1>2. CASE PageSendsDenied
  <2>1. /\ pc \in {"open", "step", "after", "auth", "asserts"} /\ denied' = TRUE
        /\ deniedIn' = IF LastChecked THEN "late" ELSE "early"
        /\ UNCHANGED <<flow, purpose, env, pc, at, audited, took, result>>
    BY <1>2 DEF PageSendsDenied
  <2>2. ReplayTypeOK' /\ Behind' BY <2>1 DEF ReplayInv, ReplayTypeOK, Behind
  <2>3. CommitAudited' BY <2>1 DEF ReplayInv, CommitAudited, Preflighted
  <2>4. LastChecked' = LastChecked BY <2>1 DEF LastChecked
  <2>5. result # "ok" BY <2>1 DEF ReplayInv, ReplayTypeOK
  <2>6. DenialFound' BY <2>1, <2>4, <2>5 DEF ReplayInv, DenialFound
  <2>7. QED BY <2>2, <2>3, <2>6 DEF ReplayInv
<1>3. CASE FirstPage
  <2>1. CASE EndReplay("failed") BY <2>1, EndKeeps
  <2>2. CASE ~ denied /\ Goto("step", 1)
    <3>1. /\ pc = "open" /\ pc' = "step" /\ at' = 1 /\ at = 1 /\ took = {}
          /\ deniedIn # "early"
          /\ UNCHANGED <<flow, purpose, env, denied, audited, took, deniedIn, result>>
      BY <1>3, <2>2 DEF FirstPage, Goto, ReplayInv, Behind, DenialFound
    <3>2. ReplayTypeOK' /\ Behind' BY <3>1 DEF ReplayInv, ReplayTypeOK, Behind
    <3>3. CommitAudited' BY <3>1 DEF ReplayInv, CommitAudited, Preflighted
    <3>4. DenialFound' BY <3>1 DEF ReplayInv, DenialFound
    <3>5. QED BY <3>2, <3>3, <3>4 DEF ReplayInv
  <2>3. QED BY <1>3, <2>1, <2>2 DEF FirstPage
<1>4. CASE AuditCommit
  <2>1. CASE EndReplay("failed") BY <2>1, EndKeeps
  <2>2. CASE audited' = TRUE /\ UNCHANGED <<flow, purpose, env, pc, at, denied, took, deniedIn, result>>
    <3>1. purpose = "play" /\ pc = "step" BY <1>4 DEF AuditCommit
    <3>2. ReplayTypeOK' /\ Behind' BY <2>2 DEF ReplayInv, ReplayTypeOK, Behind
    <3>3. CommitAudited' BY <2>2, <3>1 DEF ReplayInv, CommitAudited, Preflighted
    <3>4. DenialFound' BY <2>2 DEF ReplayInv, DenialFound, LastChecked
    <3>5. QED BY <3>2, <3>3, <3>4 DEF ReplayInv
  <2>3. QED BY <1>4, <2>1, <2>2 DEF AuditCommit
<1>5. CASE RunStep
  <2>1. /\ pc = "step" /\ at \in 1 .. n /\ took' \in {took, took \cup {at}} /\ ~ HeldBack
        /\ UNCHANGED <<flow, purpose, env, denied, audited, deniedIn>>
        /\ Preflighted /\ result # "ok" /\ ~ LastChecked
    BY <1>5, <1>n DEF RunStep, ReplayInv, CommitAudited, ReplayTypeOK, LastChecked
  <2>2. Preflighted' BY <2>1 DEF Preflighted
  <2>3. GateDeclared(flow) /\ at >= gate => audited
    <3>1. CASE at = gate BY <2>1, <3>1 DEF HeldBack, AtGate
    <3>2. CASE at > gate BY <3>2 DEF ReplayInv, CommitAudited
    <3>3. QED BY <1>n, <3>1, <3>2
  <2>4. GateDeclared(flow) /\ (at + 1 > gate \/ \E i \in took' : i >= gate) => audited
    BY <1>n, <2>1, <2>3 DEF ReplayInv, CommitAudited
  <2>5. took' \subseteq 1 .. n /\ \A i \in took' : i <= at
    BY <1>n, <2>1 DEF ReplayInv, Behind
  <2>6. CASE at \in took' /\ purpose = "play" /\ pc' = "after" /\ UNCHANGED <<at, result>>
    <3>1. ReplayTypeOK' BY <1>n, <2>1, <2>5, <2>6 DEF ReplayInv, ReplayTypeOK
    <3>2. Behind' BY <2>5, <2>6 DEF Behind
    <3>3. CommitAudited'
      BY <1>n, <2>1, <2>2, <2>4, <2>6 DEF ReplayInv, CommitAudited
    <3>4. DenialFound' BY <2>1, <2>6 DEF ReplayInv, DenialFound, LastChecked
    <3>5. QED BY <3>1, <3>2, <3>3, <3>4 DEF ReplayInv
  <2>7. CASE purpose # "play" /\ pc' = pc /\ at' = at + 1 /\ UNCHANGED result
    <3>1. ReplayTypeOK' BY <1>n, <2>1, <2>5, <2>7 DEF ReplayInv, ReplayTypeOK
    <3>2. Behind' BY <1>n, <2>1, <2>5, <2>7 DEF Behind
    <3>3. CommitAudited'
      BY <1>n, <2>1, <2>2, <2>4, <2>7 DEF ReplayInv, CommitAudited
    <3>4. DenialFound' BY <2>1, <2>7 DEF ReplayInv, DenialFound, LastChecked
    <3>5. QED BY <3>1, <3>2, <3>3, <3>4 DEF ReplayInv
  <2>8. CASE pc' = "stopped" /\ result' = "failed" /\ UNCHANGED at
    <3>1. ReplayTypeOK' BY <1>n, <2>1, <2>5, <2>8 DEF ReplayInv, ReplayTypeOK
    <3>2. Behind' BY <1>n, <2>1, <2>5, <2>8 DEF Behind
    <3>3. CommitAudited'
      BY <1>n, <2>1, <2>2, <2>4, <2>8 DEF ReplayInv, CommitAudited
    <3>4. DenialFound' BY <2>1, <2>8 DEF ReplayInv, DenialFound, LastChecked
    <3>5. QED BY <3>1, <3>2, <3>3, <3>4 DEF ReplayInv
  <2>9. QED BY <1>5, <2>6, <2>7, <2>8 DEF RunStep
<1>6. CASE AfterStep
  <2>1. CASE denied BY <1>6, <2>1, EndKeeps DEF AfterStep, Checked
  <2>2. CASE ~ denied
    <3>1. /\ pc = "after" /\ pc' = "auth" /\ at' = at /\ deniedIn # "early"
          /\ UNCHANGED <<flow, purpose, env, denied, audited, took, deniedIn, result>>
      BY <1>6, <2>2 DEF AfterStep, Checked, Goto, ReplayInv, DenialFound
    <3>2. ReplayTypeOK' /\ Behind' BY <3>1 DEF ReplayInv, ReplayTypeOK, Behind
    <3>3. CommitAudited' BY <3>1 DEF ReplayInv, CommitAudited, Preflighted
    <3>4. DenialFound' BY <3>1 DEF ReplayInv, DenialFound
    <3>5. QED BY <3>2, <3>3, <3>4 DEF ReplayInv
  <2>3. QED BY <2>1, <2>2
<1>7. CASE AuthReady
  <2>1. CASE EndReplay("failed") BY <2>1, EndKeeps
  <2>2. CASE Goto("step", at + 1)
    <3>1. /\ pc = "auth" /\ pc' = "step" /\ at' = at + 1 /\ at \in took
          /\ UNCHANGED <<flow, purpose, env, denied, audited, took, deniedIn, result>>
      BY <1>7, <2>2 DEF AuthReady, Goto, ReplayInv, Behind
    <3>2. ReplayTypeOK' BY <1>n, <3>1 DEF ReplayInv, ReplayTypeOK
    <3>3. Behind' BY <1>n, <3>1 DEF ReplayInv, Behind
    <3>4. GateDeclared(flow) /\ at + 1 > gate => audited
      BY <1>n, <3>1 DEF ReplayInv, CommitAudited
    <3>5. CommitAudited' BY <3>1, <3>4 DEF ReplayInv, CommitAudited, Preflighted
    <3>6. LastChecked' = LastChecked BY <1>n, <3>1 DEF LastChecked
    <3>7. DenialFound' BY <3>1, <3>6 DEF ReplayInv, DenialFound
    <3>8. QED BY <3>2, <3>3, <3>5, <3>7 DEF ReplayInv
  <2>3. QED BY <1>7, <2>1, <2>2 DEF AuthReady
<1>8. CASE NoStepLeft
  <2>1. /\ pc = "step" /\ pc' = AfterSteps /\ at' = at
        /\ at > n \/ purpose = "verify"
        /\ UNCHANGED <<flow, purpose, env, denied, audited, took, deniedIn, result>>
    BY <1>8, <1>n DEF NoStepLeft, Goto
  <2>2. pc' \in {"asserts", "written"} /\ (pc' = "asserts" <=> purpose = "play")
    BY <2>1 DEF AfterSteps
  <2>3. ReplayTypeOK' /\ Behind' BY <2>1, <2>2 DEF ReplayInv, ReplayTypeOK, Behind
  <2>4. CommitAudited' BY <2>1 DEF ReplayInv, CommitAudited, Preflighted
  <2>5. purpose = "play" => LastChecked BY <2>1 DEF LastChecked
  <2>6. DenialFound' BY <2>1, <2>2, <2>5 DEF ReplayInv, DenialFound
  <2>7. QED BY <2>3, <2>4, <2>6 DEF ReplayInv
<1>9. CASE Asserts
  <2>1. purpose = "play" => deniedIn # "early"
    BY <1>9 DEF Asserts, ReplayInv, DenialFound, LastChecked
  <2>2. QED BY <1>9, <2>1, EndKeeps DEF Asserts
<1>10. CASE Verified
  BY <1>10, EndKeeps DEF Verified, ReplayInv, DenialFound
<1>11. CASE UNCHANGED replayVars
  <2>1. ReplayTypeOK' /\ Behind' BY <1>11 DEF replayVars, ReplayInv, ReplayTypeOK, Behind
  <2>2. CommitAudited' BY <1>11 DEF replayVars, ReplayInv, CommitAudited, Preflighted
  <2>3. DenialFound' BY <1>11 DEF replayVars, ReplayInv, DenialFound, LastChecked
  <2>4. QED BY <2>1, <2>2, <2>3 DEF ReplayInv
<1>12. QED
  BY <1>1, <1>2, <1>3, <1>4, <1>5, <1>6, <1>7, <1>8, <1>9, <1>10, <1>11 DEF ReplayNext

\* In every replay of every flow the types hold, a gated flow passes its point of no
\* return audited and permitted, in a play only, and success hides no early denial.
THEOREM ReplaySound == ReplaySpec => [](ReplayTypeOK /\ ReplayIsGated)
<1>1. ReplayInv => ReplayTypeOK BY DEF ReplayInv
<1>2. QED BY <1>1, ReplayInvGates, ReplayInitOK, ReplayStepOK, PTL DEF ReplaySpec

-----------------------------------------------------------------------------
(* Egress.                                                                  *)

\* The later of two times is one of them.
LEMMA LaterOfTwo ==
  ASSUME NEW m \in Nat, NEW n \in Nat
  PROVE  Max({m, n}) \in {m, n}
<1>1. \E x \in {m, n} : \A y \in {m, n} : x >= y
  <2>1. CASE m >= n BY <2>1
  <2>2. CASE n >= m BY <2>2
  <2>3. QED BY <2>1, <2>2
<1>2. QED BY <1>1 DEF Max

\* There are at most two sources about a name, and each is evidence.
LEMMA SourcesAreTwo ==
  ASSUME NEW o \in Operators, NEW r \in Records, NEW t, Sources(o, r, t) # {}
  PROVE  \E a \in Evidence, b \in Evidence : Sources(o, r, t) = {a, b}
<1> DEFINE Has == {x \in {o.evidence, r.evidence} : t \in DOMAIN x}
<1>1. SoundEvidence(o.evidence) /\ SoundEvidence(r.evidence)
  BY EgressAssumption
<1>2. Sources(o, r, t) = {x[t] : x \in Has}
  BY DEF Sources
<1>3. \A x \in Has : x[t] \in Evidence
  BY <1>1 DEF SoundEvidence
<1>4. PICK x \in Has, y \in Has : Has = {x, y}
  <2>1. Has # {} BY <1>2
  <2>2. CASE o.evidence \in Has /\ r.evidence \in Has BY <2>2
  <2>3. CASE o.evidence \notin Has BY <2>1, <2>3
  <2>4. CASE r.evidence \notin Has BY <2>1, <2>4
  <2>5. QED BY <2>2, <2>3, <2>4
<1>5. Sources(o, r, t) = {x[t], y[t]}
  <2> HIDE DEF Has
  <2> QED BY <1>2, <1>4
<1>6. QED BY <1>3, <1>4, <1>5

\* What merged evidence says of time, some source says.
LEMMA MergedTimes ==
  ASSUME NEW a \in Evidence, NEW b \in Evidence
  PROVE  /\ \E e \in {a, b} : Merge({a, b}).at = e.at
         /\ \E e \in {a, b} : Merge({a, b}).until = e.until
<1>1. a.at \in Nat /\ b.at \in Nat /\ a.until \in Nat /\ b.until \in Nat
  BY DEF Evidence
<1>2. {e.at : e \in {a, b}} = {a.at, b.at} /\ {e.until : e \in {a, b}} = {a.until, b.until}
  OBVIOUS
<1>3. Merge({a, b}).at = Max({a.at, b.at}) /\ Merge({a, b}).until = Max({a.until, b.until})
  BY <1>2 DEF Merge
<1>4. QED BY <1>1, <1>3, LaterOfTwo

\* Merged evidence that holds rests on a source that holds.
LEMMA FreshBySource ==
  ASSUME NEW o \in Operators, NEW r \in Records, NEW t, NEW time \in Nat,
         IsFresh(Known(o, r, t), time, Need)
  PROVE  /\ Sources(o, r, t) # {}
         /\ Known(o, r, t) = Merge(Sources(o, r, t))
         /\ \E e \in Sources(o, r, t) :
              \/ e.at # 0 /\ time <= e.at + MaxAge + Skew
              \/ e.until # 0 /\ time <= e.until + Skew
<1> DEFINE S == Sources(o, r, t)
           known == Known(o, r, t)
<1>1. S # {}
  <2> SUFFICES ASSUME S = {} PROVE FALSE
    OBVIOUS
  <2>1. known.at = 0 /\ known.until = 0 BY DEF Known, NoEvidence
  <2>2. QED BY <2>1 DEF IsFresh, Need
<1>2. known = Merge(S) BY <1>1 DEF Known
<1>3. PICK a \in Evidence, b \in Evidence : S = {a, b} BY <1>1, SourcesAreTwo
<1>4. /\ \E e \in S : known.at = e.at
      /\ \E e \in S : known.until = e.until
  BY <1>2, <1>3, MergedTimes
<1>5. known.at # 0 \/ known.until # 0
  BY DEF IsFresh, Need
<1>6. /\ known.at # 0 => time <= known.at + MaxAge + Skew
      /\ known.until # 0 => time <= known.until + Skew
  BY DEF IsFresh
<1>7. QED
  <2> HIDE DEF S, known
  <2>1. \E e \in S : (e.at # 0 /\ time <= e.at + MaxAge + Skew)
                    \/ (e.until # 0 /\ time <= e.until + Skew)
    <3>1. CASE known.at # 0 BY <1>4, <1>6, <3>1
    <3>2. CASE known.until # 0 BY <1>4, <1>6, <3>2
    <3>3. QED BY <1>5, <3>1, <3>2
  <2>2. QED BY <1>1, <1>2, <2>1 DEF S, known

\* A request that is admitted with all evidence asked for is vouched for then.
LEMMA AdmittedIsVouched ==
  ASSUME NEW o \in Operators, NEW r \in Records, NEW t \in Target, NEW time \in Nat,
         Admits(o, r, t, time, Need), SchemeOf[t] = "http", t \notin Literal
  PROVE  /\ \E e \in Sources(o, r, t) :
              \/ e.at # 0 /\ time <= e.at + MaxAge + Skew
              \/ e.until # 0 /\ time <= e.until + Skew
         /\ \E a \in Address :
              /\ \E e \in Sources(o, r, t) : a \in e.addresses
              /\ <<t, a>> \in o.peers \cup r.peers \/ \E e \in Sources(o, r, t) : a \in e.peers
              /\ Permitted(KindOf[a], Profile(o, r))
<1> DEFINE S == Sources(o, r, t)
           known == Known(o, r, t)
           peers == known.peers \cup Peers(o, r, t)
<1>1. Vouched(o, r, t, time, Need)
  BY DEF Admits
<1>2. /\ IsFresh(known, time, Need) /\ known.addresses # {}
      /\ ReachedOne(peers, known.addresses, Profile(o, r), Need)
  BY <1>1 DEF Vouched, Need
<1>3. /\ S # {} /\ known = Merge(S)
      /\ \E e \in S : \/ e.at # 0 /\ time <= e.at + MaxAge + Skew
                      \/ e.until # 0 /\ time <= e.until + Skew
  BY <1>2, FreshBySource
<1>4. peers # {} /\ peers \subseteq known.addresses
      /\ \A a \in peers : Permitted(KindOf[a], Profile(o, r))
  BY <1>2 DEF ReachedOne, Need
<1>5. PICK a \in peers : a \in known.addresses /\ Permitted(KindOf[a], Profile(o, r))
  BY <1>4
<1>6. known.addresses = UNION {e.addresses : e \in S} /\ known.peers = UNION {e.peers : e \in S}
  BY <1>3 DEF Merge
<1>7. \E e \in S : a \in e.addresses
  BY <1>5, <1>6
<1>8. a \in Address
  <2>1. \A e \in S : e.addresses \subseteq Address
    BY <1>3, SourcesAreTwo DEF Evidence
  <2>2. QED BY <1>7, <2>1
<1>9. <<t, a>> \in o.peers \cup r.peers \/ \E e \in S : a \in e.peers
  BY <1>5, <1>6 DEF Peers
<1>10. QED BY <1>3, <1>5, <1>7, <1>8, <1>9

\* What the record and the settings ask for is no more than a run asks for.
LEMMA RunAsksMore ==
  ASSUME NEW o \in Operators, NEW r \in Records
  PROVE  Asked(o, r) \subseteq AskedAtRun(o, r)
<1>1. o.asks \subseteq Need BY EgressAssumption
<1>2. r.asks \subseteq Need BY EgressAssumption DEF SystemRecord
<1>3. QED BY <1>1, <1>2 DEF Asked, AskedAtRun

\* Whoever asks for less evidence admits what was admitted with more.
LEMMA LessAsked ==
  ASSUME NEW o, NEW r, NEW t, NEW time, NEW needs, NEW fewer, fewer \subseteq needs,
         Admits(o, r, t, time, needs)
  PROVE  Admits(o, r, t, time, fewer)
<1>1. ASSUME NEW e, IsFresh(e, time, needs) PROVE IsFresh(e, time, fewer)
  BY <1>1 DEF IsFresh
<1>2. ASSUME NEW peers, NEW addresses, NEW p, ReachedOne(peers, addresses, p, needs)
      PROVE  ReachedOne(peers, addresses, p, fewer)
  BY <1>2 DEF ReachedOne
<1>3. Vouched(o, r, t, time, needs) => Vouched(o, r, t, time, fewer)
  BY <1>1, <1>2 DEF Vouched
<1>4. QED BY <1>3 DEF Admits

\* The policy looks at every field of a record but the target.
LEMMA TargetIsApart ==
  ASSUME NEW o, NEW r \in Records, NEW t, NEW u, NEW time, NEW needs,
         Admits(o, r, t, time, needs)
  PROVE  /\ Admits(o, [r EXCEPT !.target = u], t, time, needs)
         /\ Asked(o, [r EXCEPT !.target = u]) = Asked(o, r)
         /\ [r EXCEPT !.target = u].target = u
<1> DEFINE q == [r EXCEPT !.target = u]
<1>1. r \in SystemRecord(r.evidence) BY EgressAssumption
<1>2. /\ q.target = u /\ q.profile = r.profile /\ q.list = r.list /\ q.registry = r.registry
      /\ q.evidence = r.evidence /\ q.resolved = r.resolved /\ q.peers = r.peers
      /\ q.asks = r.asks /\ q.waives = r.waives
  BY <1>1 DEF SystemRecord
<1> HIDE DEF q
<1>3. Profile(o, q) = Profile(o, r) BY <1>2 DEF Profile
<1>4. OnLists(o, q, t) = OnLists(o, r, t)
  BY <1>2, <1>3, Zenon DEF OnLists, RegistryAgrees, Configured, Registry
<1>5. Known(o, q, t) = Known(o, r, t) /\ Peers(o, q, t) = Peers(o, r, t)
  BY <1>2, Zenon DEF Known, Sources, Peers
<1>6. Vouched(o, q, t, time, needs) = Vouched(o, r, t, time, needs)
  BY <1>3, <1>5, Zenon DEF Vouched
<1>7. Admits(o, q, t, time, needs)
  BY <1>3, <1>4, <1>6 DEF Admits
<1>8. Asked(o, q) = Asked(o, r) BY <1>2 DEF Asked
<1>9. QED BY <1>2, <1>7, <1>8 DEF q

EgressInv == EgressTypeOK /\ EgressHolds

\* The invariant holds at the start.
LEMMA EgressInitOK == EgressInit => EgressInv
<1> SUFFICES ASSUME EgressInit PROVE EgressInv
  OBVIOUS
<1>1. MaxTick \in Nat \ {0} BY EgressAssumption
<1>2. EgressTypeOK
  <2>1. 1 \in 1 .. MaxTick BY <1>1
  <2>2. tick = 1 /\ operator \in Operators /\ record = Unregistered /\ queued = FALSE
        /\ child = NoChild /\ last = Nothing
    BY DEF EgressInit
  <2>3. QED BY <2>1, <2>2, Zenon DEF EgressTypeOK
<1>3. last = Nothing BY DEF EgressInit
<1>4. EgressHolds BY <1>3 DEF EgressHolds, AdmittedIsCurrent, RunIsNarrower
<1>5. QED BY <1>2, <1>4 DEF EgressInv

\* Only a request of a run's page changes what was let through last.
LEMMA EgressStep == EgressInv /\ [EgressNext]_egressVars => EgressInv'
<1> SUFFICES ASSUME EgressInv, [EgressNext]_egressVars PROVE EgressInv'
  OBVIOUS
<1>t. EgressTypeOK BY DEF EgressInv
<1>m. MaxTick \in Nat \ {0} BY EgressAssumption
<1>1. ASSUME UNCHANGED last PROVE EgressHolds'
  BY <1>1 DEF EgressInv, EgressHolds, AdmittedIsCurrent, RunIsNarrower
<1>2. ASSUME NEW r \in Records, SaveRecord(r) PROVE EgressInv'
  BY <1>1, <1>2, <1>t DEF SaveRecord, EgressInv, EgressTypeOK
<1>3. CASE RemoveRecord
  BY <1>1, <1>3, <1>t DEF RemoveRecord, EgressInv, EgressTypeOK
<1>4. CASE EnqueueRun
  BY <1>1, <1>4, <1>t DEF EnqueueRun, EgressInv, EgressTypeOK
<1>5. CASE StartChild
  <2>1. child' \in Run \cup {NoChild}
    BY <1>5, <1>t DEF StartChild, EgressTypeOK, Run
  <2>2. UNCHANGED <<tick, operator, record, last>> /\ queued' = FALSE
    BY <1>5 DEF StartChild
  <2>3. QED BY <1>1, <1>t, <2>1, <2>2 DEF EgressInv, EgressTypeOK
<1>6. ASSUME NEW t \in Target, PageRequest(t) PROVE EgressInv'
  <2> DEFINE o == child.operator
             r == child.record
             passes == Admits(o, r, t, tick, AskedAtRun(o, r))
             let == [target |-> t, at |-> tick, run |-> child]
  <2>1. child \in Run
    BY <1>6, <1>t DEF PageRequest, EgressTypeOK
  <2>2. o \in Operators /\ r \in Records /\ tick \in Nat
    BY <2>1, <1>t, <1>m DEF Run, EgressTypeOK
  <2>3. passes /\ last' = let /\ UNCHANGED <<tick, operator, record, queued, child>>
    BY <1>6 DEF PageRequest, ReadClock
  <2>5. CASE passes
    <3>1. last' = let /\ child' = child BY <2>3
    <3>2. let \in [target : Target, at : 1..MaxTick, run : Run]
      BY <2>1, <1>t DEF EgressTypeOK
    <3>3. EgressTypeOK'
      BY <1>t, <2>3, <3>1, <3>2 DEF EgressTypeOK
    <3>4. AdmittedIsCurrent'
      <4> SUFFICES ASSUME SchemeOf[t] = "http", t \notin Literal, AskedAtRun(o, r) = Need
                   PROVE  /\ \E e \in Sources(o, r, t) :
                               \/ e.at # 0 /\ tick <= e.at + MaxAge + Skew
                               \/ e.until # 0 /\ tick <= e.until + Skew
                          /\ \E a \in Address :
                               /\ \E e \in Sources(o, r, t) : a \in e.addresses
                               /\ \/ <<t, a>> \in o.peers \cup r.peers
                                  \/ \E e \in Sources(o, r, t) : a \in e.peers
                               /\ Permitted(KindOf[a], Profile(o, r))
        BY <3>1, Zenon DEF AdmittedIsCurrent
      <4>1. Admits(o, r, t, tick, Need) BY <2>5
      <4> QED BY <2>2, <4>1, AdmittedIsVouched
    <3>5. RunIsNarrower'
      <4> DEFINE q == [r EXCEPT !.target = t]
      <4>1. Admits(o, r, t, tick, Asked(o, r))
        BY <2>2, <2>5, RunAsksMore, LessAsked
      <4>2. Admits(o, q, t, tick, Asked(o, r)) /\ Asked(o, q) = Asked(o, r) /\ q.target = t
        BY <2>2, <4>1, TargetIsApart
      <4>3. Gate(o, q, tick)
        <5> HIDE DEF q, o, r
        <5> QED BY <4>2 DEF Gate
      <4>4. QED BY <3>1, <4>3, Zenon DEF RunIsNarrower
    <3>6. QED BY <3>3, <3>4, <3>5 DEF EgressInv, EgressHolds
  <2>6. QED BY <2>3, <2>5
<1>7. CASE EndRun
  BY <1>1, <1>7, <1>t DEF EndRun, EgressInv, EgressTypeOK
<1>8. ASSUME NEW o \in Operators, RestartWith(o) PROVE EgressInv'
  BY <1>1, <1>8, <1>t DEF RestartWith, EgressInv, EgressTypeOK
<1>9. CASE Advance
  <2>1. tick' \in 1..MaxTick BY <1>9, <1>t, <1>m DEF Advance, EgressTypeOK
  <2>2. QED BY <1>1, <1>9, <1>t, <2>1 DEF Advance, EgressInv, EgressTypeOK
<1>10. CASE UNCHANGED egressVars
  BY <1>1, <1>10, <1>t DEF egressVars, EgressInv, EgressTypeOK
<1>11. QED
  BY <1>2, <1>3, <1>4, <1>5, <1>6, <1>7, <1>8, <1>9, <1>10 DEF EgressNext

\* Whatever the records, the settings and the restarts, a request that passes is vouched
\* for at its own time, and no run lets pass what the gate would not.
THEOREM EgressSound == EgressSpec => [](EgressTypeOK /\ EgressHolds)
<1>1. EgressInv => EgressTypeOK /\ EgressHolds BY DEF EgressInv
<1>2. QED BY <1>1, EgressInitOK, EgressStep, PTL DEF EgressSpec

=============================================================================
