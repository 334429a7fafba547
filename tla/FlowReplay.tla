------------------------------ MODULE FlowReplay ------------------------------
(***************************************************************************)
(* A replay of a recorded flow, or a verify run of it: the run policy, the *)
(* gate at the point of no return, the request guard of the browser        *)
(* (bin/play-flow.mjs, approve/flow-runner.mjs, lib/flow-policy.js).       *)
(*                                                                         *)
(* The site and the browser are external: a step may fail whether or not   *)
(* it took effect, and the page may send a request the policy denies at    *)
(* any time.                                                               *)
(***************************************************************************)
EXTENDS Naturals, Sequences

CONSTANTS
  Flow,        (* flows: environment, risk class, declared gate, steps      *)
  RunEnv       (* what the process environment permits                      *)

ReplayStep == [kind: STRING, text: STRING, review: BOOLEAN]

ASSUME ReplayAssumption ==
  \A f \in Flow : f.steps \in Seq(ReplayStep) /\ f.irreversibleAt \in Nat

VARIABLES
  flow, purpose,  (* what is run, and whether to play or to verify it       *)
  env,
  pc, at,      (* where the run is; the step it is at                       *)
  denied,      (* the guard holds a denied request                          *)
  audited,     (* the commit of this run is in the play audit               *)
  took,        (* history: steps that took effect on the site               *)
  deniedIn,    (* history: a request was denied before or after the last    *)
               (* step was checked                                          *)
  result

replayVars == <<flow, purpose, env, pc, at, denied, audited, took, deniedIn, result>>

-----------------------------------------------------------------------------
\* A step is effectful (a find that acts, or open_record), an act of hovering, or a
\* wait, press or scroll; some carry a text that policy looks at.
Effectful(s)   == s.kind \in {"act", "open_record"}
Destructive(s) == s.kind = "act" /\ s.text = "destructive"
Otp(s)         == s.kind = "act" /\ s.text = "otp"
StepsOf(f)     == {f.steps[i] : i \in DOMAIN f.steps}

Live(f) == f.environment \in {"live-readonly", "live-action"}

\* What the flow declares as its point of no return.
GateKind(f) ==
  IF f.reversible THEN "reversible" ELSE IF f.irreversibleAt # 0 THEN "irreversible" ELSE "none"

GateInRange(f) ==
  f.irreversibleAt # 0 =>
    f.irreversibleAt \in DOMAIN f.steps /\ Effectful(f.steps[f.irreversibleAt])

\* validateFlowRunPolicy, without and with what only a run must satisfy.
PolicyAllows(f) ==
  /\ \A s \in StepsOf(f) : ~Otp(s)
  /\ f.environment = "live-readonly" => f.riskClass = "read" /\ \A s \in StepsOf(f) : ~Destructive(s)
  /\ f.environment = "live-action" => f.riskClass # "read"
  /\ GateInRange(f)
  /\ f.environment = "live-action" \/ f.riskClass # "read" => GateKind(f) # "none"
  /\ f.environment = "live-action" \/ f.riskClass = "destructive" => GateKind(f) = "irreversible"

RunAllowed(f, e) ==
  /\ ~(e.scheduled /\ Live(f))
  /\ f.environment = "local" \/ e.runMode = f.environment
  /\ f.environment = "live-action" => e.allowlisted /\ e.dryRunPassed /\ e.approved

\* irreversibleOptsFor: a flow that is declared reversible, declares nothing or acts
\* on nothing is not gated.
GateDeclared(f) == ~f.reversible /\ f.irreversibleAt # 0 /\ \E s \in StepsOf(f) : Effectful(s)
AtGate   == GateDeclared(flow) /\ at = flow.irreversibleAt

StepsValid(f) == f.steps # <<>> /\ \A i \in DOMAIN f.steps : ~f.steps[i].review

-----------------------------------------------------------------------------
ReplayInit ==
  /\ flow \in Flow /\ purpose \in {"play", "verify"} /\ env \in RunEnv
  /\ pc = "start" /\ at = 1
  /\ denied = FALSE /\ audited = FALSE
  /\ took = {} /\ deniedIn = "nowhere" /\ result = "none"

EndReplay(r) ==
  /\ pc' = "stopped" /\ result' = r
  /\ UNCHANGED <<flow, purpose, env, at, denied, audited, took, deniedIn>>

Goto(p, i) ==
  /\ pc' = p /\ at' = i
  /\ UNCHANGED <<flow, purpose, env, denied, audited, took, deniedIn, result>>

Preflighted ==
  /\ StepsValid(flow)
  /\ PolicyAllows(flow)
  /\ purpose = "play" => RunAllowed(flow, env)
  /\ flow.valuesSaved /\ flow.startAllowed
  /\ GateDeclared(flow) => GateInRange(flow)

Preflight ==
  /\ pc = "start"
  /\ IF Preflighted THEN Goto("open", 1) ELSE EndReplay("failed")

LastChecked ==
  \/ pc = "asserts"
  \/ pc = "auth" /\ at = Len(flow.steps)
  \/ pc = "step" /\ at > Len(flow.steps)

\* While the browser is open, any page of it may send a request that is aborted.
PageSendsDenied ==
  /\ pc \in {"open", "step", "after", "auth", "asserts"}
  /\ ~denied
  /\ denied' = TRUE
  /\ deniedIn' = IF LastChecked THEN "late" ELSE "early"
  /\ UNCHANGED <<flow, purpose, env, pc, at, audited, took, result>>

\* The first page has loaded; a navigation error, a denied request, a login page or
\* a second factor ends the run.
FirstPage ==
  /\ pc = "open"
  /\ \/ ~denied /\ Goto("step", 1)
     \/ EndReplay("failed")

AfterSteps == IF purpose = "play" THEN "asserts" ELSE "written"

\* The commit is audited before it is made; without that it is not made.
AuditCommit ==
  /\ pc = "step" /\ at \in DOMAIN flow.steps
  /\ purpose = "play" /\ AtGate /\ ~audited
  /\ \/ /\ audited' = TRUE
        /\ UNCHANGED <<flow, purpose, env, pc, at, denied, took, deniedIn, result>>
     \/ EndReplay("failed")

\* Wrong variant: a verify run re-drives every step.
HeldBackNever == purpose = "play" /\ AtGate /\ ~audited

\* A verify run stops before the point of no return; a play waits for the audit.
HeldBack == AtGate /\ ~audited

\* A step takes effect, or fails with or without effect; an effectful one only when
\* its locator is unique.
RunStep ==
  /\ pc = "step" /\ at \in DOMAIN flow.steps
  /\ ~HeldBack
  /\ took' \in {took, took \cup {at}}
  /\ \/ /\ at \in took'
        /\ IF purpose = "play" THEN pc' = "after" /\ UNCHANGED at
                            ELSE pc' = pc /\ at' = at + 1
        /\ UNCHANGED result
     \/ pc' = "stopped" /\ result' = "failed" /\ UNCHANGED at
  /\ UNCHANGED <<flow, purpose, env, denied, audited, deniedIn>>

\* After each step of a play the guard is asked, and then the page is looked at.
Checked == ~denied

AfterStep ==
  /\ pc = "after"
  /\ IF Checked THEN Goto("auth", at) ELSE EndReplay("failed")

AuthReady ==
  /\ pc = "auth"
  /\ \/ Goto("step", at + 1)
     \/ (flow.app \/ Live(flow)) /\ EndReplay("failed")

NoStepLeft ==
  /\ pc = "step"
  /\ (at \notin DOMAIN flow.steps \/ (purpose = "verify" /\ AtGate))
  /\ Goto(AfterSteps, at)

Asserts ==
  /\ pc = "asserts"
  /\ EndReplay("ok") \/ EndReplay("failed")

\* A verify run that needed no review is good; what it repaired is written back.
Verified == pc = "written" /\ EndReplay("ok")

ReplayNext ==
  \/ Preflight \/ PageSendsDenied \/ FirstPage \/ AuditCommit
  \/ RunStep \/ AfterStep \/ AuthReady \/ NoStepLeft \/ Asserts \/ Verified

ReplaySpec == ReplayInit /\ [][ReplayNext]_replayVars

-----------------------------------------------------------------------------
ReplayTypeOK ==
  /\ flow \in Flow /\ env \in RunEnv
  /\ pc \in {"start", "open", "step", "after", "auth", "asserts", "written", "stopped"}
  /\ at \in 1 .. Len(flow.steps) + 1
  /\ took \subseteq DOMAIN flow.steps
  /\ (pc = "stopped") = (result \in {"ok", "failed"})

\* The point of no return of a destructive or live-action flow is passed only in a
\* play that policy permits, with the commit in the audit, and never in a verify run;
\* and a play that reports success had no request denied before its last step was
\* checked.
ReplayIsGated ==
  /\ (flow.riskClass = "destructive" \/ flow.environment = "live-action")
       /\ (\E i \in took : i >= flow.irreversibleAt) =>
         purpose = "play" /\ audited /\ RunAllowed(flow, env)
  /\ result = "ok" /\ purpose = "play" => deniedIn \in {"nowhere", "late"}
=============================================================================
