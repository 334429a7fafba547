----------------------------- MODULE ServerDuties -----------------------------
(***************************************************************************)
(* What the server has begun and must see through: command plans, the      *)
(* cleanup after browser sessions, the audit outbox.  They share no        *)
(* variable, and one part moves in a behaviour while the others stay as    *)
(* they began, so that their states add up and do not multiply.            *)
(***************************************************************************)
EXTENDS CommandPlan, BrowserSessions, AuditOutbox

VARIABLE duty      (* the part that moves                                  *)

dutyVars == <<duty, planVars, browserVars, outboxVars>>

-----------------------------------------------------------------------------
(* Any initial state would do for a plan that does not move.                *)
DutiesInit ==
  /\ duty \in {"plan", "browser", "outbox"}
  /\ PlanInit /\ BrowserInit /\ OutboxInit
  /\ duty # "plan" => records = NoTitle /\ recipe = NoRecipe

PlanMoves    == duty = "plan" /\ PlanNext /\ UNCHANGED <<duty, browserVars, outboxVars>>
BrowserMoves == duty = "browser" /\ BrowserNext /\ UNCHANGED <<duty, planVars, outboxVars>>
OutboxMoves  == duty = "outbox" /\ OutboxNext /\ UNCHANGED <<duty, planVars, browserVars>>

DutiesNext == PlanMoves \/ BrowserMoves \/ OutboxMoves

(* The fairness of the parts.  A plan that rests has nothing to do; of the   *)
(* outbox it is asked only where the outbox moves; of the sessions, whose    *)
(* cleanup queue only the tests drive, none is assumed.                      *)
InOutbox == duty = "outbox"

DutiesFairness ==
  /\ WF_planVars(JobFinishes)
  /\ WF_outboxVars(InOutbox /\ BackoffPasses)
  /\ WF_outboxVars(InOutbox /\ TimerFires)
  /\ WF_outboxVars(InOutbox /\ Start)
  /\ \A d \in Drain : /\ WF_outboxVars(InOutbox /\ CallConnector(d))
                      /\ WF_outboxVars(InOutbox /\ ConnectorAnswers(d))
                      /\ WF_outboxVars(InOutbox /\ DrainEnds(d))

DutiesSpec == DutiesInit /\ [][DutiesNext]_dutyVars /\ DutiesFairness

-----------------------------------------------------------------------------
\* Type invariant of every part.
DutiesTypeOK == PlanTypeOK /\ BrowserTypeOK /\ OutboxTypeOK
=============================================================================
