----------------------------- MODULE RunnerFleet -----------------------------
(***************************************************************************)
(* The outbound runner workers (bin/runner-worker.mjs) working through the *)
(* runner API (webui/runner-routes.js, webui/runner-api.js) over the       *)
(* durable job table of JobStore.                                          *)
(*                                                                         *)
(* A worker polls, pulls one job, heartbeats, runs the job's command as a  *)
(* child process, heartbeats while it runs and posts one completion.  Each *)
(* post is an HTTP request that may be lost before it reaches the server,  *)
(* be refused, or be carried out and have its response lost; in the three  *)
(* cases the worker sees an error.  A request and the reading of its       *)
(* response are one step, except that a child can exit while the first     *)
(* heartbeat is under way ("spawned"), because runClaimedJob attaches its  *)
(* close listener only after that heartbeat.                               *)
(***************************************************************************)
EXTENDS JobStore

CONSTANTS
  Runner,   (* the outbound workers, a subset of Worker                     *)
  NoJob     (* the worker holds no job                                      *)

ASSUME FleetAssumption == Runner \subseteq Worker /\ NoJob \notin Job

VARIABLE wk  (* what each worker process keeps between two awaits           *)

fleetVars == <<row, wk>>

-----------------------------------------------------------------------------
WorkerPc   == {"poll", "prespawn", "spawned", "wait", "hung", "report"}
ChildState == {"none", "alive", "dying", "ok", "bad"}
Verdicts   == {"canceled", "failed", "succeeded"}

WorkerRecord == [pc: WorkerPc, job: Job \cup {NoJob}, child: ChildState,
                 cancel: BOOLEAN, hbErr: BOOLEAN, verdict: Verdicts \cup {"none"}]

Polling == [pc |-> "poll", job |-> NoJob, child |-> "none",
            cancel |-> FALSE, hbErr |-> FALSE, verdict |-> "none"]

ChildRuns(w) == wk[w].child \in {"alive", "dying"}

WorkerBecomes(w, rec) == wk' = [wk EXCEPT ![w] = rec]

-----------------------------------------------------------------------------
(* The runner API on the server.                                            *)

\* Wrong variant: a heartbeat is taken in any status.
HeartbeatAnyStatus(w, j) == row[j].worker = w /\ row[j].lease # "expired"

\* precheckActiveJob for a heartbeat: the caller's active row, lease not over.
ApiTakesHeartbeat(w, j) == Owns(w, row[j]) /\ row[j].lease # "expired"

\* Wrong variant: the verdict of the worker stands whatever the row says.
CompleteAsReported(r, verdict) == CompletedRow(r, verdict)

\* complete: a recorded cancel overrides the status the runner reports.
ApiCompletedRow(r, verdict) ==
  CompletedRow(r, IF CancelRequested(r) THEN "canceled" ELSE verdict)

\* cancel is open to any runner of the tenant while no other runner owns the job.
ApiTakesCancel(w, j) ==
  /\ row[j] # NoRow /\ TenantOf[w] = TenantOf[j]
  /\ IsActive(row[j]) => row[j].worker = w

\* One heartbeat post and what the worker learns from it.
PostHeartbeat(w, status, answer) ==
  LET j == wk[w].job IN
  \/ answer = "error" /\ UNCHANGED row
  \/ /\ ApiTakesHeartbeat(w, j)
     /\ SaveWebuiJob(j, HeartbeatRow(row[j], status))
     /\ answer \in {"error", IF CancelRequested(row[j]) THEN "cancel" ELSE "ok"}

-----------------------------------------------------------------------------
(* The worker.                                                              *)

\* pollOnce: pull the oldest job of the tenant.  commandForSpec may refuse the
\* command (specOk FALSE), and the response may never arrive (answered FALSE).
Pull(w) ==
  /\ wk[w].pc = "poll"
  /\ \E j \in Job, answered, specOk \in BOOLEAN :
       /\ NextClaimable(j, w, TRUE)
       /\ SaveWebuiJob(j, ClaimedRow(row[j], w))
       /\ WorkerBecomes(w,
            IF ~ answered THEN Polling
            ELSE IF specOk THEN [Polling EXCEPT !.pc = "prespawn", !.job = j]
            ELSE [Polling EXCEPT !.pc = "report", !.job = j, !.verdict = "failed"])

\* observeCancelBeforeSpawn, then spawn.
PreSpawn(w) ==
  /\ wk[w].pc = "prespawn"
  /\ \E answer \in {"ok", "cancel", "error"} :
       /\ PostHeartbeat(w, "claimed", answer)
       /\ WorkerBecomes(w,
            CASE answer = "ok"     -> [wk[w] EXCEPT !.pc = "spawned", !.child = "alive"]
              [] answer = "cancel" -> [wk[w] EXCEPT !.pc = "report", !.cancel = TRUE,
                                                    !.verdict = "canceled"]
              [] answer = "error"  -> [wk[w] EXCEPT !.pc = "report", !.hbErr = TRUE,
                                                    !.verdict = "failed"])

\* Wrong variant: a heartbeat that fails does not stop the child.
ObservedIgnoringErrors(r, answer) ==
  [r EXCEPT !.child  = IF answer = "cancel" /\ @ = "alive" THEN "dying" ELSE @,
            !.cancel = @ \/ answer = "cancel",
            !.hbErr  = @ \/ answer = "error"]

\* A heartbeat's outcome: a cancel or an error stops the child (stopChild).
Observed(r, answer) ==
  [r EXCEPT !.child  = IF answer # "ok" /\ @ = "alive" THEN "dying" ELSE @,
            !.cancel = @ \/ answer = "cancel",
            !.hbErr  = @ \/ answer = "error"]

\* The first heartbeat, awaited before waitForClose attaches its listener: a
\* child that exited meanwhile is never heard of.
FirstHeartbeat(w) ==
  /\ wk[w].pc = "spawned"
  /\ \E answer \in {"ok", "cancel", "error"} :
       /\ PostHeartbeat(w, "running", answer)
       /\ WorkerBecomes(w, [Observed(wk[w], answer) EXCEPT
                              !.pc = IF ChildRuns(w) THEN "wait" ELSE "hung"])

\* The heartbeat timer, which runs until the close is heard.
TimerHeartbeat(w) ==
  /\ wk[w].pc \in {"wait", "hung"}
  /\ \E answer \in {"ok", "cancel", "error"} :
       /\ PostHeartbeat(w, "running", answer)
       /\ WorkerBecomes(w, Observed(wk[w], answer))

\* Wrong variant: the exit code is not looked at.
VerdictIgnoringExit(r, exit) ==
  IF r.cancel THEN "canceled" ELSE IF r.hbErr THEN "failed" ELSE "succeeded"

\* terminalStatus
VerdictOf(r, exit) ==
  IF r.cancel THEN "canceled" ELSE IF r.hbErr \/ exit = "bad" THEN "failed" ELSE "succeeded"

\* The child process ends, on its own or because it was killed.
ChildExits(w) ==
  /\ ChildRuns(w)
  /\ \E exit \in {"ok", "bad"} :
       WorkerBecomes(w, [wk[w] EXCEPT
         !.child   = exit,
         !.pc      = IF @ = "wait" THEN "report" ELSE @,
         !.verdict = IF wk[w].pc = "wait" THEN VerdictOf(wk[w], exit) ELSE @])
  /\ UNCHANGED row

\* completeJob posts once; whatever happens to it runWorker goes on polling.
Report(w) ==
  /\ wk[w].pc = "report"
  /\ LET j == wk[w].job IN
     \/ Owns(w, row[j]) /\ SaveWebuiJob(j, ApiCompletedRow(row[j], wk[w].verdict))
     \/ UNCHANGED row
  /\ WorkerBecomes(w, Polling)

\* The worker process dies (a spawn error is an uncaught exception) and is
\* started again with the same identity.  A child it leaves behind runs on, but
\* nobody hears of it: only the worker writes the table.
WorkerCrash(w) ==
  /\ wk[w].pc # "poll"
  /\ WorkerBecomes(w, Polling)
  /\ UNCHANGED row

RunnerCancel(w) ==
  /\ \E j \in Job : ApiTakesCancel(w, j) /\ RequestWebuiJobCancel(j)
  /\ UNCHANGED wk

-----------------------------------------------------------------------------
(* The server side of the table.                                            *)

\* Job ids are handed out in order.
ServerEnqueue ==
  /\ \E j \in Job : EnqueueNew(j) /\ \A k \in Job : k < j => row[k] # NoRow
  /\ UNCHANGED wk

ServerCancel == (\E j \in Job : RequestWebuiJobCancel(j)) /\ UNCHANGED wk

\* Wrong variant: a restart also retries what workers still run.
RestartRetrying == ReconcileWebuiJobs(FALSE, TRUE, {}) /\ UNCHANGED wk

\* hydrateDurableJobs interrupts every active row; it never asks for a retry.
ServerRestart == ReconcileWebuiJobs(FALSE, FALSE, {}) /\ UNCHANGED wk

LeaseRunsOut == (\E j \in Job : LeaseExpires(j)) /\ UNCHANGED wk

-----------------------------------------------------------------------------
FleetInit == StoreInit /\ wk = [w \in Runner |-> Polling]

WorkerStep(w) == \/ Pull(w) \/ PreSpawn(w) \/ FirstHeartbeat(w) \/ TimerHeartbeat(w)
                 \/ ChildExits(w) \/ Report(w) \/ WorkerCrash(w) \/ RunnerCancel(w)

FleetNext ==
  \/ \E w \in Runner : WorkerStep(w)
  \/ ServerEnqueue \/ ServerCancel \/ ServerRestart \/ LeaseRunsOut

\* The event loop of a worker runs its posts and its timer; a killed child ends.
\* Nothing makes a healthy child end, a worker crash or the server restart.
FleetFairness == \A w \in Runner :
  /\ WF_fleetVars(PreSpawn(w)) /\ WF_fleetVars(FirstHeartbeat(w))
  /\ WF_fleetVars(TimerHeartbeat(w)) /\ WF_fleetVars(Report(w))
  /\ WF_fleetVars(ChildExits(w) /\ wk[w].child = "dying")

FleetSpec == FleetInit /\ [][FleetNext]_fleetVars /\ FleetFairness

-----------------------------------------------------------------------------
\* Type invariant of the worker processes.
FleetTypeOK == wk \in [Runner -> WorkerRecord]

\* Everything the runner API and a restart do to the table is an operation of
\* its contract, so what JobStore promises holds under workers that crash, lose
\* requests and answer late.
StoreContract == StoreSpec

\* Once a cancel is recorded the job never ends as succeeded, even when the
\* child finished well before the worker heard of the cancel.
CancelBeatsSuccess ==
  \A j \in Job : row[j].cancelled => row[j].status # "succeeded"

\* No two workers ever run a child for the same job, whatever restarts and
\* expired leases do to the row in between.
OneRunnerPerJob ==
  \A v, w \in Runner : ChildRuns(v) /\ ChildRuns(w) /\ wk[v].job = wk[w].job => v = w

\* What holds of the workers and the table in every state: the three above.
FleetIsSound == FleetTypeOK /\ CancelBeatsSuccess /\ OneRunnerPerJob

\* A worker whose job was canceled, or taken from it by a restart, stops its
\* child: the next heartbeat tells it or fails, and either kills the child.
LostJobStopsChild ==
  \A w \in Runner :
    (ChildRuns(w) /\ (~ Owns(w, row[wk[w].job]) \/ CancelRequested(row[wk[w].job])))
      ~> ~ ChildRuns(w)

\* README.md: the worker reports succeeded, failed or canceled: one whose child
\* has exited goes on to report and to poll again.
ExitIsReported ==
  \A w \in Runner : wk[w].child \in {"ok", "bad"} ~> wk[w].pc = "poll"
=============================================================================
