-------------------------- MODULE JobSystemProofs --------------------------
(***************************************************************************)
(* The job system, proved for every set of jobs and workers.               *)
(*                                                                         *)
(* First the outbound workers (RunnerFleet): they keep the contract of the *)
(* job table, never run a job twice and never let a success overtake a     *)
(* cancel.  Then the server's queue (LocalQueue), which writes whole       *)
(* records over the rows.  Last the two together (JobSystem).              *)
(***************************************************************************)
EXTENDS JobSystem, JobStoreProofs, WellFoundedInduction

-----------------------------------------------------------------------------
(* The outbound workers.                                                    *)

\* The operations of the table that the requests of a worker use.
WorkerTable(w) ==
  \/ UNCHANGED row
  \/ \E j \in Job :
       \/ ApiTakesCancel(w, j) /\ RequestWebuiJobCancel(j)
       \/ wk[w].pc = "poll" /\ ClaimWebuiJob(j, w, TRUE)
       \/ \E status \in {"claimed", "running"} : HeartbeatWebuiJob(j, w, status)
       \/ \E verdict \in Verdicts :
            /\ wk[w].pc = "report" /\ wk[w].job = j /\ wk[w].verdict = verdict
            /\ CompleteWebuiJob(j, w, IF CancelRequested(row[j]) THEN "canceled" ELSE verdict)

\* Those, and the ones of the server's requests, a restart and the clock.
FleetTable ==
  \/ \E w \in Runner : WorkerTable(w)
  \/ \E j \in Job : EnqueueNew(j) \/ RequestWebuiJobCancel(j) \/ LeaseExpires(j)
  \/ ReconcileWebuiJobs(FALSE, FALSE, {})
  \/ UNCHANGED row

Unclaimed == {"absent", "queued"}

\* What the fleet never does to a row: give one that was claimed back or to another
\* worker, or end it as succeeded against a recorded cancel.
Onward(r, s) ==
  /\ r.status \notin Unclaimed => s.status \notin Unclaimed /\ s.worker = r.worker
  /\ s.cancelled /\ s.status = "succeeded" => r.cancelled /\ r.status = "succeeded"

\* A worker that holds a job holds one of the table's; one whose child runs has spawned it
\* and not heard it close; one with a report to make has a verdict.
HoldsAJob(w) ==
  /\ wk[w].pc # "poll" => wk[w].job \in Job
  /\ ChildRuns(w) => wk[w].pc \in {"spawned", "wait", "hung"}
  /\ wk[w].pc = "report" => wk[w].verdict \in Verdicts

\* A worker that holds a job is the one its row names, even after the server has
\* interrupted the job.
RowNamesHolder(w) ==
  wk[w].pc # "poll" => /\ row[wk[w].job].worker = w
                       /\ row[wk[w].job].status \notin Unclaimed

FleetInv ==
  /\ StoreInv
  /\ FleetTypeOK
  /\ CancelBeatsSuccess
  /\ \A w \in Runner : HoldsAJob(w) /\ RowNamesHolder(w)

-----------------------------------------------------------------------------
\* A heartbeat post is a heartbeat of the table, or leaves the table alone.
LEMMA PostIsHeartbeat ==
  ASSUME NEW w \in Runner, NEW status \in {"claimed", "running"}, NEW answer,
         wk[w].job \in Job, PostHeartbeat(w, status, answer)
  PROVE  WorkerTable(w)
BY DEF PostHeartbeat, WorkerTable, ApiTakesHeartbeat, HeartbeatWebuiJob

\* Every step of a worker is an operation of the table, or leaves it alone.
LEMMA WorkerUsesTable ==
  ASSUME NEW w \in Runner, HoldsAJob(w), WorkerStep(w)
  PROVE  WorkerTable(w)
<1>1. CASE Pull(w)
  BY <1>1 DEF Pull, NextClaimable, ClaimWebuiJob, WorkerTable
<1>2. CASE PreSpawn(w)
  BY <1>2, PostIsHeartbeat DEF PreSpawn, HoldsAJob
<1>3. CASE FirstHeartbeat(w)
  BY <1>3, PostIsHeartbeat DEF FirstHeartbeat, HoldsAJob
<1>4. CASE TimerHeartbeat(w)
  BY <1>4, PostIsHeartbeat DEF TimerHeartbeat, HoldsAJob
<1>5. CASE ChildExits(w) \/ WorkerCrash(w)
  BY <1>5 DEF ChildExits, WorkerCrash, WorkerTable
<1>6. CASE Report(w)
  <2>1. wk[w].job \in Job /\ wk[w].verdict \in Verdicts /\ wk[w].pc = "report"
    BY <1>6 DEF Report, HoldsAJob
  <2>2. CASE UNCHANGED row BY <2>2 DEF WorkerTable
  <2>3. CASE /\ Owns(w, row[wk[w].job])
             /\ SaveWebuiJob(wk[w].job, ApiCompletedRow(row[wk[w].job], wk[w].verdict))
    BY <2>1, <2>3 DEF WorkerTable, CompleteWebuiJob, ApiCompletedRow
  <2>4. QED BY <1>6, <2>2, <2>3 DEF Report
<1>7. CASE RunnerCancel(w) BY <1>7 DEF RunnerCancel, WorkerTable
<1>8. QED BY <1>1, <1>2, <1>3, <1>4, <1>5, <1>6, <1>7 DEF WorkerStep

\* So is every step of the fleet.
LEMMA FleetUsesTable == FleetInv /\ [FleetNext]_fleetVars => FleetTable
<1> SUFFICES ASSUME FleetInv, [FleetNext]_fleetVars PROVE FleetTable
  OBVIOUS
<1>1. ASSUME NEW w \in Runner, WorkerStep(w) PROVE FleetTable
  BY <1>1, WorkerUsesTable DEF FleetInv, FleetTable
<1>2. CASE ServerEnqueue BY <1>2 DEF ServerEnqueue, FleetTable
<1>3. CASE ServerCancel BY <1>3 DEF ServerCancel, FleetTable
<1>4. CASE ServerRestart BY <1>4 DEF ServerRestart, FleetTable
<1>5. CASE LeaseRunsOut BY <1>5 DEF LeaseRunsOut, FleetTable
<1>6. CASE UNCHANGED fleetVars BY <1>6 DEF fleetVars, FleetTable
<1>7. QED BY <1>1, <1>2, <1>3, <1>4, <1>5, <1>6 DEF FleetNext

\* Those operations are operations of the contract.
LEMMA FleetTableInContract == FleetTable => [StoreNext]_row
<1>1. Runner \subseteq Worker BY FleetAssumption
<1>2. ASSUME NEW j \in Job, NEW w \in Runner, NEW verdict \in Verdicts,
             CompleteWebuiJob(j, w, IF CancelRequested(row[j]) THEN "canceled" ELSE verdict)
      PROVE  StoreNext
  <2>1. (IF CancelRequested(row[j]) THEN "canceled" ELSE verdict) \in TerminalStatus
    BY DEF Verdicts, TerminalStatus
  <2>2. QED BY <1>1, <1>2, <2>1 DEF StoreNext
<1>3. ASSUME NEW j \in Job, NEW w \in Runner, NEW status \in {"claimed", "running"},
             HeartbeatWebuiJob(j, w, status)
      PROVE  StoreNext
  BY <1>1, <1>3 DEF StoreNext, ActiveStatus
<1>4. ASSUME NEW j \in Job, NEW w \in Runner, ClaimWebuiJob(j, w, TRUE) PROVE StoreNext
  BY <1>1, <1>4 DEF StoreNext
<1>5. CASE ReconcileWebuiJobs(FALSE, FALSE, {}) BY <1>5 DEF StoreNext
<1>6. ASSUME NEW j \in Job, EnqueueNew(j) \/ RequestWebuiJobCancel(j) \/ LeaseExpires(j)
      PROVE  StoreNext
  BY <1>6 DEF StoreNext
<1>7. QED BY <1>2, <1>3, <1>4, <1>5, <1>6 DEF FleetTable, WorkerTable

-----------------------------------------------------------------------------
\* A row that stays is no step back.
LEMMA OnwardKept == ASSUME NEW r PROVE Onward(r, r)
BY DEF Onward

\* What each operation of the fleet writes is onward of what it found.
LEMMA RowsGoOnward ==
  ASSUME NEW r \in Row
  PROVE  /\ r = NoRow => Onward(r, QueuedRow)
         /\ Onward(r, CancelledRow(r))
         /\ Onward(r, [r EXCEPT !.lease = "expired"])
         /\ \A w \in Worker : r.status = "queued" => Onward(r, ClaimedRow(r, w))
         /\ \A s \in {"claimed", "running"} : IsActive(r) => Onward(r, HeartbeatRow(r, s))
         /\ \A v \in Verdicts :
              IsActive(r) =>
                Onward(r, CompletedRow(r, IF CancelRequested(r) THEN "canceled" ELSE v))
         /\ IsActive(r) => Onward(r, InterruptedRow(r))
<1> USE DEF Onward, Unclaimed, Row, IsActive, ActiveStatus, TerminalStatus, JobStatus
<1>1. r = NoRow => Onward(r, QueuedRow) BY DEF NoRow, QueuedRow
<1>2. Onward(r, CancelledRow(r)) BY DEF CancelledRow
<1>3. Onward(r, [r EXCEPT !.lease = "expired"]) OBVIOUS
<1>4. ASSUME NEW w \in Worker, r.status = "queued" PROVE Onward(r, ClaimedRow(r, w))
  <2>1. ClaimedRow(r, w).status = "claimed" BY DEF ClaimedRow
  <2>2. QED BY <1>4, <2>1
<1>5. ASSUME NEW s \in {"claimed", "running"}, IsActive(r) PROVE Onward(r, HeartbeatRow(r, s))
  BY <1>5 DEF HeartbeatRow
<1>6. ASSUME NEW v \in Verdicts, IsActive(r)
      PROVE  Onward(r, CompletedRow(r, IF CancelRequested(r) THEN "canceled" ELSE v))
  BY <1>6 DEF CompletedRow, CancelRequested, Verdicts
<1>7. IsActive(r) => Onward(r, InterruptedRow(r)) BY DEF InterruptedRow
<1>8. QED BY <1>1, <1>2, <1>3, <1>4, <1>5, <1>6, <1>7

\* A save writes the row of its job, and no other.
LEMMA SavedRow ==
  ASSUME row \in [Job -> Row], NEW j \in Job, NEW rec, SaveWebuiJob(j, rec), NEW k \in Job
  PROVE  row'[k] = IF k = j THEN rec ELSE row[k]
BY DEF SaveWebuiJob

\* No step of the fleet takes a row back.
LEMMA TableGoesOnward ==
  ASSUME StoreInv, FleetTable
  PROVE  \A k \in Job : Onward(row[k], row'[k])
<1> TAKE k \in Job
<1>0. /\ row \in [Job -> Row] /\ row[k] \in Row
  BY DEF StoreInv
<1>1. CASE UNCHANGED row BY <1>1, OnwardKept
<1>2. ASSUME NEW j \in Job, EnqueueNew(j) PROVE Onward(row[k], row'[k])
  BY <1>0, <1>2, SavedRow, OnwardKept, RowsGoOnward DEF EnqueueNew
<1>3. ASSUME NEW j \in Job, RequestWebuiJobCancel(j) PROVE Onward(row[k], row'[k])
  BY <1>0, <1>3, SavedRow, OnwardKept, RowsGoOnward DEF RequestWebuiJobCancel
<1>4. ASSUME NEW j \in Job, LeaseExpires(j) PROVE Onward(row[k], row'[k])
  <2>1. row'[k] = IF k = j THEN [row[k] EXCEPT !.lease = "expired"] ELSE row[k]
    BY <1>0, <1>4 DEF LeaseExpires
  <2>2. QED BY <1>0, <2>1, OnwardKept, RowsGoOnward
<1>5. ASSUME NEW j \in Job, NEW w \in Runner, ClaimWebuiJob(j, w, TRUE)
      PROVE  Onward(row[k], row'[k])
  <2>1. row'[k] = IF k = j THEN ClaimedRow(row[k], w) ELSE row[k]
    BY <1>0, <1>5, SavedRow DEF ClaimWebuiJob
  <2>2. w \in Worker /\ (k = j => row[k].status = "queued")
    BY <1>5, FleetAssumption DEF ClaimWebuiJob, Claimable
  <2>3. QED BY <1>0, <2>1, <2>2, OnwardKept, RowsGoOnward
<1>6. ASSUME NEW j \in Job, NEW w \in Runner, NEW s \in {"claimed", "running"},
             HeartbeatWebuiJob(j, w, s)
      PROVE  Onward(row[k], row'[k])
  BY <1>0, <1>6, SavedRow, OnwardKept, RowsGoOnward DEF HeartbeatWebuiJob, Owns
<1>7. ASSUME NEW j \in Job, NEW w \in Runner, NEW v \in Verdicts,
             CompleteWebuiJob(j, w, IF CancelRequested(row[j]) THEN "canceled" ELSE v)
      PROVE  Onward(row[k], row'[k])
  <2>1. row'[k] = IF k = j
                  THEN CompletedRow(row[k], IF CancelRequested(row[k]) THEN "canceled" ELSE v)
                  ELSE row[k]
    BY <1>0, <1>7, SavedRow DEF CompleteWebuiJob
  <2>2. k = j => IsActive(row[k]) BY <1>7 DEF CompleteWebuiJob, Owns
  <2>3. QED BY <1>0, <2>1, <2>2, OnwardKept, RowsGoOnward
<1>8. CASE ReconcileWebuiJobs(FALSE, FALSE, {})
  <2>1. row'[k] = row[k] \/ (IsActive(row[k]) /\ row'[k] = InterruptedRow(row[k]))
    BY <1>8 DEF ReconcileWebuiJobs, ReconciledTable, ReconciledRow
  <2>2. QED BY <1>0, <2>1, OnwardKept, RowsGoOnward
<1>9. QED
  BY <1>1, <1>2, <1>3, <1>4, <1>5, <1>6, <1>7, <1>8 DEF FleetTable, WorkerTable

-----------------------------------------------------------------------------
\* What a worker keeps when it pulls job j: it is about to run it, or reports a command it
\* was refused.
Takes(rec, j) ==
  /\ rec.job = j /\ rec.child = "none"
  /\ rec.pc = "prespawn" \/ (rec.pc = "report" /\ rec.verdict = "failed")

\* What it keeps when it goes on with the job it holds: it spawns only with a heartbeat
\* that was taken, and reports a success only of a child that exited with 0.
GoesOn(w, rec) ==
  /\ wk[w].pc # "poll" /\ rec.pc \notin {"poll", "prespawn"} /\ rec.job = wk[w].job
  /\ rec.pc = "report" => rec.verdict \in Verdicts /\ rec.child \notin {"alive", "dying"}
  /\ rec.pc = "report" /\ rec.verdict = "succeeded" => ChildRuns(w) /\ rec.child = "ok"
  /\ wk[w].child = "none" /\ rec.child = "alive"
       => wk[w].pc = "prespawn" /\ Owns(w, row[wk[w].job])

\* A worker's step from its own record to the next.
WorkerMove(w, rec) ==
  \/ rec = Polling \/ rec = wk[w] \/ GoesOn(w, rec)
  \/ \E j \in Job : /\ wk[w].pc = "poll" /\ row[j].status = "queued"
                    /\ SaveWebuiJob(j, ClaimedRow(row[j], w)) /\ Takes(rec, j)

\* Every step of a worker is such a move.
LEMMA WorkerMoves ==
  ASSUME FleetTypeOK, NEW w \in Runner, HoldsAJob(w), WorkerStep(w)
  PROVE  \E rec \in WorkerRecord : WorkerBecomes(w, rec) /\ WorkerMove(w, rec)
<1> DEFINE Goal == \E rec \in WorkerRecord : WorkerBecomes(w, rec) /\ WorkerMove(w, rec)
<1>0. wk \in [Runner -> WorkerRecord] /\ wk[w] \in WorkerRecord BY DEF FleetTypeOK
<1>p. Polling \in WorkerRecord
  BY DEF Polling, WorkerRecord, WorkerPc, ChildState, Verdicts
<1>1. CASE Pull(w)
  <2>1. PICK j \in Job, answered \in BOOLEAN, specOk \in BOOLEAN :
          /\ row[j].status = "queued"
          /\ SaveWebuiJob(j, ClaimedRow(row[j], w))
          /\ WorkerBecomes(w,
               IF ~ answered THEN Polling
               ELSE IF specOk THEN [Polling EXCEPT !.pc = "prespawn", !.job = j]
               ELSE [Polling EXCEPT !.pc = "report", !.job = j, !.verdict = "failed"])
    BY <1>1 DEF Pull, NextClaimable, Claimable
  <2>2. CASE ~ answered BY <1>p, <2>1, <2>2 DEF WorkerMove
  <2>3. CASE answered
    <3> DEFINE rec == IF specOk THEN [Polling EXCEPT !.pc = "prespawn", !.job = j]
                      ELSE [Polling EXCEPT !.pc = "report", !.job = j, !.verdict = "failed"]
    <3>1. rec \in WorkerRecord /\ Takes(rec, j)
      BY DEF Takes, Polling, WorkerRecord, WorkerPc, ChildState, Verdicts
    <3>2. WorkerBecomes(w, rec) BY <2>1, <2>3
    <3> HIDE DEF rec
    <3>3. wk[w].pc = "poll" BY <1>1 DEF Pull
    <3>4. QED BY <2>1, <3>1, <3>2, <3>3 DEF WorkerMove
  <2>4. QED BY <2>2, <2>3
<1>2. CASE PreSpawn(w)
  <2>0. wk[w].pc = "prespawn" BY <1>2 DEF PreSpawn
  <2>1. \/ /\ Owns(w, row[wk[w].job])
           /\ WorkerBecomes(w, [wk[w] EXCEPT !.pc = "spawned", !.child = "alive"])
        \/ WorkerBecomes(w, [wk[w] EXCEPT !.pc = "report", !.cancel = TRUE,
                                          !.verdict = "canceled"])
        \/ WorkerBecomes(w, [wk[w] EXCEPT !.pc = "report", !.hbErr = TRUE,
                                          !.verdict = "failed"])
    BY <1>2 DEF PreSpawn, PostHeartbeat, ApiTakesHeartbeat
  <2>2. CASE /\ Owns(w, row[wk[w].job])
             /\ WorkerBecomes(w, [wk[w] EXCEPT !.pc = "spawned", !.child = "alive"])
    <3> DEFINE rec == [wk[w] EXCEPT !.pc = "spawned", !.child = "alive"]
    <3>1. rec \in WorkerRecord /\ rec.pc = "spawned" /\ rec.job = wk[w].job
      BY <1>0 DEF WorkerRecord, WorkerPc, ChildState
    <3>2. GoesOn(w, rec) BY <2>0, <2>2, <3>1 DEF GoesOn
    <3>3. QED BY <2>2, <3>1, <3>2 DEF WorkerMove
  <2>3. CASE WorkerBecomes(w, [wk[w] EXCEPT !.pc = "report", !.cancel = TRUE,
                                            !.verdict = "canceled"])
    <3> DEFINE rec == [wk[w] EXCEPT !.pc = "report", !.cancel = TRUE, !.verdict = "canceled"]
    <3>1. /\ rec \in WorkerRecord /\ rec.pc = "report" /\ rec.job = wk[w].job
          /\ rec.verdict = "canceled" /\ rec.child = wk[w].child
      BY <1>0 DEF WorkerRecord, WorkerPc, ChildState, Verdicts
    <3>2. GoesOn(w, rec) BY <2>0, <3>1 DEF GoesOn, Verdicts, HoldsAJob, ChildRuns
    <3>3. QED BY <2>3, <3>1, <3>2 DEF WorkerMove
  <2>4. CASE WorkerBecomes(w, [wk[w] EXCEPT !.pc = "report", !.hbErr = TRUE,
                                            !.verdict = "failed"])
    <3> DEFINE rec == [wk[w] EXCEPT !.pc = "report", !.hbErr = TRUE, !.verdict = "failed"]
    <3>1. /\ rec \in WorkerRecord /\ rec.pc = "report" /\ rec.job = wk[w].job
          /\ rec.verdict = "failed" /\ rec.child = wk[w].child
      BY <1>0 DEF WorkerRecord, WorkerPc, ChildState, Verdicts
    <3>2. GoesOn(w, rec) BY <2>0, <3>1 DEF GoesOn, Verdicts, HoldsAJob, ChildRuns
    <3>3. QED BY <2>4, <3>1, <3>2 DEF WorkerMove
  <2>5. QED BY <2>1, <2>2, <2>3, <2>4
<1>3. CASE FirstHeartbeat(w) \/ TimerHeartbeat(w)
  <2>1. PICK answer \in {"ok", "cancel", "error"}, pc \in {"wait", "hung"} :
          WorkerBecomes(w, [Observed(wk[w], answer) EXCEPT !.pc = pc])
    <3>1. CASE FirstHeartbeat(w) BY <3>1 DEF FirstHeartbeat
    <3>2. CASE TimerHeartbeat(w)
      <4>1. \A answer : [Observed(wk[w], answer) EXCEPT !.pc = wk[w].pc]
                           = Observed(wk[w], answer)
        BY <1>0 DEF Observed, WorkerRecord
      <4>2. QED BY <3>2, <4>1 DEF TimerHeartbeat
    <3>3. QED BY <1>3, <3>1, <3>2
  <2>2. wk[w].pc # "poll" BY <1>3 DEF FirstHeartbeat, TimerHeartbeat
  <2> DEFINE rec == [Observed(wk[w], answer) EXCEPT !.pc = pc]
  <2>3. /\ rec \in WorkerRecord /\ rec.pc = pc /\ rec.job = wk[w].job
        /\ rec.child = "alive" => wk[w].child = "alive"
    BY <1>0 DEF Observed, WorkerRecord, WorkerPc, ChildState
  <2>4. GoesOn(w, rec) BY <2>2, <2>3 DEF GoesOn
  <2>5. QED BY <2>1, <2>3, <2>4 DEF WorkerMove
<1>4. CASE ChildExits(w)
  <2>0. wk[w].pc \in {"spawned", "wait", "hung"} /\ ChildRuns(w)
    BY <1>4 DEF ChildExits, HoldsAJob
  <2>1. PICK exit \in {"ok", "bad"} :
          WorkerBecomes(w, [wk[w] EXCEPT
            !.child   = exit,
            !.pc      = IF @ = "wait" THEN "report" ELSE @,
            !.verdict = IF wk[w].pc = "wait" THEN VerdictOf(wk[w], exit) ELSE @])
    BY <1>4 DEF ChildExits
  <2> DEFINE rec == [wk[w] EXCEPT
            !.child   = exit,
            !.pc      = IF @ = "wait" THEN "report" ELSE @,
            !.verdict = IF wk[w].pc = "wait" THEN VerdictOf(wk[w], exit) ELSE @]
  <2>2. VerdictOf(wk[w], exit) \in Verdicts /\ (VerdictOf(wk[w], exit) = "succeeded" => exit = "ok")
    BY DEF VerdictOf, Verdicts
  <2>3. /\ rec \in WorkerRecord /\ rec.job = wk[w].job /\ rec.child = exit
        /\ rec.pc = IF wk[w].pc = "wait" THEN "report" ELSE wk[w].pc
        /\ rec.verdict = IF wk[w].pc = "wait" THEN VerdictOf(wk[w], exit) ELSE wk[w].verdict
    BY <1>0, <2>2 DEF WorkerRecord, WorkerPc, ChildState
  <2> HIDE DEF rec
  <2>4. GoesOn(w, rec) BY <2>0, <2>2, <2>3 DEF GoesOn
  <2>5. QED BY <2>1, <2>3, <2>4 DEF WorkerMove, rec
<1>5. CASE Report(w) \/ WorkerCrash(w)
  BY <1>p, <1>5 DEF Report, WorkerCrash, WorkerMove
<1>6. CASE RunnerCancel(w)
  <2>1. WorkerBecomes(w, wk[w]) BY <1>0, <1>6 DEF RunnerCancel, WorkerBecomes
  <2>2. QED BY <1>0, <2>1 DEF WorkerMove
<1>7. QED BY <1>1, <1>2, <1>3, <1>4, <1>5, <1>6 DEF WorkerStep

\* After its move a worker still holds a job of the table, or none.
LEMMA MoverHoldsAJob ==
  ASSUME FleetTypeOK, NEW w \in Runner, HoldsAJob(w),
         NEW rec \in WorkerRecord, WorkerBecomes(w, rec), WorkerMove(w, rec)
  PROVE  FleetTypeOK' /\ HoldsAJob(w)'
<1>1. wk' \in [Runner -> WorkerRecord] /\ wk'[w] = rec BY DEF FleetTypeOK, WorkerBecomes
<1>2. CASE rec = Polling BY <1>1, <1>2 DEF HoldsAJob, FleetTypeOK, Polling, ChildRuns
<1>3. CASE rec = wk[w] BY <1>1, <1>3 DEF HoldsAJob, FleetTypeOK, ChildRuns
<1>4. CASE GoesOn(w, rec)
  <2>1. rec.job \in Job BY <1>4 DEF GoesOn, HoldsAJob
  <2>2. rec.child \in {"alive", "dying"} => rec.pc \in {"spawned", "wait", "hung"}
    BY <1>4 DEF GoesOn, WorkerRecord, WorkerPc
  <2>3. QED BY <1>1, <1>4, <2>1, <2>2 DEF HoldsAJob, FleetTypeOK, ChildRuns, GoesOn
<1>5. ASSUME NEW j \in Job, Takes(rec, j) PROVE FleetTypeOK' /\ HoldsAJob(w)'
  BY <1>1, <1>5 DEF HoldsAJob, FleetTypeOK, ChildRuns, Takes, Verdicts
<1>6. QED BY <1>2, <1>3, <1>4, <1>5 DEF WorkerMove

\* Nothing goes back to the queue, so the row of a worker that holds a job still names it
\* after any step.
LEMMA WorkersKept ==
  ASSUME FleetInv, [FleetNext]_fleetVars
  PROVE  FleetTypeOK' /\ \A v \in Runner : HoldsAJob(v)' /\ RowNamesHolder(v)'
<1>0. /\ \A k \in Job : Onward(row[k], row'[k])
      /\ FleetTypeOK /\ wk \in [Runner -> WorkerRecord]
      /\ row \in [Job -> Row]
  BY FleetUsesTable, TableGoesOnward DEF FleetInv, FleetTypeOK, StoreInv
<1>1. ASSUME NEW v \in Runner, wk'[v] = wk[v] PROVE HoldsAJob(v)' /\ RowNamesHolder(v)'
  <2>1. HoldsAJob(v) /\ RowNamesHolder(v) BY DEF FleetInv
  <2>2. QED BY <1>0, <1>1, <2>1 DEF HoldsAJob, RowNamesHolder, ChildRuns, Onward
<1>2. CASE UNCHANGED wk
  BY <1>0, <1>1, <1>2 DEF FleetTypeOK
<1>3. ASSUME NEW w \in Runner, WorkerStep(w)
      PROVE  FleetTypeOK' /\ \A v \in Runner : HoldsAJob(v)' /\ RowNamesHolder(v)'
  <2>0. HoldsAJob(w) /\ RowNamesHolder(w) BY DEF FleetInv
  <2>1. PICK rec \in WorkerRecord : WorkerBecomes(w, rec) /\ WorkerMove(w, rec)
    BY <1>0, <1>3, <2>0, WorkerMoves
  <2>2. FleetTypeOK' /\ HoldsAJob(w)' BY <1>0, <2>0, <2>1, MoverHoldsAJob
  <2>3. wk'[w] = rec /\ \A v \in Runner : v # w => wk'[v] = wk[v]
    BY <1>0, <2>1 DEF WorkerBecomes
  <2>4. RowNamesHolder(w)'
    <3>1. CASE rec = Polling BY <2>3, <3>1 DEF RowNamesHolder, Polling
    <3>2. CASE rec = wk[w] BY <1>1, <2>3, <3>2
    <3>3. CASE GoesOn(w, rec)
      BY <1>0, <2>0, <2>3, <3>3 DEF GoesOn, RowNamesHolder, HoldsAJob, Onward
    <3>4. ASSUME NEW j \in Job, row[j].status = "queued",
                 SaveWebuiJob(j, ClaimedRow(row[j], w)), Takes(rec, j)
          PROVE  RowNamesHolder(w)'
      <4>1. row'[j] = ClaimedRow(row[j], w) /\ row[j] \in Row BY <1>0, <3>4, SavedRow
      <4>2. row'[j].worker = w /\ row'[j].status = "claimed" BY <4>1 DEF ClaimedRow, Row
      <4>3. QED BY <2>3, <3>4, <4>2 DEF RowNamesHolder, Takes, Unclaimed
    <3>5. QED BY <2>1, <3>1, <3>2, <3>3, <3>4 DEF WorkerMove
  <2>5. QED BY <1>1, <2>2, <2>3, <2>4
<1>4. QED
  BY <1>2, <1>3 DEF FleetNext, ServerEnqueue, ServerCancel, ServerRestart, LeaseRunsOut,
                    fleetVars

\* Every step keeps the invariant.
LEMMA FleetInvPreserved == FleetInv /\ [FleetNext]_fleetVars => FleetInv'
<1> SUFFICES ASSUME FleetInv, [FleetNext]_fleetVars PROVE FleetInv'
  OBVIOUS
<1>1. StoreInv'
  BY FleetUsesTable, FleetTableInContract, StoreInvPreserved DEF FleetInv
<1>2. CancelBeatsSuccess'
  BY FleetUsesTable, TableGoesOnward DEF FleetInv, CancelBeatsSuccess, Onward
<1>3. QED BY <1>1, <1>2, WorkersKept DEF FleetInv

\* Initially no worker holds a job.
LEMMA FleetInitOK == FleetInit => FleetInv
<1> SUFFICES ASSUME FleetInit PROVE FleetInv OBVIOUS
<1>1. \A j \in Job : row[j] = NoRow BY DEF FleetInit, StoreInit
<1>2. StoreInv
  <2>1. \A j \in Job : RowOK(j, row[j]) BY <1>1, NewRowOK
  <2>2. row \in [Job -> Row] BY <2>1 DEF FleetInit, StoreInit, RowOK
  <2>3. QED BY <2>1, <2>2 DEF StoreInv
<1>3. CancelBeatsSuccess BY <1>1 DEF CancelBeatsSuccess, NoRow
<1>4. FleetTypeOK
  BY DEF FleetInit, FleetTypeOK, Polling, WorkerRecord, WorkerPc, ChildState, Verdicts
<1>5. \A w \in Runner : HoldsAJob(w) /\ RowNamesHolder(w)
  BY DEF FleetInit, HoldsAJob, RowNamesHolder, Polling, ChildRuns
<1>6. QED BY <1>2, <1>3, <1>4, <1>5 DEF FleetInv

\* The invariant holds in every state of the fleet.
THEOREM FleetInvariant == FleetSpec => []FleetInv
BY FleetInitOK, FleetInvPreserved, PTL DEF FleetSpec

\* The workers keep their types, a recorded cancel is never followed by success, and no
\* two workers run a child for the same job, whatever is lost and whoever restarts.
THEOREM FleetSound == FleetSpec => []FleetIsSound
<1>1. FleetInv => FleetIsSound
  <2> SUFFICES ASSUME FleetInv PROVE FleetIsSound OBVIOUS
  <2>1. OneRunnerPerJob BY DEF OneRunnerPerJob, FleetInv, HoldsAJob, RowNamesHolder
  <2>2. QED BY <2>1 DEF FleetInv, FleetIsSound
<1>2. QED BY <1>1, FleetInvariant, PTL

\* The workers, the runner API, the restart and the clock implement the contract of the
\* table: each of their steps is one of its operations or leaves it alone.
THEOREM FleetKeepsContract == FleetSpec => StoreContract
<1>1. FleetInit => StoreInit BY DEF FleetInit
<1>2. FleetInv /\ [FleetNext]_fleetVars => [StoreNext]_row
  BY FleetUsesTable, FleetTableInContract
<1>3. FleetSpec => StoreSpec
  BY <1>1, <1>2, FleetInvariant, PTL DEF FleetSpec, StoreSpec
<1>4. QED BY <1>3 DEF StoreContract

\* So what the contract promises of the rows holds under workers: an outcome is final, a
\* job in flight does not change hands, and it has an owner of its own tenant.
THEOREM FleetKeepsRows ==
  FleetSpec => TerminalRowIsFinal /\ NoStolenClaim /\ []ActiveRowIsOwned
<1>1. FleetSpec => StoreSpec BY FleetKeepsContract DEF StoreContract
<1>2. QED BY <1>1, StoreTerminalFinal, StoreNoTheft, StoreOwnership

-----------------------------------------------------------------------------
(* The server's queue.                                                      *)

\* A record that is not there, or waits, is a blank one; one with a cancel on it is on
\* its way to an end.
RecordOK(r) ==
  /\ r \in Row
  /\ r.status = "absent" => r = NoRow
  /\ r.status = "queued" => r = QueuedRow
  /\ r.cancelled => r.status \in {"canceling"} \cup TerminalStatus

\* The ids a server knows are ones it has handed out or read back; in strict mode there
\* are no others.
IdOK(j) ==
  /\ mem[j] # NoRow => j <= seq /\ row[j] # NoRow
  /\ strict /\ row[j] # NoRow => j <= seq

\* In memory only the running job is in flight; a job on the chain is known; one that is
\* over is over in the table.
MemoryOK(j) ==
  /\ IsActive(mem[j]) => j = cur
  /\ j \in chain => mem[j] # NoRow
  /\ IsTerminal(mem[j]) => row[j].status = mem[j].status

\* What the histories say of a job: one that waits has neither run nor exited; one that
\* succeeded has exited with 0; an acknowledged cancel is in the row, and in the memory
\* if the job is there.
PastOK(j) ==
  /\ row[j].status \in Unclaimed => j \notin ran \cup green
  /\ row[j].status = "succeeded" => j \in green
  /\ j \in acked => /\ row[j].cancelled
                    /\ row[j].status \in {"canceling", "canceled", "interrupted"}
                    /\ mem[j] # NoRow => mem[j].cancelled

JobOK(j) == RecordOK(row[j]) /\ RecordOK(mem[j]) /\ IdOK(j) /\ MemoryOK(j) /\ PastOK(j)

\* The running job is in flight in the server's name, in the table and in memory, and is
\* off the chain.
SlotOK ==
  /\ cur = Idle <=> child = "none"
  /\ cur # Idle => Owns(Local, row[cur]) /\ Owns(Local, mem[cur]) /\ cur \notin chain

\* Only some ids are in use.
IdsAreBounded == \E n \in Nat : \A j \in Job : row[j] # NoRow => j <= n

QueueInv ==
  /\ QueueTypeOK /\ row \in [Job -> Row]
  /\ IdsAreBounded /\ SlotOK
  /\ \A j \in Job : JobOK(j)

-----------------------------------------------------------------------------
(* Facts about numbers and records.                                         *)

\* Some numbers have a smallest one.
LEMMA SmallestNat ==
  ASSUME NEW S \in SUBSET Nat, S # {}
  PROVE  \E x \in S : \A y \in S : x <= y
<1> DEFINE Below == {p \in Nat \X Nat : p[1] < p[2]}
<1>1. OpToRel(<, Nat) = Below
  BY Zenon DEF OpToRel
<1>2. IsWellFoundedOn(Below, Nat)
  BY <1>1, NatLessThanWellFounded, Zenon
<1>3. PICK x \in S : \A y \in S : ~ (<<y, x>> \in Below)
  <2> HIDE DEF Below
  <2> QED BY <1>2, WFMin
<1>4. \A y \in S : x <= y
  <2> TAKE y \in S
  <2>1. <<y, x>> \in Nat \X Nat /\ <<y, x>>[1] = y /\ <<y, x>>[2] = x OBVIOUS
  <2>2. ~ (<<y, x>>[1] < <<y, x>>[2]) BY <1>3, <2>1
  <2>3. x \in Nat /\ y \in Nat OBVIOUS
  <2>4. QED BY <2>1, <2>2, <2>3
<1>5. QED BY <1>4

\* The first job of the chain is on it.
LEMMA FirstOfChain ==
  ASSUME NEW S \in SUBSET Nat, S # {}
  PROVE  Min(S) \in S
BY SmallestNat DEF Min

\* Numbers with a bound have a largest one.
LEMMA LastOfIds ==
  ASSUME NEW S \in SUBSET Nat, S # {}, NEW n \in Nat, \A x \in S : x <= n
  PROVE  Max(S) \in S /\ \A x \in S : x <= Max(S)
<1> DEFINE Bounds == {m \in Nat : \A x \in S : x <= m}
<1>1. PICK b \in Bounds : \A m \in Bounds : b <= m
  BY SmallestNat
<1>2. b \in S
  <2>1. SUFFICES ASSUME b \notin S PROVE FALSE OBVIOUS
  <2>2. b \in Nat /\ \A x \in S : x \in Nat /\ x < b BY <2>1
  <2>3. b - 1 \in Nat /\ \A x \in S : x <= b - 1
    <3>1. PICK x \in S : TRUE OBVIOUS
    <3>2. b >= 1 BY <2>2, <3>1
    <3>3. QED BY <2>2, <3>2
  <2>4. QED BY <1>1, <2>2, <2>3
<1>3. QED BY <1>1, <1>2 DEF Max

\* The records the server starts with.
LEMMA BlankRecords ==
  /\ NoRow \in Row /\ QueuedRow \in Row
  /\ NoRow.status = "absent" /\ ~ NoRow.cancelled /\ NoRow.worker = NoWorker
  /\ QueuedRow.status = "queued" /\ ~ QueuedRow.cancelled /\ QueuedRow.worker = NoWorker
  /\ QueuedRow # NoRow
BY DEF NoRow, QueuedRow, Row, JobStatus, ActiveStatus, TerminalStatus, Lease

\* What a record becomes when only its status changes.
LEMMA StatusSet ==
  ASSUME NEW r \in Row, NEW s \in ActiveStatus \cup TerminalStatus
  PROVE  /\ InState(r, s) \in Row /\ InState(r, s).status = s
         /\ InState(r, s).cancelled = r.cancelled /\ InState(r, s).worker = r.worker
BY DEF InState, Row, JobStatus

-----------------------------------------------------------------------------
(* A step that writes the row and the record of one job.                    *)

\* Job j gets row r and record m; of the other jobs nothing changes, but that they may be
\* taken off the chain; the slot changes only between idle and j.
WritesOne(j, r, m) ==
  /\ row' = [row EXCEPT ![j] = r] /\ mem' = [mem EXCEPT ![j] = m]
  /\ strict' = strict /\ seq' \in Nat /\ seq <= seq'
  /\ chain' \subseteq Job /\ overran' \subseteq Job /\ acked' \subseteq Job
  /\ ran' \subseteq Job /\ green' \subseteq Job
  /\ \A k \in Job \ {j} : /\ k \in chain' => k \in chain
                          /\ k \in acked' <=> k \in acked
                          /\ k \in ran' <=> k \in ran
                          /\ k \in green' <=> k \in green
  /\ child' \in {"none", "alive", "dying"} /\ (cur' = Idle <=> child' = "none")
  /\ cur' = cur \/ (cur \in {Idle, j} /\ cur' \in {Idle, j})

\* What is then left to show of j.
WrittenOK(j, r, m) ==
  /\ RecordOK(r) /\ RecordOK(m)
  /\ m # NoRow => j <= seq' /\ r # NoRow
  /\ strict /\ r # NoRow => j <= seq'
  /\ IsActive(m) => j = cur'
  /\ j \in chain' => m # NoRow
  /\ IsTerminal(m) => r.status = m.status
  /\ r.status \in Unclaimed => j \notin ran' \cup green'
  /\ r.status = "succeeded" => j \in green'
  /\ j \in acked' => /\ r.cancelled
                     /\ r.status \in {"canceling", "canceled", "interrupted"}
                     /\ m # NoRow => m.cancelled
  /\ cur' = j => Owns(Local, r) /\ Owns(Local, m) /\ j \notin chain'

LEMMA OneJobWritten ==
  ASSUME QueueInv, NEW j \in Job, NEW r, NEW m, WritesOne(j, r, m), WrittenOK(j, r, m)
  PROVE  QueueInv'
<1>0. /\ row \in [Job -> Row] /\ mem \in [Job -> Row] /\ seq \in Nat /\ strict \in BOOLEAN
      /\ cur \in Job \cup {Idle} /\ Idle \notin Job /\ r \in Row /\ m \in Row
      /\ Job \subseteq Nat
  BY StoreAssumption, QueueAssumption DEF QueueInv, QueueTypeOK, WrittenOK, RecordOK
<1>1. /\ row' \in [Job -> Row] /\ mem' \in [Job -> Row]
      /\ row'[j] = r /\ mem'[j] = m
      /\ \A k \in Job \ {j} : row'[k] = row[k] /\ mem'[k] = mem[k]
  BY <1>0 DEF WritesOne
<1>2. QueueTypeOK'
  BY <1>0, <1>1 DEF QueueTypeOK, WritesOne
<1>3. IdsAreBounded'
  <2>1. PICK n \in Nat : \A k \in Job : row[k] # NoRow => k <= n
    BY DEF QueueInv, IdsAreBounded
  <2>2. CASE j <= n BY <1>1, <2>1, <2>2 DEF IdsAreBounded
  <2>3. CASE ~ (j <= n)
    <3>1. j \in Nat /\ \A k \in Job : row'[k] # NoRow => k <= j
      BY <1>0, <1>1, <2>1, <2>3
    <3>2. QED BY <3>1 DEF IdsAreBounded
  <2>4. QED BY <2>2, <2>3
<1>4. SlotOK'
  <2>1. CASE cur' = Idle BY <2>1 DEF SlotOK, WritesOne
  <2>2. CASE cur' = j BY <1>1, <2>2 DEF SlotOK, WritesOne, WrittenOK
  <2>3. CASE cur' = cur /\ cur # Idle /\ cur # j
    <3>1. /\ cur \in Job \ {j} /\ Owns(Local, row[cur]) /\ Owns(Local, mem[cur])
          /\ cur \notin chain
      BY <1>0, <2>3 DEF QueueInv, SlotOK
    <3>2. cur \notin chain' BY <3>1 DEF WritesOne
    <3>3. QED BY <1>1, <2>3, <3>1, <3>2 DEF SlotOK, WritesOne
  <2>4. QED BY <2>1, <2>2, <2>3 DEF WritesOne
<1>5. JobOK(j)'
  BY <1>1 DEF WritesOne, WrittenOK, JobOK, IdOK, MemoryOK, PastOK
<1>6. ASSUME NEW k \in Job \ {j} PROVE JobOK(k)'
  <2>1. JobOK(k) BY DEF QueueInv
  <2>2. IdOK(k)'
    <3>1. k \in Nat /\ seq' \in Nat /\ seq <= seq' BY <1>0 DEF WritesOne
    <3>2. k <= seq => k <= seq' BY <1>0, <3>1
    <3>3. strict' = strict BY DEF WritesOne
    <3>4. QED BY <1>1, <2>1, <3>2, <3>3 DEF JobOK, IdOK
  <2>3. MemoryOK(k)'
    <3>1. IsActive(mem[k]) => k = cur' BY <1>0, <2>1 DEF JobOK, MemoryOK, WritesOne
    <3>2. k \in chain' => k \in chain BY DEF WritesOne
    <3>3. QED BY <1>1, <2>1, <3>1, <3>2 DEF JobOK, MemoryOK
  <2>4. PastOK(k)'
    <3>1. /\ k \in acked' <=> k \in acked
          /\ k \in ran' <=> k \in ran
          /\ k \in green' <=> k \in green
      BY DEF WritesOne
    <3>2. QED BY <1>1, <2>1, <3>1 DEF JobOK, PastOK
  <2>5. QED BY <1>1, <2>1, <2>2, <2>3, <2>4 DEF JobOK
<1>7. QED BY <1>1, <1>2, <1>3, <1>4, <1>5, <1>6 DEF QueueInv

-----------------------------------------------------------------------------
(* The steps of the queue.                                                  *)

\* What the invariant says of the variables, and of one job.
LEMMA QueueTypes ==
  ASSUME QueueInv
  PROVE  /\ row \in [Job -> Row] /\ mem \in [Job -> Row] /\ seq \in Nat /\ strict \in BOOLEAN
         /\ chain \subseteq Job /\ overran \subseteq Job /\ acked \subseteq Job
         /\ ran \subseteq Job /\ green \subseteq Job
         /\ cur \in Job \cup {Idle} /\ Idle \notin Job
         /\ child \in {"none", "alive", "dying"}
         /\ Job \subseteq Nat /\ Local \in Worker /\ NoWorker \notin Worker
         /\ \A j \in Job : row[j] \in Row /\ mem[j] \in Row
BY StoreAssumption, QueueAssumption DEF QueueInv, QueueTypeOK

\* A record in memory of a job that does not run is blank, waits, or is over.
LEMMA KnownRecord ==
  ASSUME QueueInv, NEW j \in Job, j # cur
  PROVE  mem[j] = NoRow \/ mem[j] = QueuedRow \/ IsTerminal(mem[j])
<1>1. JobOK(j) BY DEF QueueInv
<1>2. ~ IsActive(mem[j]) BY <1>1 DEF JobOK, MemoryOK
<1>3. mem[j].status \in {"absent", "queued"} \cup TerminalStatus
  BY <1>1, <1>2 DEF JobOK, RecordOK, Row, JobStatus, IsActive
<1>4. QED BY <1>1, <1>3 DEF JobOK, RecordOK, IsTerminal

\* What the running job's row and record are.
LEMMA RunningJob ==
  ASSUME QueueInv, cur # Idle
  PROVE  /\ cur \in Job /\ cur \notin chain /\ child # "none" /\ cur <= seq
         /\ IsActive(row[cur]) /\ row[cur].worker = Local
         /\ IsActive(mem[cur]) /\ mem[cur].worker = Local
         /\ mem[cur] # NoRow /\ row[cur] # NoRow
<1>1. /\ cur \in Job /\ cur \notin chain /\ child # "none"
      /\ IsActive(row[cur]) /\ row[cur].worker = Local
      /\ IsActive(mem[cur]) /\ mem[cur].worker = Local
  BY DEF QueueInv, SlotOK, Owns, QueueTypeOK
<1>2. mem[cur] # NoRow /\ row[cur] # NoRow
  BY <1>1 DEF IsActive, ActiveStatus, NoRow
<1>3. JobOK(cur) BY <1>1 DEF QueueInv
<1>4. QED BY <1>1, <1>2, <1>3 DEF JobOK, IdOK

LEMMA EnqueueKeeps == ASSUME QueueInv, Enqueue PROVE QueueInv'
<1> DEFINE j == seq + 1
<1>1. j \in Job /\ j \in Nat /\ seq <= j /\ ~ (j <= seq)
  BY QueueTypes DEF Enqueue
<1>2. mem[j] = NoRow /\ j \notin chain /\ j # cur
  <2>1. JobOK(j) BY <1>1 DEF QueueInv
  <2>2. mem[j] = NoRow /\ j \notin chain BY <1>1, <2>1 DEF JobOK, IdOK, MemoryOK
  <2>3. j # cur BY <1>1, RunningJob, QueueTypes
  <2>4. QED BY <2>2, <2>3
<1>3. /\ seq' = j /\ strict' = strict /\ cur' = cur /\ child' = child /\ overran' = overran \ {j}
      /\ acked' = acked \ {j} /\ ran' = ran \ {j} /\ green' = green \ {j}
  BY DEF Enqueue
<1>4. cur' = Idle <=> child' = "none" BY <1>3 DEF QueueInv, SlotOK
<1>5. CASE SaveWebuiJob(j, InState(QueuedRow, "interrupted")) /\ UNCHANGED <<mem, chain>>
  <2> DEFINE r == InState(QueuedRow, "interrupted")
  <2>1. /\ r \in Row /\ r.status = "interrupted" /\ ~ r.cancelled
    BY BlankRecords, StatusSet DEF TerminalStatus
  <2>2. RecordOK(r) /\ RecordOK(NoRow) /\ r # NoRow
    BY <2>1, BlankRecords DEF RecordOK, TerminalStatus
  <2> HIDE DEF r
  <2>3. mem' = [mem EXCEPT ![j] = NoRow] BY <1>2, <1>5, QueueTypes
  <2>4. WritesOne(j, r, NoRow)
    BY <1>1, <1>3, <1>4, <1>5, <2>3, QueueTypes DEF WritesOne, SaveWebuiJob, r
  <2>5. WrittenOK(j, r, NoRow)
    BY <1>1, <1>2, <1>3, <1>5, <2>1, <2>2, BlankRecords
    DEF WrittenOK, Unclaimed, IsActive, IsTerminal, ActiveStatus, TerminalStatus
  <2>6. QED BY <1>1, <2>4, <2>5, OneJobWritten
<1>6. CASE Persist(j, QueuedRow) /\ chain' = chain \cup {j}
  <2>1. WritesOne(j, QueuedRow, QueuedRow)
    BY <1>1, <1>3, <1>4, <1>6, QueueTypes DEF WritesOne, Persist, SaveWebuiJob
  <2>2. WrittenOK(j, QueuedRow, QueuedRow)
    BY <1>1, <1>2, <1>3, BlankRecords
    DEF WrittenOK, RecordOK, Unclaimed, IsActive, IsTerminal, ActiveStatus, TerminalStatus
  <2>3. QED BY <1>1, <2>1, <2>2, OneJobWritten
<1>7. QED BY <1>5, <1>6 DEF Enqueue

LEMMA StartJobKeeps == ASSUME QueueInv, StartJob PROVE QueueInv'
<1> DEFINE j == Min(chain)
           claimed == ClaimedRow(row[j], Local)
<1>1. j \in chain /\ j \in Job /\ cur = Idle /\ j # cur
  BY QueueTypes, FirstOfChain DEF StartJob
<1>2. JobOK(j) BY <1>1 DEF QueueInv
<1>3. mem[j] # NoRow /\ j <= seq /\ row[j] # NoRow BY <1>1, <1>2 DEF JobOK, MemoryOK, IdOK
<1>4. mem[j] = QueuedRow \/ IsTerminal(mem[j]) BY <1>1, <1>3, KnownRecord
<1>5. /\ chain' = chain \ {j} /\ strict' = strict /\ seq' = seq /\ overran' = overran
      /\ acked' = acked /\ green' = green
  BY DEF StartJob
<1>t. chain' \subseteq Job /\ j \notin chain' BY <1>5, QueueTypes
<1>i. child = "none" BY <1>1 DEF QueueInv, SlotOK
<1> HIDE DEF j
<1>6. ASSUME NEW r, NEW m, row' = [row EXCEPT ![j] = r], mem' = [mem EXCEPT ![j] = m],
             UNCHANGED <<cur, child, ran>>
      PROVE  WritesOne(j, r, m)
  BY <1>1, <1>5, <1>6, <1>t, <1>i, QueueTypes DEF WritesOne
<1>7. ASSUME NEW r, RecordOK(r), r # NoRow, ~ IsActive(r), r.status \notin Unclaimed,
             r.status = "succeeded" => j \in green,
             j \in acked => r.cancelled /\ r.status \in {"canceling", "canceled", "interrupted"},
             Persist(j, r), UNCHANGED <<cur, child, ran>>
      PROVE  QueueInv'
  <2>1. WritesOne(j, r, r) BY <1>6, <1>7 DEF Persist, SaveWebuiJob
  <2>2. WrittenOK(j, r, r)
    BY <1>1, <1>3, <1>5, <1>t, <1>7, QueueTypes DEF WrittenOK
  <2>3. QED BY <1>1, <2>1, <2>2, OneJobWritten
<1>8. ASSUME mem[j] = QueuedRow PROVE j \notin acked /\ ~ mem[j].cancelled
  BY <1>2, <1>3, <1>8, BlankRecords DEF JobOK, PastOK
<1>9. CASE IsTerminal(mem[j]) /\ UNCHANGED <<row, mem, cur, child, ran>>
  <2>1. WritesOne(j, row[j], mem[j]) BY <1>1, <1>6, <1>9, QueueTypes
  <2>2. WrittenOK(j, row[j], mem[j])
    BY <1>1, <1>2, <1>3, <1>5, <1>t, <1>9, QueueTypes
    DEF WrittenOK, JobOK, IdOK, MemoryOK, PastOK
  <2>3. QED BY <1>1, <2>1, <2>2, OneJobWritten
<1>10. CASE /\ ~ IsTerminal(mem[j]) /\ row[j].status = "canceled"
            /\ mem' = [mem EXCEPT ![j] = row[j]] /\ UNCHANGED row
            /\ UNCHANGED <<cur, child, ran>>
  <2>1. WritesOne(j, row[j], row[j]) BY <1>1, <1>6, <1>10, QueueTypes
  <2>2. WrittenOK(j, row[j], row[j])
    BY <1>1, <1>2, <1>3, <1>5, <1>t, <1>10, QueueTypes
    DEF WrittenOK, JobOK, IdOK, MemoryOK, PastOK, Unclaimed, IsActive, ActiveStatus
  <2>3. QED BY <1>1, <2>1, <2>2, OneJobWritten
<1>11. CASE /\ ~ IsTerminal(mem[j]) /\ Persist(j, InState(mem[j], "interrupted"))
            /\ UNCHANGED <<cur, child, ran>>
  <2> DEFINE r == InState(mem[j], "interrupted")
  <2>1. mem[j] = QueuedRow BY <1>4, <1>11
  <2>2. r \in Row /\ r.status = "interrupted" /\ ~ r.cancelled
    BY <2>1, BlankRecords, StatusSet DEF TerminalStatus
  <2>3. RecordOK(r) /\ r # NoRow /\ ~ IsActive(r) /\ r.status \notin Unclaimed
    BY <2>2, BlankRecords DEF RecordOK, IsActive, ActiveStatus, Unclaimed
  <2>4. Persist(j, r) /\ UNCHANGED <<cur, child, ran>> BY <1>11
  <2> HIDE DEF r
  <2>5. QED BY <1>7, <1>8, <2>1, <2>2, <2>3, <2>4
<1>12. ASSUME ~ IsTerminal(mem[j]), StartsClaimed(j)
       PROVE  /\ j \notin acked /\ j \notin ran /\ claimed \in Row
              /\ claimed.status = "claimed" /\ ~ claimed.cancelled /\ claimed.worker = Local
  <2>1. row[j] = QueuedRow
    BY <1>2, <1>12 DEF StartsClaimed, Claimable, JobOK, RecordOK
  <2>2. row[j].attempts + 1 \in Nat /\ row[j] \in Row BY <1>1, QueueTypes DEF Row
  <2>3. claimed \in Row /\ claimed.status = "claimed" /\ claimed.worker = Local
        /\ claimed.cancelled = row[j].cancelled
    <3>1. claimed \in Row BY <2>2, QueueTypes, ClaimedFields DEF ClaimedRow
    <3>2. QED BY <2>2, <3>1 DEF ClaimedRow, Row
  <2>4. j \notin acked BY <1>4, <1>8, <1>12
  <2>5. j \notin ran BY <1>2, <2>1, BlankRecords DEF JobOK, PastOK, Unclaimed
  <2>6. QED BY <2>1, <2>3, <2>4, <2>5, BlankRecords
<1>13. ASSUME ~ IsTerminal(mem[j]), StartsClaimed(j), NEW s \in {"interrupted", "failed"},
              Persist(j, InState(claimed, s)), UNCHANGED <<cur, child, ran>>
       PROVE  QueueInv'
  <2> DEFINE r == InState(claimed, s)
  <2>1. r \in Row /\ r.status = s /\ ~ r.cancelled
    BY <1>12, <1>13, StatusSet DEF TerminalStatus
  <2>2. RecordOK(r) /\ r # NoRow /\ ~ IsActive(r) /\ r.status \notin Unclaimed
    BY <2>1, BlankRecords DEF RecordOK, IsActive, ActiveStatus, Unclaimed
  <2>3. Persist(j, r) /\ UNCHANGED <<cur, child, ran>> BY <1>13
  <2> HIDE DEF r
  <2>4. j \notin acked BY <1>12, <1>13
  <2>5. QED BY <1>7, <2>1, <2>2, <2>3, <2>4
<1>14. CASE /\ ~ IsTerminal(mem[j]) /\ StartsClaimed(j)
            /\ Persist(j, HeartbeatRow(claimed, "running"))
            /\ cur' = j /\ child' = "alive" /\ ran' = ran \cup {j}
  <2> DEFINE r == HeartbeatRow(claimed, "running")
  <2>1. r \in Row /\ r.status = "running" /\ ~ r.cancelled /\ r.worker = Local
    <3> HIDE DEF claimed
    <3>1. /\ claimed \in Row /\ claimed.status = "claimed" /\ ~ claimed.cancelled
          /\ claimed.worker = Local
      BY <1>12, <1>14 DEF claimed
    <3>2. QED BY <3>1 DEF HeartbeatRow, Row, JobStatus, ActiveStatus, Lease
  <2>2. RecordOK(r) /\ r # NoRow /\ Owns(Local, r) /\ ~ IsTerminal(r) /\ r.status \notin Unclaimed
    BY <2>1, BlankRecords
    DEF RecordOK, IsActive, IsTerminal, ActiveStatus, TerminalStatus, Unclaimed, Owns
  <2>3. Persist(j, r) BY <1>14
  <2> HIDE DEF r
  <2>4. j \notin acked BY <1>12, <1>14
  <2>5. WritesOne(j, r, r)
    <3>1. ran' \subseteq Job /\ \A k \in Job \ {j} : k \in ran' <=> k \in ran
      BY <1>1, <1>14, QueueTypes
    <3>2. cur' # Idle /\ child' = "alive" /\ cur' = j BY <1>1, <1>14, QueueTypes
    <3>3. QED
      BY <1>1, <1>5, <1>t, <2>3, <3>1, <3>2, QueueTypes DEF WritesOne, Persist, SaveWebuiJob
  <2>6. WrittenOK(j, r, r)
    BY <1>3, <1>5, <1>14, <1>t, <2>1, <2>2, <2>4 DEF WrittenOK
  <2>7. QED BY <1>1, <2>5, <2>6, OneJobWritten
<1>15. QED
  BY <1>9, <1>10, <1>11, <1>13, <1>14 DEF StartJob, j

\* The running job stays in flight in the server's name, and keeps a cancel.
LEMMA RunningGoesOn ==
  ASSUME QueueInv, cur # Idle, NEW r, NEW m, RecordOK(r), RecordOK(m),
         Owns(Local, r), Owns(Local, m),
         row' = [row EXCEPT ![cur] = r], mem' = [mem EXCEPT ![cur] = m],
         cur \in acked => r.cancelled /\ m.cancelled,
         UNCHANGED <<strict, seq, chain, cur, acked, ran, green>>,
         overran' \subseteq Job, child' = child \/ child' = KillTree
  PROVE  QueueInv'
<1>1. child' \in {"alive", "dying"}
  BY RunningJob, QueueTypes DEF KillTree
<1>2. WritesOne(cur, r, m) BY <1>1, QueueTypes DEF WritesOne
<1>3. /\ r.status \in ActiveStatus /\ m.status \in ActiveStatus
      /\ r.cancelled => r.status = "canceling"
  BY DEF Owns, IsActive, RecordOK, ActiveStatus, TerminalStatus
<1>4. r # NoRow /\ m # NoRow BY <1>3, BlankRecords DEF ActiveStatus
<1>5. WrittenOK(cur, r, m)
  <2>1. /\ r.status \notin Unclaimed /\ ~ IsTerminal(m) /\ r.status # "succeeded"
        /\ cur <= seq' /\ cur' = cur /\ cur \notin chain'
    BY <1>3, RunningJob DEF Unclaimed, IsTerminal, ActiveStatus, TerminalStatus
  <2>2. acked' = acked OBVIOUS
  <2>3. QED BY <1>3, <1>4, <2>1, <2>2 DEF WrittenOK
<1>6. QED BY <1>2, <1>5, OneJobWritten, RunningJob

LEMMA HeartbeatKeeps == ASSUME QueueInv, Heartbeat PROVE QueueInv'
<1> DEFINE beat == HeartbeatRow(row[cur], "running")
<1>1. cur # Idle BY DEF Heartbeat
<1>2. /\ cur \in Job /\ JobOK(cur) /\ IsActive(row[cur]) /\ row[cur].worker = Local
      /\ row[cur] \in Row
  BY <1>1, RunningJob DEF QueueInv, JobOK, RecordOK
<1>3. /\ beat \in Row /\ beat.cancelled = row[cur].cancelled /\ beat.worker = Local
      /\ beat.status = IF row[cur].status = "canceling" THEN "canceling" ELSE "running"
  BY <1>2 DEF HeartbeatRow, Row, JobStatus, ActiveStatus, Lease
<1>4. row[cur].cancelled => row[cur].status = "canceling"
  BY <1>2 DEF JobOK, RecordOK, IsActive, ActiveStatus, TerminalStatus
<1>5. /\ Persist(cur, beat) /\ (child' = child \/ child' = KillTree)
      /\ UNCHANGED <<strict, seq, chain, cur, overran, acked, ran, green>>
  BY DEF Heartbeat
<1> HIDE DEF beat
<1>6. RecordOK(beat) /\ Owns(Local, beat)
  BY <1>3, <1>4 DEF RecordOK, Owns, IsActive, ActiveStatus
<1>7. cur \in acked => beat.cancelled BY <1>2, <1>3 DEF JobOK, PastOK
<1>8. overran' \subseteq Job BY <1>5, QueueTypes
<1>9. QED BY <1>1, <1>5, <1>6, <1>7, <1>8, RunningGoesOn DEF Persist, SaveWebuiJob

LEMMA ResultLineKeeps == ASSUME QueueInv, ResultLine PROVE QueueInv'
<1>1. /\ cur # Idle /\ Persist(cur, mem[cur])
      /\ UNCHANGED <<strict, seq, chain, cur, child, overran, acked, ran, green>>
  BY DEF ResultLine
<1>2. /\ JobOK(cur) /\ Owns(Local, mem[cur]) /\ mem[cur] # NoRow
  BY <1>1, RunningJob DEF QueueInv, Owns
<1>3. RecordOK(mem[cur]) /\ (cur \in acked => mem[cur].cancelled)
  BY <1>2 DEF JobOK, PastOK
<1>4. overran' \subseteq Job BY <1>1, QueueTypes
<1>5. QED BY <1>1, <1>2, <1>3, <1>4, RunningGoesOn DEF Persist, SaveWebuiJob

LEMMA WatchdogKeeps == ASSUME QueueInv, Watchdog PROVE QueueInv'
<1> DEFINE m == [mem[cur] EXCEPT !.timedOut = TRUE]
<1>1. /\ cur # Idle /\ mem' = [mem EXCEPT ![cur] = m]
      /\ overran' = overran \cup {cur} /\ child' = KillTree
      /\ UNCHANGED <<row, strict, seq, chain, cur, acked, ran, green>>
  BY QueueTypes DEF Watchdog
<1>2. /\ cur \in Job /\ JobOK(cur) /\ Owns(Local, row[cur]) /\ Owns(Local, mem[cur])
      /\ mem[cur] # NoRow
  BY <1>1, RunningJob DEF QueueInv, Owns
<1>3. RecordOK(mem[cur]) /\ RecordOK(row[cur])
      /\ (cur \in acked => row[cur].cancelled /\ mem[cur].cancelled)
  BY <1>2 DEF JobOK, PastOK
<1>4. RecordOK(m) /\ Owns(Local, m) /\ m.cancelled = mem[cur].cancelled
  BY <1>2, <1>3 DEF RecordOK, Row, Owns, IsActive, ActiveStatus
<1> HIDE DEF m
<1>5. overran' \subseteq Job /\ row' = [row EXCEPT ![cur] = row[cur]] BY <1>1, <1>2, QueueTypes
<1>6. QED BY <1>1, <1>2, <1>3, <1>4, <1>5, RunningGoesOn

\* The running job ends as its record says, or is interrupted; it is green if it
\* succeeds.
LEMMA FinishKeeps ==
  ASSUME QueueInv, cur # Idle, NEW code \in {"ok", "bad"}, Finish(cur, code),
         green' = IF code = "ok" THEN green \cup {cur} ELSE green
  PROVE  QueueInv'
<1>1. /\ cur \in Job /\ JobOK(cur) /\ IsActive(mem[cur]) /\ mem[cur] # NoRow /\ cur \notin chain
      /\ cur <= seq
  BY RunningJob DEF QueueInv
<1>2. RecordOK(mem[cur]) /\ mem[cur] \in Row /\ (cur \in acked => mem[cur].cancelled)
  BY <1>1 DEF JobOK, PastOK, RecordOK
<1>3. PICK s \in TerminalStatus :
        /\ Persist(cur, InState(mem[cur], s))
        /\ mem[cur].cancelled => s \in {"canceled", "interrupted"}
        /\ s = "succeeded" => code = "ok"
  BY Zenon DEF Finish, FinishedStatus, TerminalStatus
<1> DEFINE r == InState(mem[cur], s)
<1>4. r \in Row /\ r.status = s /\ r.cancelled = mem[cur].cancelled
  BY <1>2, StatusSet
<1>5. Persist(cur, r) BY <1>3
<1> HIDE DEF r
<1>6. /\ RecordOK(r) /\ r # NoRow /\ ~ IsActive(r) /\ r.status \notin Unclaimed
  BY <1>4, BlankRecords DEF RecordOK, IsActive, ActiveStatus, TerminalStatus, Unclaimed
<1>7. /\ cur' = Idle /\ child' = "none"
      /\ UNCHANGED <<strict, seq, chain, overran, acked, ran>>
  BY DEF Finish
<1>8. WritesOne(cur, r, r)
  BY <1>1, <1>5, <1>7, QueueTypes DEF WritesOne, Persist, SaveWebuiJob
<1>9. WrittenOK(cur, r, r)
  <2>1. r.status = "succeeded" => cur \in green' BY <1>3, <1>4
  <2>2. cur' # cur /\ cur \notin chain' /\ cur <= seq' BY <1>1, <1>7
  <2>3. cur \in acked' => r.cancelled /\ r.status \in {"canceling", "canceled", "interrupted"}
    BY <1>2, <1>3, <1>4, <1>7
  <2>4. QED BY <1>6, <2>1, <2>2, <2>3 DEF WrittenOK
<1>10. QED BY <1>1, <1>8, <1>9, OneJobWritten

LEMMA EndsKeep == ASSUME QueueInv, ChildCloses \/ KillGraceEnds PROVE QueueInv'
<1>1. CASE ChildCloses BY <1>1, FinishKeeps DEF ChildCloses
<1>2. CASE KillGraceEnds
  <2>1. cur # Idle BY <1>2, QueueTypes DEF KillGraceEnds
  <2>2. QED BY <1>2, <2>1, FinishKeeps DEF KillGraceEnds, KillGraceCode
<1>3. QED BY <1>1, <1>2

\* What a cancel makes of a row.
LEMMA CancelledFields ==
  ASSUME NEW r, RecordOK(r), r # NoRow
  PROVE  /\ CancelledRow(r) \in Row /\ RecordOK(CancelledRow(r))
         /\ CancelledRow(r).worker = r.worker
         /\ IsTerminal(r) => CancelledRow(r) = r
         /\ ~ IsTerminal(r) => /\ CancelledRow(r).cancelled
                               /\ CancelledRow(r).status
                                    = IF r.status = "queued" THEN "canceled" ELSE "canceling"
         /\ r.status # "absent" /\ (IsTerminal(r) \/ IsActive(r) \/ r.status = "queued")
         /\ CancelledRow(r) # NoRow
<1>1. r.status # "absent" /\ r \in Row BY DEF RecordOK
<1>2. QED
  BY <1>1, BlankRecords
  DEF CancelledRow, RecordOK, Row, IsTerminal, IsActive, JobStatus, ActiveStatus, TerminalStatus

\* A cancel of the row alone, whoever asks for it.
LEMMA RowCancelKeeps ==
  ASSUME QueueInv, NEW j \in Job, RequestWebuiJobCancel(j),
         UNCHANGED <<strict, seq, mem, chain, cur, child, overran, ran, green>>,
         \/ acked' = acked
         \/ acked' = acked \cup {j} /\ ~ IsTerminal(row[j]) /\ mem[j] = NoRow
  PROVE  QueueInv'
<1> DEFINE r == CancelledRow(row[j])
<1>1. JobOK(j) /\ row[j] # NoRow /\ row' = [row EXCEPT ![j] = r]
  BY DEF QueueInv, RequestWebuiJobCancel, SaveWebuiJob
<1>2. /\ RecordOK(r) /\ r.worker = row[j].worker /\ r # NoRow
      /\ IsTerminal(row[j]) => r = row[j]
      /\ ~ IsTerminal(row[j])
           => r.cancelled /\ r.status = IF row[j].status = "queued" THEN "canceled" ELSE "canceling"
      /\ IsTerminal(row[j]) \/ IsActive(row[j]) \/ row[j].status = "queued"
  BY <1>1, CancelledFields DEF JobOK
<1> HIDE DEF r
<1>3. /\ r.status \notin Unclaimed
      /\ r.status = "succeeded" => row[j].status = "succeeded"
      /\ IsActive(row[j]) => IsActive(r)
  BY <1>2 DEF IsTerminal, IsActive, ActiveStatus, TerminalStatus, Unclaimed
<1>4. WritesOne(j, r, mem[j])
  <2>1. mem' = [mem EXCEPT ![j] = mem[j]] BY QueueTypes
  <2>2. acked' \subseteq Job /\ \A k \in Job \ {j} : k \in acked' <=> k \in acked
    BY QueueTypes
  <2>3. cur' = cur /\ child' = child /\ (cur' = Idle <=> child' = "none")
    BY DEF QueueInv, SlotOK
  <2>4. /\ strict' = strict /\ seq' = seq /\ chain' = chain /\ overran' = overran
        /\ ran' = ran /\ green' = green
    OBVIOUS
  <2> HIDE DEF r
  <2>5. QED BY ONLY <1>1, <2>1, <2>2, <2>3, <2>4, QueueTypes, QueueInv DEF WritesOne
<1>5. WrittenOK(j, r, mem[j])
  <2>1. RecordOK(mem[j]) /\ IdOK(j) /\ MemoryOK(j) /\ PastOK(j) BY <1>1 DEF JobOK
  <2>2. (mem[j] # NoRow => j <= seq') /\ (strict => j <= seq')
    BY <1>1, <2>1 DEF IdOK
  <2>3. (IsActive(mem[j]) => j = cur') /\ (j \in chain' => mem[j] # NoRow)
    BY <2>1 DEF MemoryOK
  <2>4. IsTerminal(mem[j]) => r.status = mem[j].status
    BY <1>2, <2>1 DEF MemoryOK, IsTerminal
  <2>5. r.status = "succeeded" => j \in green' BY <1>3, <2>1 DEF PastOK
  <2>6. j \in acked' => /\ r.cancelled
                        /\ r.status \in {"canceling", "canceled", "interrupted"}
                        /\ mem[j] # NoRow => mem[j].cancelled
    <3>1. CASE IsTerminal(row[j])
      BY <1>2, <2>1, <3>1 DEF PastOK
    <3>2. CASE ~ IsTerminal(row[j])
      BY <1>2, <2>1, <3>2 DEF PastOK
    <3>3. QED BY <3>1, <3>2
  <2>7. cur' = j => Owns(Local, r) /\ Owns(Local, mem[j]) /\ j \notin chain'
    BY <1>2, <1>3, RunningJob, QueueTypes DEF Owns
  <2>8. QED BY <1>2, <1>3, <2>1, <2>2, <2>3, <2>4, <2>5, <2>6, <2>7 DEF WrittenOK
<1>6. QED BY <1>4, <1>5, OneJobWritten

\* A cancel of a job in memory.
LEMMA CancelKnownKeeps ==
  ASSUME QueueInv, NEW j \in Job, Cancelable(j), CancelKnown(j),
         UNCHANGED <<strict, seq, chain, cur, overran, ran, green>>
  PROVE  QueueInv'
<1> DEFINE m == [mem[j] EXCEPT !.cancelled = TRUE,
                               !.status = IF @ = "queued" THEN "canceled" ELSE "canceling"]
<1>1. /\ mem[j] # NoRow /\ ~ IsTerminal(mem[j]) /\ row[j] # NoRow
      /\ Persist(j, m) /\ acked' = acked \cup {j}
      /\ child' = IF cur = j THEN KillTree ELSE child
  BY DEF Cancelable, CancelKnown
<1>2. JobOK(j) /\ mem[j] \in Row BY DEF QueueInv, JobOK, RecordOK
<1>3. /\ m \in Row /\ m.cancelled /\ m.worker = mem[j].worker
      /\ m.status = IF mem[j].status = "queued" THEN "canceled" ELSE "canceling"
  BY <1>2 DEF Row, JobStatus, ActiveStatus, TerminalStatus
<1>4. j # cur => mem[j].status = "queued" BY <1>1, KnownRecord, BlankRecords
<1>5. cur = j => IsActive(mem[j]) /\ mem[j].worker = Local /\ j \notin chain
  BY RunningJob, QueueTypes
<1> HIDE DEF m
<1>6. /\ RecordOK(m) /\ m # NoRow /\ m.status \notin Unclaimed
      /\ m.status \in {"canceling", "canceled"}
      /\ IsActive(m) => j = cur
      /\ j = cur => Owns(Local, m)
  BY <1>3, <1>4, <1>5, BlankRecords
  DEF RecordOK, IsActive, ActiveStatus, TerminalStatus, Unclaimed, Owns
<1>7. WritesOne(j, m, m)
  <2>1. child' \in {"none", "alive", "dying"} /\ (cur' = Idle <=> child' = "none")
    BY <1>1, QueueTypes DEF KillTree, QueueInv, SlotOK
  <2>2. acked' \subseteq Job /\ \A k \in Job \ {j} : k \in acked' <=> k \in acked
    BY <1>1, QueueTypes
  <2>3. QED BY <1>1, <2>1, <2>2, QueueTypes DEF WritesOne, Persist, SaveWebuiJob
<1>8. WrittenOK(j, m, m)
  <2>1. j <= seq' BY <1>1, <1>2 DEF JobOK, IdOK
  <2>2. QED BY <1>3, <1>5, <1>6, <2>1 DEF WrittenOK
<1>9. QED BY <1>7, <1>8, OneJobWritten

LEMMA CancelKeeps == ASSUME QueueInv, Cancel PROVE QueueInv'
<1>1. PICK j \in Job : \/ mem[j] = NoRow /\ (CancelStored(j) \/ CancelUnaudited(j))
                       \/ Cancelable(j) /\ (CancelKnown(j) \/ CancelUnaudited(j))
  BY DEF Cancel
<1>2. UNCHANGED <<strict, seq, chain, cur, overran, ran, green>> BY DEF Cancel
<1>3. CASE CancelUnaudited(j)
  BY <1>2, <1>3, RowCancelKeeps DEF CancelUnaudited
<1>4. CASE mem[j] = NoRow /\ CancelStored(j)
  BY <1>2, <1>4, RowCancelKeeps DEF CancelStored
<1>5. CASE Cancelable(j) /\ CancelKnown(j)
  BY <1>2, <1>5, CancelKnownKeeps
<1>6. QED BY <1>1, <1>3, <1>4, <1>5

\* What a row is after a restart: what was in flight is interrupted.
LEMMA StoredRow ==
  ASSUME QueueInv, Restart, NEW j \in Job
  PROVE  /\ RecordOK(row'[j]) /\ ~ IsActive(row'[j])
         /\ \/ row'[j] = row[j]
            \/ /\ IsActive(row[j])
               /\ row'[j].status = "interrupted"
               /\ j \in acked => row'[j].cancelled
<1>1. PICK graceful \in BOOLEAN :
        LET saved == IF graceful /\ cur # Idle
                     THEN [row EXCEPT ![cur] = InState(mem[cur], "interrupted")] ELSE row
        IN  row' = [k \in Job |-> IF IsActive(saved[k])
                                  THEN ReconciledRow(k, saved[k], FALSE) ELSE saved[k]]
  BY Zenon DEF Restart
<1> DEFINE saved == IF graceful /\ cur # Idle
                    THEN [row EXCEPT ![cur] = InState(mem[cur], "interrupted")] ELSE row
<1>2. row'[j] = IF IsActive(saved[j]) THEN InterruptedRow(saved[j]) ELSE saved[j]
  BY <1>1 DEF ReconciledRow
<1>3. JobOK(j) BY DEF QueueInv
<1>4. \A r : RecordOK(r) /\ IsActive(r)
               => /\ RecordOK(InterruptedRow(r)) /\ InterruptedRow(r).status = "interrupted"
                  /\ InterruptedRow(r).cancelled = r.cancelled
                  /\ ~ IsActive(InterruptedRow(r))
  BY DEF RecordOK, InterruptedRow, Row, IsActive, JobStatus, ActiveStatus, TerminalStatus, Lease
<1>5. CASE saved[j] = row[j]
  <2>1. j \in acked => row[j].cancelled BY <1>3 DEF JobOK, PastOK
  <2>2. RecordOK(row[j]) BY <1>3 DEF JobOK
  <2>3. CASE IsActive(row[j]) BY <1>2, <1>4, <1>5, <2>1, <2>2, <2>3
  <2>4. CASE ~ IsActive(row[j]) BY <1>2, <1>5, <2>2, <2>4
  <2>5. QED BY <2>3, <2>4
<1>6. CASE cur # Idle /\ j = cur /\ saved[j] = InState(mem[j], "interrupted")
  <2>1. IsActive(row[j]) /\ mem[j] # NoRow BY <1>6, RunningJob
  <2>2. RecordOK(mem[j]) /\ mem[j] \in Row /\ (j \in acked => mem[j].cancelled)
    BY <1>3, <2>1 DEF JobOK, PastOK, RecordOK
  <2>3. /\ saved[j] \in Row /\ saved[j].status = "interrupted"
        /\ saved[j].cancelled = mem[j].cancelled
    BY <1>6, <2>2, StatusSet DEF TerminalStatus
  <2> HIDE DEF saved
  <2>4. RecordOK(saved[j]) /\ ~ IsActive(saved[j])
    BY <2>3 DEF RecordOK, IsActive, ActiveStatus, TerminalStatus
  <2>5. QED BY <1>2, <2>1, <2>2, <2>3, <2>4
<1>7. QED BY <1>5, <1>6, QueueTypes

LEMMA RestartKeeps == ASSUME QueueInv, Restart PROVE QueueInv'
<1>0. /\ UNCHANGED <<strict, overran, acked, ran, green>> /\ cur' = Idle /\ child' = "none"
  BY Zenon DEF Restart
<1>1. row' \in [Job -> Row]
  <2>1. row' = [k \in Job |-> row'[k]] BY Zenon DEF Restart
  <2>2. \A k \in Job : row'[k] \in Row BY StoredRow DEF RecordOK
  <2>3. QED BY <2>1, <2>2
<1>2. \A k \in Job : row'[k] # NoRow => row[k] # NoRow
  BY StoredRow, BlankRecords DEF IsActive, ActiveStatus
<1>3. PICK n \in Nat : \A k \in Job : row'[k] # NoRow => k <= n
  BY <1>2 DEF QueueInv, IdsAreBounded
<1> DEFINE known == {k \in Job : row'[k] # NoRow}
<1>4. /\ Max(known \cup {0}) \in Nat
      /\ \A k \in Job : row'[k] # NoRow => k <= Max(known \cup {0})
  <2>1. known \cup {0} \in SUBSET Nat /\ \A x \in known \cup {0} : x <= n
    BY <1>3, QueueTypes
  <2>2. Max(known \cup {0}) \in known \cup {0} /\ \A x \in known \cup {0} : x <= Max(known \cup {0})
    BY <2>1, LastOfIds
  <2>3. QED BY <2>1, <2>2
<1>5. \/ /\ mem' = row' /\ seq' = Max(known \cup {0})
         /\ chain' = {k \in known \cap Resumable : row'[k].status = "queued"}
      \/ ~ strict /\ mem' = [k \in Job |-> NoRow] /\ seq' = 0 /\ chain' = {}
  BY Zenon DEF Restart
<1> HIDE DEF known
<1>6. chain' \subseteq known /\ seq' \in Nat /\ mem' \in [Job -> Row]
  BY <1>1, <1>4, <1>5, BlankRecords
<1>7. QueueTypeOK' BY <1>0, <1>6, QueueTypes DEF QueueTypeOK, known
<1>8. IdsAreBounded' BY <1>3 DEF IdsAreBounded
<1>9. SlotOK' BY <1>0 DEF SlotOK
<1>10. ASSUME NEW j \in Job PROVE JobOK(j)'
  <2>1. JobOK(j) BY DEF QueueInv
  <2>2. /\ RecordOK(row'[j]) /\ ~ IsActive(row'[j])
        /\ \/ row'[j] = row[j]
           \/ /\ IsActive(row[j])
              /\ row'[j].status = "interrupted"
              /\ j \in acked => row'[j].cancelled
    BY StoredRow
  <2>3. mem'[j] = row'[j] \/ (~ strict /\ mem'[j] = NoRow /\ chain' = {})
    BY <1>5
  <2>4. RecordOK(mem'[j]) BY <2>2, <2>3, BlankRecords DEF RecordOK
  <2>5. IdOK(j)' BY <1>0, <1>4, <1>5 DEF IdOK
  <2>6. MemoryOK(j)'
    <3>1. ~ IsActive(mem'[j]) /\ (IsTerminal(mem'[j]) => row'[j].status = mem'[j].status)
      BY <2>2, <2>3, BlankRecords DEF IsActive, IsTerminal, ActiveStatus, TerminalStatus
    <3>2. j \in chain' => mem'[j] # NoRow BY <1>6, <2>3 DEF known
    <3>3. QED BY <3>1, <3>2 DEF MemoryOK
  <2>7. PastOK(j)'
    <3>1. CASE row'[j] = row[j] BY <1>0, <2>1, <2>3, <3>1 DEF JobOK, PastOK
    <3>2. CASE row'[j].status = "interrupted" /\ (j \in acked => row'[j].cancelled)
      BY <1>0, <2>3, <3>2 DEF PastOK, Unclaimed
    <3>3. QED BY <2>2, <3>1, <3>2
  <2>8. QED BY <2>2, <2>4, <2>5, <2>6, <2>7 DEF JobOK
<1>11. QED BY <1>1, <1>7, <1>8, <1>9, <1>10 DEF QueueInv

\* Every step of the queue keeps its invariant.
LEMMA QueueStepKeeps == ASSUME QueueInv, QueueStep PROVE QueueInv'
BY EnqueueKeeps, StartJobKeeps, HeartbeatKeeps, ResultLineKeeps, WatchdogKeeps, EndsKeep,
   CancelKeeps, RestartKeeps
DEF QueueStep

\* So does a step that leaves its variables alone.
LEMMA QueueRests == ASSUME QueueInv, UNCHANGED localVars PROVE QueueInv'
BY DEF QueueInv, localVars, queueVars, QueueTypeOK, IdsAreBounded, SlotOK, JobOK, IdOK,
       MemoryOK, PastOK

LEMMA QueueStarts == LocalInit => QueueInv
<1> SUFFICES ASSUME LocalInit PROVE QueueInv OBVIOUS
<1>1. /\ row = [j \in Job |-> NoRow] /\ mem = [j \in Job |-> NoRow] /\ seq = 0
      /\ strict \in BOOLEAN /\ chain = {} /\ cur = Idle /\ child = "none"
      /\ overran = {} /\ acked = {} /\ ran = {} /\ green = {}
  BY DEF LocalInit, StoreInit
<1>2. row \in [Job -> Row] /\ mem \in [Job -> Row] BY <1>1, BlankRecords
<1>3. QueueTypeOK BY <1>1, <1>2 DEF QueueTypeOK
<1>4. IdsAreBounded BY <1>1 DEF IdsAreBounded
<1>5. SlotOK BY <1>1 DEF SlotOK
<1>6. ASSUME NEW j \in Job PROVE JobOK(j)
  BY <1>1, BlankRecords
  DEF JobOK, RecordOK, IdOK, MemoryOK, PastOK, IsActive, IsTerminal, ActiveStatus, TerminalStatus
<1>7. QED BY <1>2, <1>3, <1>4, <1>5, <1>6 DEF QueueInv

-----------------------------------------------------------------------------
(* What a step of the queue writes.                                         *)

\* A record is saved over the row of its job.  A row that was over already belongs to a job
\* that still waits in memory, and is not a canceled one unless the record is canceled too.
Saves(j, r) ==
  /\ Persist(j, r) /\ r.status \notin Unclaimed
  /\ IsTerminal(row[j]) => /\ mem[j] = QueuedRow
                           /\ row[j].status = "canceled" => r = CancelledRow(QueuedRow)

\* Only the memory is written.
Notes(j, m) == row' = row /\ mem' = [mem EXCEPT ![j] = m] /\ m.status \notin Unclaimed

ServerWrite ==
  \/ Enqueue
  \/ Restart
  \/ \E j \in Job : RequestWebuiJobCancel(j) /\ UNCHANGED mem
  \/ \E j \in Job, rec \in Row : Saves(j, rec) \/ Notes(j, rec)
  \/ UNCHANGED <<row, mem>>

\* What a queued row is after a cancel, whether the request writes it or the record in
\* memory is saved with the cancel on it.
LEMMA CancelledQueued ==
  /\ CancelledRow(QueuedRow) = [QueuedRow EXCEPT !.cancelled = TRUE, !.status = "canceled"]
  /\ CancelledRow(QueuedRow).status = "canceled"
  /\ CancelledRow(CancelledRow(QueuedRow)) = CancelledRow(QueuedRow)
BY BlankRecords DEF CancelledRow, QueuedRow, NoRow, Row, ActiveStatus

LEMMA QueueWrites == ASSUME QueueInv, QueueStep PROVE ServerWrite
<1>s. \A s \in ActiveStatus \cup TerminalStatus : s \notin Unclaimed
  BY DEF Unclaimed, ActiveStatus, TerminalStatus
<1>r. ASSUME cur # Idle
      PROVE  /\ cur \in Job /\ mem[cur] \in Row /\ row[cur] \in Row /\ row[cur].worker = Local
             /\ mem[cur].status \in ActiveStatus /\ row[cur].status \in ActiveStatus
             /\ ~ IsTerminal(row[cur])
  BY <1>r, RunningJob, QueueTypes DEF IsActive, IsTerminal, ActiveStatus, TerminalStatus
<1>1. ASSUME cur # Idle, NEW r \in Row, Persist(cur, r), r.status \in ActiveStatus \cup TerminalStatus
      PROVE  ServerWrite
  BY <1>1, <1>r, <1>s DEF ServerWrite, Saves
<1>2. CASE StartJob
  <2> DEFINE j == Min(chain)
             claimed == ClaimedRow(row[j], Local)
  <2>1. j \in Job /\ j \in chain /\ j # cur BY <1>2, QueueTypes, FirstOfChain DEF StartJob
  <2>2. JobOK(j) BY <2>1 DEF QueueInv
  <2>3. mem[j] = QueuedRow \/ IsTerminal(mem[j])
    BY <2>1, <2>2, KnownRecord DEF JobOK, MemoryOK
  <2> HIDE DEF j
  <2>4. CASE UNCHANGED <<row, mem>> BY <2>4 DEF ServerWrite
  <2>5. CASE row[j].status = "canceled" /\ mem' = [mem EXCEPT ![j] = row[j]] /\ UNCHANGED row
    <3>1. Notes(j, row[j]) BY <2>5 DEF Notes, Unclaimed
    <3>2. QED BY <2>1, <3>1, QueueTypes DEF ServerWrite
  <2>6. CASE /\ ~ IsTerminal(mem[j]) /\ row[j].status # "canceled"
             /\ Persist(j, InState(mem[j], "interrupted"))
    <3>1. /\ InState(mem[j], "interrupted") \in Row
          /\ InState(mem[j], "interrupted").status = "interrupted"
      BY <2>1, QueueTypes, StatusSet DEF TerminalStatus
    <3>2. Saves(j, InState(mem[j], "interrupted"))
      BY <2>3, <2>6, <3>1 DEF Saves, Unclaimed
    <3>3. QED BY <2>1, <3>1, <3>2 DEF ServerWrite
  <2>7. ASSUME row[j].status = "queued"
        PROVE  /\ claimed \in Row /\ claimed.status = "claimed" /\ ~ IsTerminal(row[j])
               /\ \A s \in {"interrupted", "failed"} :
                    InState(claimed, s) \in Row /\ InState(claimed, s).status = s
               /\ HeartbeatRow(claimed, "running") \in Row
               /\ HeartbeatRow(claimed, "running").status = "running"
    <3>1. row[j] \in Row /\ row[j].attempts + 1 \in Nat BY <2>1, QueueTypes DEF Row
    <3>2. claimed \in Row BY <3>1, QueueTypes, ClaimedFields DEF ClaimedRow
    <3>3. claimed.status = "claimed" BY <3>1, <3>2 DEF ClaimedRow, Row
    <3> HIDE DEF claimed
    <3>4. HeartbeatRow(claimed, "running") \in Row /\ HeartbeatRow(claimed, "running").status = "running"
      BY <3>2, <3>3 DEF HeartbeatRow, Row, JobStatus, ActiveStatus, Lease
    <3>5. ~ IsTerminal(row[j]) BY <2>7 DEF IsTerminal, TerminalStatus
    <3>6. QED BY <3>2, <3>3, <3>4, <3>5, StatusSet DEF TerminalStatus
  <2>8. ASSUME row[j].status = "queued", NEW r, Persist(j, r),
               \/ r = InState(claimed, "interrupted")
               \/ r = InState(claimed, "failed")
               \/ r = HeartbeatRow(claimed, "running")
        PROVE  ServerWrite
    <3> HIDE DEF claimed
    <3>1. r \in Row /\ r.status \in {"interrupted", "failed", "running"} /\ ~ IsTerminal(row[j])
      BY <2>7, <2>8 DEF claimed
    <3>2. Saves(j, r) BY <2>8, <3>1 DEF Saves, Unclaimed
    <3>3. QED BY <2>1, <3>1, <3>2 DEF ServerWrite
  <2>9. QED
    BY <1>2, <2>4, <2>5, <2>6, <2>8 DEF StartJob, StartsClaimed, Claimable, j
<1>3. CASE Heartbeat
  <2>1. cur # Idle /\ Persist(cur, HeartbeatRow(row[cur], "running")) BY <1>3 DEF Heartbeat
  <2>2. /\ HeartbeatRow(row[cur], "running") \in Row
        /\ HeartbeatRow(row[cur], "running").status \in ActiveStatus
    BY <1>r, <2>1 DEF HeartbeatRow, Row, JobStatus, ActiveStatus, Lease
  <2>3. QED BY <1>1, <2>1, <2>2
<1>4. CASE ResultLine BY <1>1, <1>4, <1>r DEF ResultLine
<1>5. CASE Watchdog
  <2>1. /\ cur # Idle /\ row' = row
        /\ mem' = [mem EXCEPT ![cur] = [mem[cur] EXCEPT !.timedOut = TRUE]]
    BY <1>5, QueueTypes DEF Watchdog
  <2>2. /\ [mem[cur] EXCEPT !.timedOut = TRUE] \in Row
        /\ [mem[cur] EXCEPT !.timedOut = TRUE].status \in ActiveStatus
    BY <1>r, <2>1 DEF Row
  <2>3. QED BY <1>r, <1>s, <2>1, <2>2 DEF ServerWrite, Notes
<1>6. ASSUME cur # Idle, NEW code \in {"ok", "bad"}, Finish(cur, code) PROVE ServerWrite
  <2>1. PICK s \in TerminalStatus : Persist(cur, InState(mem[cur], s))
    BY <1>6, Zenon DEF Finish, FinishedStatus, TerminalStatus
  <2>2. InState(mem[cur], s) \in Row /\ InState(mem[cur], s).status = s
    BY <1>6, <1>r, StatusSet
  <2>3. QED BY <1>1, <1>6, <2>1, <2>2
<1>7. CASE ChildCloses BY <1>6, <1>7 DEF ChildCloses
<1>8. CASE KillGraceEnds
  <2>1. cur # Idle BY <1>8, QueueTypes DEF KillGraceEnds
  <2>2. QED BY <1>6, <1>8, <2>1 DEF KillGraceEnds, KillGraceCode
<1>9. CASE Cancel
  <2>1. PICK j \in Job : \/ mem[j] = NoRow /\ (CancelStored(j) \/ CancelUnaudited(j))
                         \/ Cancelable(j) /\ (CancelKnown(j) \/ CancelUnaudited(j))
    BY <1>9 DEF Cancel
  <2>2. CASE CancelUnaudited(j) \/ CancelStored(j)
    BY <2>2 DEF CancelUnaudited, CancelStored, ServerWrite
  <2>3. CASE Cancelable(j) /\ CancelKnown(j)
    <3> DEFINE m == [mem[j] EXCEPT !.cancelled = TRUE,
                                   !.status = IF @ = "queued" THEN "canceled" ELSE "canceling"]
    <3>1. Persist(j, m) BY <2>3 DEF CancelKnown
    <3>2. m \in Row /\ m.status \in {"canceled", "canceling"}
      <4>1. mem[j] \in Row BY QueueTypes
      <4>2. QED BY <4>1 DEF Row, JobStatus, ActiveStatus, TerminalStatus
    <3>3. IsTerminal(row[j]) => mem[j] = QueuedRow /\ m = CancelledRow(QueuedRow)
      <4>1. CASE j = cur BY <1>r, <4>1, QueueTypes
      <4>2. CASE j # cur
        <5>1. mem[j] = QueuedRow BY <2>3, <4>2, KnownRecord DEF Cancelable
        <5>2. QED BY <5>1, BlankRecords, CancelledQueued
      <4>3. QED BY <4>1, <4>2
    <3> HIDE DEF m
    <3>4. Saves(j, m) BY <3>1, <3>2, <3>3 DEF Saves, Unclaimed
    <3>5. QED BY <3>2, <3>4 DEF ServerWrite
  <2>4. QED BY <2>1, <2>2, <2>3
<1>10. QED
  BY <1>2, <1>3, <1>4, <1>5, <1>7, <1>8, <1>9 DEF QueueStep, ServerWrite

\* Of an enqueue: the id is new to the memory, and in strict mode to the table.
LEMMA NewId ==
  ASSUME QueueInv, Enqueue
  PROVE  \E j \in Job, r \in {QueuedRow, InState(QueuedRow, "interrupted")} :
           /\ row' = [row EXCEPT ![j] = r] /\ mem' \in {mem, [mem EXCEPT ![j] = QueuedRow]}
           /\ mem' # mem => r = QueuedRow
           /\ j # cur /\ mem[j] = NoRow /\ (strict => row[j] = NoRow)
           /\ cur' = cur /\ ran' \subseteq ran /\ \A k \in Job \ {j} : k \in green' <=> k \in green
<1> DEFINE j == seq + 1
<1>1. j \in Job /\ j \in Nat /\ ~ (j <= seq) BY QueueTypes DEF Enqueue
<1>2. JobOK(j) BY <1>1 DEF QueueInv
<1>3. mem[j] = NoRow /\ (strict => row[j] = NoRow) /\ j # cur
  BY <1>1, <1>2, RunningJob, QueueTypes DEF JobOK, IdOK
<1>4. cur' = cur /\ ran' = ran \ {j} /\ green' = green \ {j} BY DEF Enqueue
<1>5. \/ row' = [row EXCEPT ![j] = InState(QueuedRow, "interrupted")] /\ mem' = mem
      \/ row' = [row EXCEPT ![j] = QueuedRow] /\ mem' = [mem EXCEPT ![j] = QueuedRow]
  BY DEF Enqueue, Persist, SaveWebuiJob
<1> HIDE DEF j
<1>6. QED BY <1>1, <1>3, <1>4, <1>5

-----------------------------------------------------------------------------
(* The queue by itself.                                                     *)

\* Without workers a job that waits in memory waits in the table, or was canceled there
\* by a request whose audit was refused.
WaitsInTable ==
  \A j \in Job : mem[j].status = "queued" => row[j] \in {QueuedRow, CancelledRow(QueuedRow)}

\* Then a row that is over stays as it was in strict mode.
LEMMA QueueAlone ==
  ASSUME QueueInv, WaitsInTable, QueueStep
  PROVE  /\ WaitsInTable'
         /\ strict => \A j \in Job : IsTerminal(row[j]) => row'[j] = row[j]
<1> DEFINE Goal == /\ WaitsInTable'
                   /\ strict => \A j \in Job : IsTerminal(row[j]) => row'[j] = row[j]
<1>1. CASE Enqueue
  <2>1. PICK j \in Job, r \in {QueuedRow, InState(QueuedRow, "interrupted")} :
           /\ row' = [row EXCEPT ![j] = r] /\ mem' \in {mem, [mem EXCEPT ![j] = QueuedRow]}
           /\ mem' # mem => r = QueuedRow
           /\ mem[j] = NoRow /\ (strict => row[j] = NoRow)
    BY <1>1, NewId
  <2>2. strict => ~ IsTerminal(row[j]) BY <2>1, BlankRecords DEF IsTerminal, TerminalStatus
  <2>3. WaitsInTable' BY <2>1, QueueTypes, BlankRecords DEF WaitsInTable
  <2>4. QED BY <2>1, <2>2, <2>3, QueueTypes
<1>2. CASE Restart
  <2>1. ASSUME NEW j \in Job PROVE IsTerminal(row[j]) => row'[j] = row[j]
    BY <1>2, StoredRow DEF IsActive, IsTerminal, ActiveStatus, TerminalStatus
  <2>2. ASSUME NEW j \in Job, mem'[j].status = "queued"
        PROVE  row'[j] \in {QueuedRow, CancelledRow(QueuedRow)}
    <3>1. mem' = row' \/ mem' = [k \in Job |-> NoRow] BY <1>2, Zenon DEF Restart
    <3>2. mem'[j] = row'[j] BY <2>2, <3>1, BlankRecords
    <3>3. RecordOK(row'[j]) BY <1>2, StoredRow
    <3>4. QED BY <2>2, <3>2, <3>3 DEF RecordOK
  <2>3. QED BY <2>1, <2>2 DEF WaitsInTable
<1>3. ASSUME NEW j \in Job, RequestWebuiJobCancel(j), UNCHANGED mem PROVE Goal
  <2>1. JobOK(j) /\ row[j] # NoRow BY <1>3 DEF QueueInv, RequestWebuiJobCancel
  <2>2. IsTerminal(row[j]) => CancelledRow(row[j]) = row[j]
    BY <2>1, CancelledFields DEF JobOK
  <2>3. row' = [row EXCEPT ![j] = CancelledRow(row[j])]
    BY <1>3 DEF RequestWebuiJobCancel, SaveWebuiJob
  <2>4. mem[j].status = "queued" => CancelledRow(row[j]) \in {QueuedRow, CancelledRow(QueuedRow)}
    BY CancelledQueued DEF WaitsInTable
  <2>5. QED BY <1>3, <2>2, <2>3, <2>4, QueueTypes DEF WaitsInTable
<1>4. ASSUME NEW j \in Job, NEW r \in Row, Saves(j, r) PROVE Goal
  <2>1. IsTerminal(row[j]) => r = row[j]
    <3>1. row[j] = QueuedRow => ~ IsTerminal(row[j]) BY BlankRecords DEF IsTerminal, TerminalStatus
    <3>2. QED BY <1>4, <3>1, BlankRecords, CancelledQueued DEF Saves, WaitsInTable
  <2>2. QED
    BY <1>4, <2>1, QueueTypes DEF Saves, Persist, SaveWebuiJob, WaitsInTable, Unclaimed
<1>5. ASSUME NEW j \in Job, NEW m \in Row, Notes(j, m) PROVE Goal
  BY <1>5, QueueTypes DEF Notes, WaitsInTable, Unclaimed
<1>6. CASE UNCHANGED <<row, mem>> BY <1>6 DEF WaitsInTable
<1>7. QED BY <1>1, <1>2, <1>3, <1>4, <1>5, <1>6, QueueWrites DEF ServerWrite

\* The invariant of the queue by itself.
LEMMA QueueInvariant == LocalSpec => [](QueueInv /\ WaitsInTable)
<1>1. LocalInit => QueueInv /\ WaitsInTable
  <2> SUFFICES ASSUME LocalInit PROVE QueueInv /\ WaitsInTable OBVIOUS
  <2>1. \A j \in Job : mem[j] = NoRow BY DEF LocalInit
  <2>2. QED BY <2>1, QueueStarts, BlankRecords DEF WaitsInTable
<1>2. ASSUME QueueInv, WaitsInTable, [QueueStep]_localVars PROVE QueueInv' /\ WaitsInTable'
  <2>1. CASE QueueStep BY <1>2, <2>1, QueueStepKeeps, QueueAlone
  <2>2. CASE UNCHANGED localVars
    BY <1>2, <2>2, QueueRests DEF localVars, queueVars, WaitsInTable
  <2>3. QED BY <1>2, <2>1, <2>2
<1>3. QED BY <1>1, <1>2, PTL DEF LocalSpec

\* An acknowledged cancel is never lost, and nothing is recorded as succeeded that did
\* not exit with 0, whatever stale records the server saves over the rows.
THEOREM QueueSound == LocalSpec => [](AckedCancelSticks /\ NoSilentGreen)
<1>1. QueueInv => AckedCancelSticks /\ NoSilentGreen
  <2> SUFFICES ASSUME QueueInv PROVE AckedCancelSticks /\ NoSilentGreen OBVIOUS
  <2>1. \A j \in Job : PastOK(j) BY DEF QueueInv, JobOK
  <2>2. AckedCancelSticks BY <2>1, QueueTypes DEF PastOK, AckedCancelSticks
  <2>3. NoSilentGreen BY <2>1 DEF PastOK, NoSilentGreen
  <2>4. QED BY <2>2, <2>3
<1>2. QED BY <1>1, QueueInvariant, PTL

\* In strict mode no save of the server changes a row that is over.
THEOREM StrictOutcomesStay == LocalSpec => StrictTerminalIsFinal
<1>1. ASSUME QueueInv, WaitsInTable, [QueueStep]_localVars
      PROVE  [strict => \A j \in Job : IsTerminal(row[j]) => row'[j] = row[j]]_row
  <2>1. CASE QueueStep BY <1>1, <2>1, QueueAlone
  <2>2. CASE UNCHANGED localVars BY <2>2 DEF localVars
  <2>3. QED BY <1>1, <2>1, <2>2
<1>2. QED BY <1>1, QueueInvariant, PTL DEF LocalSpec, StrictTerminalIsFinal

-----------------------------------------------------------------------------
(* The server and the workers.                                              *)

\* A row may be taken from its worker at any time, and its id even be given to another
\* job; but what the worker may still do to the row is covered by what it did: it spawns a
\* job that has not run, and reports a success of one that exited with 0.  In strict mode
\* ids are not given twice, so a worker's job does not wait, nor run in the server.
Covered(w) ==
  /\ wk[w].pc = "prespawn" /\ Owns(w, row[wk[w].job]) => wk[w].job \notin ran
  /\ wk[w].pc = "report" /\ wk[w].verdict = "succeeded" /\ Owns(w, row[wk[w].job])
       => wk[w].job \in green
  /\ strict /\ wk[w].pc # "poll" => row[wk[w].job].status \notin Unclaimed /\ wk[w].job # cur

SystemInv == QueueInv /\ FleetTypeOK /\ \A w \in Runner : HoldsAJob(w) /\ Covered(w)

\* What a step that is not worker v's own leaves of the row of job j.
Spares(v, j) ==
  /\ Owns(v, row'[j]) => /\ Owns(v, row[j])
                         /\ j \in ran' => j \in ran
                         /\ j \in green => j \in green'
  /\ strict /\ row[j].status \notin Unclaimed
       => row'[j].status \notin Unclaimed /\ (cur' = j => cur = j)

LEMMA SparedIsCovered ==
  ASSUME SystemInv, NEW v \in Runner, wk'[v] = wk[v], strict' = strict,
         \A j \in Job : Spares(v, j)
  PROVE  HoldsAJob(v)' /\ Covered(v)'
<1>1. HoldsAJob(v) /\ Covered(v) BY DEF SystemInv
<1>2. wk[v].pc # "poll" => Spares(v, wk[v].job) BY <1>1 DEF HoldsAJob
<1>3. HoldsAJob(v)' BY <1>1 DEF HoldsAJob, ChildRuns
<1>4. Covered(v)' BY <1>1, <1>2 DEF Covered, Spares
<1>5. QED BY <1>3, <1>4

\* Workers are not the server, nor nobody.
LEMMA RunnersAreOthers == \A w \in Runner : w \in Worker /\ w # Local /\ w # NoWorker
BY FleetAssumption, SystemAssumption, StoreAssumption

\* The server starts only what waits in the table.
LEMMA ServerStarts ==
  ASSUME QueueInv, QueueStep, NEW j \in Job, cur # j, cur' = j
  PROVE  row[j].status = "queued"
<1>1. j # Idle BY QueueAssumption
<1>2. CASE StartJob BY <1>1, <1>2 DEF StartJob, StartsClaimed, Claimable
<1>3. CASE ~ StartJob
  BY <1>1, <1>3, Zenon DEF QueueStep, Enqueue, Heartbeat, ResultLine, Watchdog, ChildCloses,
                     KillGraceEnds, Finish, Cancel, Restart
<1>4. QED BY <1>2, <1>3

\* The server leaves a worker's row to it, or takes it away for good.
LEMMA ServerSpares ==
  ASSUME QueueInv, QueueStep, NEW v \in Runner, NEW k \in Job
  PROVE  Spares(v, k) /\ strict' = strict
<1>0. QueueInv' /\ v # Local /\ v # NoWorker /\ row \in [Job -> Row]
  BY QueueStepKeeps, RunnersAreOthers, QueueTypes
<1>s. strict' = strict
  BY Zenon DEF QueueStep, Enqueue, StartJob, Heartbeat, ResultLine, Watchdog, ChildCloses,
               KillGraceEnds, Finish, Cancel, Restart
<1>1. IsActive(row'[k]) /\ row'[k] = mem'[k] => ~ Owns(v, row'[k])
  <2>1. SUFFICES ASSUME IsActive(mem'[k]), row'[k] = mem'[k] PROVE row'[k].worker # v
    BY DEF Owns
  <2>2. k = cur' BY <1>0, <2>1 DEF QueueInv, JobOK, MemoryOK
  <2>3. cur' # Idle BY <2>2, QueueAssumption
  <2>4. Owns(Local, row'[k]) BY <1>0, <2>2, <2>3 DEF QueueInv, SlotOK
  <2>5. QED BY <1>0, <2>4 DEF Owns
<1>3. ASSUME ~ Enqueue PROVE (k \in ran' => k \in ran \/ k = cur') /\ (k \in green => k \in green')
  <2>1. CASE StartJob BY <2>1, Zenon DEF StartJob
  <2>2. CASE ~ StartJob
    BY <1>3, <2>2, Zenon DEF QueueStep, Heartbeat, ResultLine, Watchdog, ChildCloses,
                       KillGraceEnds, Finish, Cancel, Restart
  <2>3. QED BY <2>1, <2>2
<1>4. ASSUME ~ Enqueue, Owns(v, row'[k]) PROVE (k \in ran' => k \in ran) /\ (k \in green => k \in green')
  <2>1. k = cur' => Owns(Local, row'[k])
    BY <1>0, QueueAssumption DEF QueueInv, SlotOK
  <2>2. k # cur' BY <1>0, <1>4, <2>1 DEF Owns
  <2>3. QED BY <1>3, <1>4, <2>2
<1>5. ASSUME ~ Enqueue, row[k].status \notin Unclaimed PROVE cur' = k => cur = k
  BY <1>5, ServerStarts DEF Unclaimed
<1>6. ASSUME ~ Enqueue,
             Owns(v, row'[k]) => Owns(v, row[k]),
             row[k].status \notin Unclaimed => row'[k].status \notin Unclaimed
      PROVE  Spares(v, k)
  BY <1>4, <1>5, <1>6 DEF Spares
<1>7. CASE Enqueue
  <2>1. PICK j \in Job, r \in {QueuedRow, InState(QueuedRow, "interrupted")} :
           /\ row' = [row EXCEPT ![j] = r] /\ (strict => row[j] = NoRow)
           /\ cur' = cur /\ ran' \subseteq ran /\ \A i \in Job \ {j} : i \in green' <=> i \in green
    BY <1>7, NewId
  <2>2. ~ Owns(v, r)
    BY <2>1, BlankRecords, StatusSet DEF Owns, IsActive, ActiveStatus, TerminalStatus
  <2>3. CASE k = j
    <3>1. row'[k] = r BY <1>0, <2>1, <2>3
    <3>2. strict => row[k].status \in Unclaimed BY <2>1, <2>3, BlankRecords DEF Unclaimed
    <3>3. QED BY <1>s, <2>2, <3>1, <3>2 DEF Spares
  <2>4. CASE k # j
    <3>1. row'[k] = row[k] /\ (k \in ran' => k \in ran) /\ (k \in green => k \in green') /\ cur' = cur
      BY <1>0, <2>1, <2>4
    <3>2. QED BY <1>s, <3>1 DEF Spares
  <2>5. QED BY <2>3, <2>4
<1>8. CASE Restart /\ ~ Enqueue
  <2>1. /\ ~ IsActive(row'[k])
        /\ row'[k] = row[k] \/ row'[k].status = "interrupted"
    BY <1>8, StoredRow
  <2>2. QED BY <1>s, <1>6, <1>8, <2>1 DEF Owns, Unclaimed
<1>9. ASSUME ~ Enqueue, NEW j \in Job, RequestWebuiJobCancel(j) PROVE Spares(v, k)
  <2>1. JobOK(k) BY DEF QueueInv
  <2>2. row'[k] = IF k = j THEN CancelledRow(row[k]) ELSE row[k]
    BY <1>0, <1>9 DEF RequestWebuiJobCancel, SaveWebuiJob
  <2>3. CASE k = j
    <3>1. row[k] # NoRow /\ RecordOK(row[k])
      BY <1>9, <2>1, <2>3 DEF RequestWebuiJobCancel, JobOK
    <3>2. /\ CancelledRow(row[k]).worker = row[k].worker
          /\ IsTerminal(row[k]) => CancelledRow(row[k]) = row[k]
          /\ ~ IsTerminal(row[k]) => CancelledRow(row[k]).status
                                       = IF row[k].status = "queued" THEN "canceled" ELSE "canceling"
          /\ IsTerminal(row[k]) \/ IsActive(row[k]) \/ row[k].status = "queued"
      BY <3>1, CancelledFields
    <3>3. Owns(v, row'[k]) => Owns(v, row[k])
      BY <2>2, <2>3, <3>2 DEF Owns, IsActive, IsTerminal, ActiveStatus, TerminalStatus
    <3>4. row'[k].status \notin Unclaimed
      BY <2>2, <2>3, <3>2 DEF Unclaimed, IsTerminal, TerminalStatus
    <3>5. QED BY <1>6, <1>9, <3>3, <3>4
  <2>4. CASE k # j BY <1>6, <1>9, <2>2, <2>4
  <2>5. QED BY <2>3, <2>4
<1>10. ASSUME ~ Enqueue, NEW j \in Job, NEW r \in Row, Saves(j, r) PROVE Spares(v, k)
  <2>1. CASE k = j
    <3>1. row'[k] = r /\ mem'[k] = r /\ r.status \notin Unclaimed
      BY <1>0, <1>10, <2>1, QueueTypes DEF Saves, Persist, SaveWebuiJob
    <3>2. ~ Owns(v, row'[k]) BY <1>1, <3>1 DEF Owns
    <3>3. QED BY <1>6, <1>10, <3>1, <3>2
  <2>2. CASE k # j
    <3>1. row'[k] = row[k] BY <1>0, <1>10, <2>2 DEF Saves, Persist, SaveWebuiJob
    <3>2. QED BY <1>6, <1>10, <3>1
  <2>3. QED BY <2>1, <2>2
<1>11. ASSUME ~ Enqueue, row' = row PROVE Spares(v, k) BY <1>6, <1>11
<1>12. QED
  BY <1>s, <1>7, <1>8, <1>9, <1>10, <1>11, QueueWrites DEF ServerWrite, Notes

\* What the requests of a worker write: a row it takes from the queue, its own, or one
\* that it cancels.
MayWrite(w, j, r) ==
  /\ RecordOK(r) /\ r.status \notin Unclaimed
  /\ row[j] # NoRow /\ ~ Owns(Local, row[j]) /\ ~ Owns(Local, r)
  /\ IsTerminal(row[j]) => r.status = row[j].status
  /\ row[j].cancelled => r.cancelled
  /\ row[j].cancelled /\ row[j].status = "canceling" => r.status \in {"canceling", "canceled"}
  /\ r.status = "succeeded"
       => \/ row[j].status = "succeeded"
          \/ /\ wk[w].pc = "report" /\ wk[w].job = j /\ wk[w].verdict = "succeeded"
             /\ Owns(w, row[j])
  /\ \A v \in Worker : Owns(v, r) => Owns(v, row[j]) \/ (v = w /\ wk[w].pc = "poll")

WorkerWrite(w, j, r) == row' = [row EXCEPT ![j] = r] /\ MayWrite(w, j, r)

\* What a heartbeat and a completion write, of the row of worker w.
LEMMA OwnedRowWritten ==
  ASSUME NEW w \in Worker, NEW r, RecordOK(r), Owns(w, r)
  PROVE  /\ \A s \in {"claimed", "running"} :
              /\ RecordOK(HeartbeatRow(r, s)) /\ Owns(w, HeartbeatRow(r, s))
              /\ HeartbeatRow(r, s).cancelled = r.cancelled
              /\ r.status = "canceling" => HeartbeatRow(r, s).status = "canceling"
         /\ \A v \in Verdicts :
              LET c == CompletedRow(r, IF CancelRequested(r) THEN "canceled" ELSE v) IN
              /\ RecordOK(c) /\ IsTerminal(c) /\ (r.cancelled => c.cancelled)
              /\ CancelRequested(r) => c.status = "canceled"
              /\ c.status = "succeeded" => v = "succeeded"
<1> USE DEF Owns, IsActive, IsTerminal, RecordOK, Row, JobStatus, ActiveStatus, TerminalStatus, Lease
<1>1. ASSUME NEW s \in {"claimed", "running"}
      PROVE  /\ RecordOK(HeartbeatRow(r, s)) /\ Owns(w, HeartbeatRow(r, s))
             /\ HeartbeatRow(r, s).cancelled = r.cancelled
             /\ r.status = "canceling" => HeartbeatRow(r, s).status = "canceling"
  BY DEF HeartbeatRow
<1>2. ASSUME NEW v \in Verdicts
      PROVE  LET c == CompletedRow(r, IF CancelRequested(r) THEN "canceled" ELSE v) IN
             /\ RecordOK(c) /\ IsTerminal(c) /\ (r.cancelled => c.cancelled)
             /\ CancelRequested(r) => c.status = "canceled"
             /\ c.status = "succeeded" => v = "succeeded"
  BY DEF CompletedRow, CancelRequested, Verdicts
<1>3. QED BY <1>1, <1>2

\* A worker's request writes one such row, or none.
LEMMA WorkerWrites ==
  ASSUME QueueInv, NEW w \in Runner, WorkerTable(w)
  PROVE  UNCHANGED row \/ \E j \in Job, r \in Row : WorkerWrite(w, j, r)
<1>0. /\ w \in Worker /\ w # Local /\ w # NoWorker
      /\ \A j \in Job : RecordOK(row[j]) /\ row[j] \in Row
  BY RunnersAreOthers DEF QueueInv, JobOK, RecordOK
<1>1. ASSUME NEW j \in Job, ApiTakesCancel(w, j), RequestWebuiJobCancel(j)
      PROVE  WorkerWrite(w, j, CancelledRow(row[j])) /\ CancelledRow(row[j]) \in Row
  <2> DEFINE r == CancelledRow(row[j])
  <2>1. row[j] # NoRow /\ row' = [row EXCEPT ![j] = r] /\ (IsActive(row[j]) => row[j].worker = w)
    BY <1>1 DEF ApiTakesCancel, RequestWebuiJobCancel, SaveWebuiJob
  <2>2. /\ r \in Row /\ RecordOK(r) /\ r.worker = row[j].worker
        /\ IsTerminal(row[j]) => r = row[j]
        /\ ~ IsTerminal(row[j]) => /\ r.cancelled
                                   /\ r.status = IF row[j].status = "queued" THEN "canceled"
                                                                              ELSE "canceling"
        /\ IsTerminal(row[j]) \/ IsActive(row[j]) \/ row[j].status = "queued"
    BY <1>0, <2>1, CancelledFields
  <2> HIDE DEF r
  <2>3. QED
    BY <1>0, <2>1, <2>2
    DEF WorkerWrite, MayWrite, Owns, IsActive, IsTerminal, ActiveStatus, TerminalStatus, Unclaimed, r
<1>2. ASSUME NEW j \in Job, wk[w].pc = "poll", ClaimWebuiJob(j, w, TRUE)
      PROVE  WorkerWrite(w, j, ClaimedRow(row[j], w)) /\ ClaimedRow(row[j], w) \in Row
  <2> DEFINE r == ClaimedRow(row[j], w)
  <2>1. row[j].status = "queued" /\ row' = [row EXCEPT ![j] = r]
    BY <1>2 DEF ClaimWebuiJob, Claimable, SaveWebuiJob
  <2>2. row[j] = QueuedRow BY <1>0, <2>1 DEF RecordOK
  <2>3. row[j].attempts + 1 \in Nat /\ row[j] \in Row BY <1>0 DEF Row
  <2>4. r \in Row BY <1>0, <2>3, ClaimedFields DEF ClaimedRow
  <2>5. r.status = "claimed" /\ r.worker = w /\ r.cancelled = row[j].cancelled
    BY <2>3, <2>4 DEF ClaimedRow, Row
  <2> HIDE DEF r
  <2>6. ~ r.cancelled /\ ~ row[j].cancelled /\ row[j] # NoRow BY <2>2, <2>5, BlankRecords
  <2>7. RecordOK(r) BY <2>4, <2>5, <2>6 DEF RecordOK
  <2>8. QED
    BY <1>0, <1>2, <2>1, <2>4, <2>5, <2>6, <2>7
    DEF WorkerWrite, MayWrite, Owns, IsActive, IsTerminal, ActiveStatus, TerminalStatus, Unclaimed, r
<1>3. ASSUME NEW j \in Job, NEW s \in {"claimed", "running"}, HeartbeatWebuiJob(j, w, s)
      PROVE  WorkerWrite(w, j, HeartbeatRow(row[j], s)) /\ HeartbeatRow(row[j], s) \in Row
  <2> DEFINE r == HeartbeatRow(row[j], s)
  <2>1. Owns(w, row[j]) /\ row' = [row EXCEPT ![j] = r]
    BY <1>3 DEF HeartbeatWebuiJob, SaveWebuiJob
  <2>2. /\ RecordOK(r) /\ Owns(w, r) /\ r.cancelled = row[j].cancelled
        /\ row[j].status = "canceling" => r.status = "canceling"
    BY <1>0, <2>1, OwnedRowWritten
  <2> HIDE DEF r
  <2>3. row[j] # NoRow /\ r \in Row
    BY <2>1, <2>2, BlankRecords DEF RecordOK, Owns, IsActive, ActiveStatus
  <2>4. QED
    BY <1>0, <2>1, <2>2, <2>3
    DEF WorkerWrite, MayWrite, Owns, RecordOK, IsActive, IsTerminal, ActiveStatus, TerminalStatus, Unclaimed, r
<1>4. ASSUME NEW j \in Job, NEW v \in Verdicts,
             wk[w].pc = "report", wk[w].job = j, wk[w].verdict = v,
             CompleteWebuiJob(j, w, IF CancelRequested(row[j]) THEN "canceled" ELSE v)
      PROVE  \E r \in Row : WorkerWrite(w, j, r)
  <2> DEFINE r == CompletedRow(row[j], IF CancelRequested(row[j]) THEN "canceled" ELSE v)
  <2>1. Owns(w, row[j]) /\ row' = [row EXCEPT ![j] = r]
    BY <1>4 DEF CompleteWebuiJob, SaveWebuiJob
  <2>2. /\ RecordOK(r) /\ IsTerminal(r) /\ (row[j].cancelled => r.cancelled)
        /\ CancelRequested(row[j]) => r.status = "canceled"
        /\ r.status = "succeeded" => v = "succeeded"
    BY <1>0, <2>1, OwnedRowWritten
  <2> HIDE DEF r
  <2>3. row[j] # NoRow /\ r \in Row
    BY <2>1, <2>2, BlankRecords DEF RecordOK, Owns, IsActive, ActiveStatus
  <2>4. WorkerWrite(w, j, r)
    BY <1>0, <1>4, <2>1, <2>2, <2>3
    DEF WorkerWrite, MayWrite, Owns, CancelRequested, IsActive, IsTerminal, ActiveStatus, TerminalStatus,
        Unclaimed
  <2>5. QED BY <2>3, <2>4
<1>5. QED BY <1>1, <1>2, <1>3, <1>4 DEF WorkerTable

\* What it writes leaves the queue's invariant standing, if a success it writes is known
\* to be one, and it adds to the histories only jobs in flight.
LEMMA WorkerKeepsQueue ==
  ASSUME QueueInv, NEW w \in Runner,
         UNCHANGED row \/ \E j \in Job, r \in Row : WorkerWrite(w, j, r),
         wk[w].pc = "report" /\ wk[w].verdict = "succeeded" /\ Owns(w, row[wk[w].job])
           => wk[w].job \in green,
         UNCHANGED <<strict, seq, mem, chain, cur, child, overran, acked>>,
         ran \subseteq ran' /\ ran' \subseteq Job /\ green \subseteq green' /\ green' \subseteq Job,
         \A k \in Job : k \in (ran' \ ran) \cup (green' \ green) => IsActive(row[k])
  PROVE  QueueInv'
<1>1. /\ row' \in [Job -> Row]
      /\ \A k \in Job : row'[k] = row[k] \/ MayWrite(w, k, row'[k])
  <2>1. CASE UNCHANGED row BY <2>1, QueueTypes
  <2>2. CASE \E j \in Job, r \in Row : WorkerWrite(w, j, r)
    <3>1. PICK j \in Job, r \in Row : WorkerWrite(w, j, r) BY <2>2
    <3>2. row' \in [Job -> Row] /\ row'[j] = r /\ \A k \in Job : k # j => row'[k] = row[k]
      BY <3>1, QueueTypes DEF WorkerWrite
    <3>3. QED BY <3>1, <3>2 DEF WorkerWrite
  <2>3. QED BY <2>1, <2>2
<1>2. ASSUME NEW k \in Job PROVE row'[k] # NoRow <=> row[k] # NoRow
  BY <1>1, BlankRecords DEF MayWrite, Unclaimed
<1>3. QueueTypeOK' BY QueueTypes DEF QueueTypeOK
<1>4. IdsAreBounded' BY <1>2 DEF QueueInv, IdsAreBounded
<1>5. SlotOK'
  <2>1. cur # Idle => row'[cur] = row[cur]
    BY <1>1, RunningJob DEF MayWrite, Owns
  <2>2. QED BY <2>1 DEF QueueInv, SlotOK
<1>6. ASSUME NEW k \in Job PROVE JobOK(k)'
  <2>1. RecordOK(row[k]) /\ RecordOK(mem[k]) /\ IdOK(k) /\ MemoryOK(k) /\ PastOK(k)
    BY DEF QueueInv, JobOK
  <2>2. RecordOK(row'[k]) /\ RecordOK(mem'[k]) BY <1>1, <2>1 DEF MayWrite
  <2>3. IdOK(k)' BY <1>2, <2>1 DEF IdOK
  <2>4. MemoryOK(k)'
    <3>1. IsTerminal(mem[k]) => row'[k].status = mem[k].status
      BY <1>1, <2>1 DEF MemoryOK, MayWrite, IsTerminal
    <3>2. QED BY <2>1, <3>1 DEF MemoryOK
  <2>5. row'[k].status \in Unclaimed => k \notin ran' \cup green'
    <3>1. SUFFICES ASSUME row'[k].status \in Unclaimed PROVE k \notin ran' \cup green' OBVIOUS
    <3>2. row'[k] = row[k] BY <1>1, <3>1 DEF MayWrite
    <3>3. k \notin ran \cup green /\ ~ IsActive(row[k])
      BY <2>1, <3>1, <3>2 DEF PastOK, Unclaimed, IsActive, ActiveStatus
    <3>4. QED BY <3>3
  <2>6. row'[k].status = "succeeded" => k \in green'
    BY <1>1, <2>1 DEF PastOK, MayWrite
  <2>7. k \in acked' => /\ row'[k].cancelled
                        /\ row'[k].status \in {"canceling", "canceled", "interrupted"}
                        /\ mem'[k] # NoRow => mem'[k].cancelled
    BY <1>1, <2>1 DEF PastOK, MayWrite, IsTerminal, TerminalStatus
  <2>8. QED BY <2>2, <2>3, <2>4, <2>5, <2>6, <2>7 DEF JobOK, PastOK
<1>7. QED BY <1>1, <1>3, <1>4, <1>5, <1>6 DEF QueueInv

\* A worker spawns only a job that it holds, that it owns and that has not run.
LEMMA SpawnIsFirst ==
  ASSUME SystemInv, NEW w \in Runner, NEW rec \in WorkerRecord, WorkerBecomes(w, rec),
         WorkerMove(w, rec), NEW j \in Job, RunnerSpawns(w, j)
  PROVE  Owns(w, row[j]) /\ j \notin ran
<1>1. wk'[w] = rec /\ wk[w].child = "none" /\ rec.child = "alive" /\ wk[w].job = j
  BY DEF SystemInv, FleetTypeOK, WorkerBecomes, RunnerSpawns
<1>2. GoesOn(w, rec) BY <1>1 DEF WorkerMove, Polling, Takes
<1>3. wk[w].pc = "prespawn" /\ Owns(w, row[j]) BY <1>1, <1>2 DEF GoesOn
<1>4. QED BY <1>1, <1>3 DEF SystemInv, Covered

LEMMA RunnerStepKeeps ==
  ASSUME SystemInv, NEW w \in Runner, RunnerStep(w)
  PROVE  /\ SystemInv'
         /\ \A v \in Runner, j \in Job : RunnerSpawns(v, j) => j \notin ran
<1>0. /\ QueueInv /\ FleetTypeOK /\ HoldsAJob(w) /\ Covered(w) /\ WorkerStep(w)
      /\ wk \in [Runner -> WorkerRecord] /\ w \in Worker
  BY RunnersAreOthers DEF SystemInv, FleetTypeOK, RunnerStep
<1>1. PICK rec \in WorkerRecord : WorkerBecomes(w, rec) /\ WorkerMove(w, rec)
  BY <1>0, WorkerMoves
<1>2. wk'[w] = rec /\ \A v \in Runner : v # w => wk'[v] = wk[v]
  BY <1>0, <1>1 DEF WorkerBecomes
<1>3. UNCHANGED row \/ \E j \in Job, r \in Row : WorkerWrite(w, j, r)
  BY <1>0, WorkerUsesTable, WorkerWrites
<1>4. /\ strict' = strict /\ cur' = cur
      /\ UNCHANGED <<strict, seq, mem, chain, cur, child, overran, acked>>
      /\ ran' = ran \cup {j \in Job : RunnerSpawns(w, j)}
      /\ green' = green \cup {j \in Job : RunnerSucceeds(w, j)}
  BY DEF RunnerStep
<1>5. ASSUME NEW j \in Job, j \in ran' PROVE j \in ran \/ Owns(w, row[j])
  BY <1>1, <1>4, <1>5, SpawnIsFirst
<1>6. QueueInv'
  <2>1. ran \subseteq ran' /\ ran' \subseteq Job /\ green \subseteq green' /\ green' \subseteq Job
    BY <1>0, <1>4, QueueTypes
  <2>2. \A k \in Job : k \in (ran' \ ran) \cup (green' \ green) => IsActive(row[k])
    BY <1>4, <1>5 DEF RunnerSucceeds, Owns
  <2>3. wk[w].pc = "report" /\ wk[w].verdict = "succeeded" /\ Owns(w, row[wk[w].job])
          => wk[w].job \in green
    BY <1>0 DEF Covered
  <2>4. QED BY <1>0, <1>3, <1>4, <2>1, <2>2, <2>3, WorkerKeepsQueue
<1>7. ASSUME NEW j \in Job
      PROVE  /\ \A v \in Worker : Owns(v, row'[j])
                                    => Owns(v, row[j]) \/ (v = w /\ wk[w].pc = "poll")
             /\ row[j].status \notin Unclaimed => row'[j].status \notin Unclaimed
  <2>1. CASE UNCHANGED row BY <2>1
  <2>2. CASE \E i \in Job, r \in Row : WorkerWrite(w, i, r)
    BY <1>0, <2>2, QueueTypes DEF WorkerWrite, MayWrite
  <2>3. QED BY <1>3, <2>1, <2>2
<1>8. FleetTypeOK' /\ HoldsAJob(w)' BY <1>0, <1>1, MoverHoldsAJob
<1>9. ASSUME NEW v \in Runner, v # w PROVE HoldsAJob(v)' /\ Covered(v)'
  <2>1. ASSUME NEW j \in Job PROVE Spares(v, j)
    <3>1. Owns(v, row'[j]) => Owns(v, row[j]) BY <1>7, <1>9, RunnersAreOthers
    <3>2. Owns(v, row[j]) => ~ Owns(w, row[j]) BY <1>9 DEF Owns
    <3>3. j \in green => j \in green' BY <1>4
    <3>4. QED BY <1>4, <1>5, <1>7, <3>1, <3>2, <3>3 DEF Spares
  <2>2. QED BY <1>2, <1>4, <1>9, <2>1, SparedIsCovered
<1>10. Covered(w)'
  <2>1. CASE rec.pc = "poll" BY <1>2, <2>1 DEF Covered
  <2>2. CASE rec = wk[w] /\ rec.pc # "poll"
    <3>1. \A j \in Job : ~ RunnerSpawns(w, j) BY <1>2, <2>2 DEF RunnerSpawns
    <3>2. ran' = ran BY <1>4, <3>1
    <3>3. ASSUME NEW j \in Job PROVE Spares(w, j)
      BY <1>0, <1>4, <1>7, <2>2, <3>2 DEF Spares
    <3>4. QED BY <1>2, <1>4, <2>2, <3>3, SparedIsCovered
  <2>3. CASE GoesOn(w, rec)
    <3>1. wk[w].job \in Job /\ rec.job = wk[w].job /\ wk[w].pc # "poll" /\ rec.pc # "prespawn"
      BY <1>0, <2>3 DEF GoesOn, HoldsAJob
    <3>2. ASSUME rec.pc = "report", rec.verdict = "succeeded", Owns(w, row'[wk[w].job])
          PROVE  wk[w].job \in green'
      <4>1. Owns(w, row[wk[w].job]) BY <1>0, <1>7, <3>1, <3>2
      <4>2. RunnerSucceeds(w, wk[w].job)
        BY <1>2, <2>3, <3>2, <4>1 DEF GoesOn, RunnerSucceeds
      <4>3. QED BY <1>4, <3>1, <4>2
    <3>3. strict => row'[wk[w].job].status \notin Unclaimed /\ wk[w].job # cur'
      BY <1>0, <1>4, <1>7, <3>1 DEF Covered
    <3>4. QED BY <1>2, <1>4, <3>1, <3>2, <3>3 DEF Covered
  <2>4. ASSUME NEW j \in Job, row[j].status = "queued",
               SaveWebuiJob(j, ClaimedRow(row[j], w)), Takes(rec, j)
        PROVE  Covered(w)'
    <3>1. \A i \in Job : ~ RunnerSpawns(w, i) BY <1>2, <2>4 DEF RunnerSpawns, Takes
    <3>2. j \notin ran'
      <4>1. JobOK(j) BY <1>0 DEF QueueInv
      <4>2. j \notin ran BY <2>4, <4>1 DEF JobOK, PastOK, Unclaimed
      <4>3. QED BY <1>4, <3>1, <4>2
    <3>3. row'[j].status \notin Unclaimed
      <4>1. row[j] \in Row /\ row'[j] = ClaimedRow(row[j], w)
        BY <1>0, <2>4, QueueTypes, SavedRow
      <4>2. row'[j].status = "claimed" BY <4>1 DEF ClaimedRow, Row
      <4>3. QED BY <4>2 DEF Unclaimed
    <3>4. j # cur'
      BY <1>0, <1>4, <2>4, RunningJob, QueueTypes DEF IsActive, ActiveStatus
    <3>5. QED BY <1>2, <1>4, <2>4, <3>2, <3>3, <3>4 DEF Covered, Takes
  <2>5. QED BY <1>1, <2>1, <2>2, <2>3, <2>4 DEF WorkerMove, Polling
<1>11. ASSUME NEW v \in Runner, NEW j \in Job, RunnerSpawns(v, j) PROVE j \notin ran
  <2>1. v = w BY <1>2, <1>11 DEF RunnerSpawns
  <2>2. QED BY <1>1, <1>11, <2>1, SpawnIsFirst
<1>12. QED BY <1>6, <1>8, <1>9, <1>10, <1>11 DEF SystemInv

\* The clock takes a worker's lease: the row is the same but for that.
LEMMA LeaseKeeps == ASSUME SystemInv, RunnerLeaseRunsOut PROVE SystemInv'
<1>1. PICK j \in Job : row[j].worker \in Runner /\ LeaseExpires(j)
  BY DEF RunnerLeaseRunsOut
<1>2. UNCHANGED wk /\ UNCHANGED queueVars BY DEF RunnerLeaseRunsOut
<1>3. QueueInv /\ row[j].worker \in Worker /\ row[j].worker # Local /\ row[j].worker # NoWorker
  BY <1>1, RunnersAreOthers DEF SystemInv
<1> DEFINE w == row[j].worker
           r == [row[j] EXCEPT !.lease = "expired"]
<1>4. row' = [row EXCEPT ![j] = r] BY <1>1, <1>3, QueueTypes DEF LeaseExpires
<1>5. RecordOK(row[j]) BY <1>3 DEF QueueInv, JobOK
<1>6. /\ r \in Row /\ r.status = row[j].status /\ r.cancelled = row[j].cancelled
      /\ r.worker = row[j].worker
  BY <1>5 DEF RecordOK, Row, Lease
<1> HIDE DEF r
<1>7. row[j].status \notin Unclaimed /\ row[j] # NoRow
  BY <1>3, <1>5, BlankRecords DEF RecordOK, Unclaimed
<1>8. WorkerWrite(w, j, r)
  <2>1. RecordOK(r) BY <1>5, <1>6, <1>7 DEF RecordOK, Unclaimed
  <2>2. \A v : Owns(v, r) <=> Owns(v, row[j]) BY <1>6 DEF Owns, IsActive
  <2>3. ~ Owns(Local, row[j]) BY <1>3 DEF Owns
  <2>4. r.status = "succeeded" => row[j].status = "succeeded" BY <1>6
  <2>5. QED BY <1>4, <1>6, <1>7, <2>1, <2>2, <2>3, <2>4 DEF WorkerWrite, MayWrite
<1>9. QueueInv'
  <2>1. w \in Runner /\ Covered(w) BY <1>1 DEF SystemInv
  <2>2. ran' = ran /\ green' = green
        /\ UNCHANGED <<strict, seq, mem, chain, cur, child, overran, acked>>
    BY <1>2 DEF queueVars
  <2>3. ran \subseteq Job /\ green \subseteq Job BY <1>3, QueueTypes
  <2>4. wk[w].pc = "report" /\ wk[w].verdict = "succeeded" /\ Owns(w, row[wk[w].job])
          => wk[w].job \in green
    BY <2>1 DEF Covered
  <2> HIDE DEF w
  <2>5. QED BY <1>3, <1>6, <1>8, <2>1, <2>2, <2>3, <2>4, WorkerKeepsQueue
<1>10. ASSUME NEW v \in Runner PROVE HoldsAJob(v)' /\ Covered(v)'
  <2>1. \A k \in Job : row'[k] = IF k = j THEN r ELSE row[k] BY <1>3, <1>4, QueueTypes
  <2>2. strict' = strict /\ cur' = cur /\ ran' = ran /\ green' = green /\ wk' = wk
    BY <1>2 DEF queueVars
  <2>3. ASSUME NEW k \in Job PROVE Spares(v, k)
    BY <1>6, <2>1, <2>2 DEF Spares, Owns, IsActive
  <2>4. QED BY <2>2, <2>3, SparedIsCovered
<1>11. QED BY <1>2, <1>9, <1>10 DEF SystemInv, FleetTypeOK

\* Every step of the job system keeps the invariant.
LEMMA SystemInvPreserved == SystemInv /\ [SystemNext]_systemVars => SystemInv'
<1> SUFFICES ASSUME SystemInv, [SystemNext]_systemVars PROVE SystemInv' OBVIOUS
<1>1. CASE \E w \in Runner : RunnerStep(w) BY <1>1, RunnerStepKeeps
<1>2. CASE ServerStep
  <2>1. QueueInv /\ QueueStep /\ wk' = wk BY <1>2 DEF SystemInv, ServerStep
  <2>2. ASSUME NEW v \in Runner PROVE HoldsAJob(v)' /\ Covered(v)'
    <3>1. \A k \in Job : Spares(v, k) BY <2>1, ServerSpares
    <3>2. strict' = strict
      BY <2>1, Zenon DEF QueueStep, Enqueue, StartJob, Heartbeat, ResultLine, Watchdog,
                         ChildCloses, KillGraceEnds, Finish, Cancel, Restart
    <3>3. QED BY <2>1, <3>1, <3>2, SparedIsCovered
  <2>3. QED BY <2>1, <2>2, QueueStepKeeps DEF SystemInv, FleetTypeOK
<1>3. CASE RunnerLeaseRunsOut BY <1>3, LeaseKeeps
<1>4. CASE UNCHANGED systemVars
  <2>1. UNCHANGED localVars /\ wk' = wk /\ row' = row /\ strict' = strict /\ cur' = cur
        /\ ran' = ran /\ green' = green
    BY <1>4 DEF systemVars, localVars, queueVars
  <2>2. \A v \in Runner, k \in Job : Spares(v, k) BY <2>1 DEF Spares
  <2>3. QED BY <2>1, <2>2, SparedIsCovered, QueueRests DEF SystemInv, FleetTypeOK
<1>5. QED BY <1>1, <1>2, <1>3, <1>4 DEF SystemNext

LEMMA SystemStarts == SystemInit => SystemInv
<1> SUFFICES ASSUME SystemInit PROVE SystemInv OBVIOUS
<1>1. QueueInv BY QueueStarts DEF SystemInit
<1>2. \A w \in Runner : wk[w] = Polling BY DEF SystemInit, FleetInit
<1>3. FleetTypeOK
  BY DEF SystemInit, FleetInit, FleetTypeOK, Polling, WorkerRecord, WorkerPc, ChildState, Verdicts
<1>4. \A w \in Runner : HoldsAJob(w) /\ Covered(w)
  BY <1>2 DEF HoldsAJob, Covered, Polling, ChildRuns
<1>5. QED BY <1>1, <1>3, <1>4 DEF SystemInv

\* The invariant holds in every state of the job system.
THEOREM SystemInvariant == SystemSpec => []SystemInv
BY SystemStarts, SystemInvPreserved, PTL DEF SystemSpec

\* With workers on the same table too, an acknowledged cancel is never lost and nothing is
\* recorded as succeeded that did not exit with 0.
THEOREM SystemKeepsOutcomes == SystemSpec => [](AckedCancelSticks /\ NoSilentGreen)
<1>1. SystemInv => AckedCancelSticks /\ NoSilentGreen
  <2> SUFFICES ASSUME SystemInv PROVE AckedCancelSticks /\ NoSilentGreen OBVIOUS
  <2>1. QueueInv BY DEF SystemInv
  <2>2. \A j \in Job : PastOK(j) BY <2>1 DEF QueueInv, JobOK
  <2>3. AckedCancelSticks BY <2>1, <2>2, QueueTypes DEF PastOK, AckedCancelSticks
  <2>4. NoSilentGreen BY <2>2 DEF PastOK, NoSilentGreen
  <2>5. QED BY <2>3, <2>4
<1>2. QED BY <1>1, SystemInvariant, PTL

\* The server's memory agrees with the rows, its child holds its row, no cancelled job
\* waits in the chain, and in strict mode no worker's child runs the server's job.
THEOREM SystemSound == SystemSpec => []SystemIsSound
<1>1. SystemInv => SystemIsSound
  <2> SUFFICES ASSUME SystemInv PROVE SystemIsSound OBVIOUS
  <2>0. QueueInv BY DEF SystemInv
  <2>1. QueueTypeOK BY <2>0 DEF QueueInv
  <2>2. ASSUME NEW j \in chain, mem[j].cancelled PROVE IsTerminal(mem[j])
    <3>1. j \in Job /\ JobOK(j) BY <2>0, <2>2, QueueTypes DEF QueueInv
    <3>2. j # cur BY <2>0, <2>2, <3>1, RunningJob, QueueTypes
    <3>3. ~ IsActive(mem[j]) BY <3>1, <3>2 DEF JobOK, MemoryOK
    <3>4. QED BY <2>2, <3>1, <3>3 DEF JobOK, RecordOK, IsActive, IsTerminal, ActiveStatus
  <2>3. MemoryAgrees BY <2>0 DEF QueueInv, JobOK, MemoryOK, MemoryAgrees
  <2>4. LocalRunHoldsRow BY <2>0 DEF QueueInv, SlotOK, LocalRunHoldsRow
  <2>5. NoDoubleRun BY DEF SystemInv, HoldsAJob, Covered, NoDoubleRun
  <2>6. QED BY <2>1, <2>2, <2>3, <2>4, <2>5 DEF SystemIsSound, QueuedIsNotCancelled
<1>2. QED BY <1>1, SystemInvariant, PTL

\* A job is spawned at most once, by the server or by a worker.
THEOREM SystemSpawnsOnce == SystemSpec => SpawnedByOne
<1> DEFINE Fresh == \A j \in Job :
             (cur # j /\ cur' = j) \/ (\E w \in Runner : RunnerSpawns(w, j)) => j \notin ran
<1>1. ASSUME SystemInv, [SystemNext]_systemVars PROVE [Fresh]_systemVars
  <2>1. ASSUME NEW w \in Runner, RunnerStep(w) PROVE Fresh
    <3>1. cur' = cur BY <2>1 DEF RunnerStep
    <3>2. QED BY <1>1, <2>1, <3>1, RunnerStepKeeps
  <2>2. CASE ServerStep
    <3>1. QueueInv /\ QueueStep /\ wk' = wk BY <1>1, <2>2 DEF SystemInv, ServerStep
    <3>2. ASSUME NEW j \in Job, cur # j, cur' = j PROVE j \notin ran
      <4>1. row[j].status = "queued" BY <3>1, <3>2, ServerStarts
      <4>2. JobOK(j) BY <3>1 DEF QueueInv
      <4>3. QED BY <4>1, <4>2 DEF JobOK, PastOK, Unclaimed
    <3>3. \A w \in Runner, j \in Job : ~ RunnerSpawns(w, j) BY <3>1 DEF RunnerSpawns
    <3>4. QED BY <3>2, <3>3
  <2>3. CASE RunnerLeaseRunsOut
    BY <2>3 DEF RunnerLeaseRunsOut, queueVars, RunnerSpawns
  <2>4. QED BY <1>1, <2>1, <2>2, <2>3 DEF SystemNext
<1>2. QED BY <1>1, SystemInvariant, PTL DEF SystemSpec, SpawnedByOne

=============================================================================
