------------------------------ MODULE JobStore ------------------------------
(***************************************************************************)
(* The durable job table of lib/db.js (webui_jobs) and the guarded         *)
(* operations on one row of it.  Every operation is one synchronous SQLite *)
(* statement or transaction, so it is one atomic step.                     *)
(*                                                                         *)
(* The operators on a single row (ClaimedRow, HeartbeatRow, ...) are used  *)
(* by the modules that model the server and the runners; StoreSpec, at the *)
(* end, is the contract of the table when it is reached through the        *)
(* guarded operations only, in whatever order any caller calls them.       *)
(*                                                                         *)
(* Time is abstracted: claim_expires_at is only ever compared with the     *)
(* clock, so a lease is "live", "expired" or "none" (NULL).                *)
(***************************************************************************)
EXTENDS Naturals

CONSTANTS
  Job,          (* job ids; a smaller id was enqueued earlier               *)
  Worker,       (* runner bindings: runner id, tenant and deployment        *)
  NoWorker,     (* worker_id IS NULL                                        *)
  Resumable,    (* the jobs with a persisted command (resumable = 1)        *)
  MaxAttempts,  (* max_attempts of each job                                 *)
  TenantOf      (* the tenant of each job and of each worker                *)

ASSUME StoreAssumption ==
  /\ Job \subseteq Nat
  /\ NoWorker \notin Worker
  /\ Resumable \subseteq Job
  /\ MaxAttempts \in [Job -> Nat \ {0}]

VARIABLE row    (* the table: one row per job id                            *)

-----------------------------------------------------------------------------
ActiveStatus   == {"claimed", "running", "canceling"}
TerminalStatus == {"canceled", "succeeded", "failed", "interrupted", "expired"}
JobStatus      == {"queued"} \cup ActiveStatus \cup TerminalStatus
Lease          == {"none", "live", "expired"}

Row == [status: JobStatus \cup {"absent"}, cancelled: BOOLEAN, timedOut: BOOLEAN,
        worker: Worker \cup {NoWorker}, lease: Lease, attempts: Nat]

NoRow     == [status |-> "absent", cancelled |-> FALSE, timedOut |-> FALSE,
              worker |-> NoWorker, lease |-> "none", attempts |-> 0]
QueuedRow == [NoRow EXCEPT !.status = "queued"]

IsActive(r)   == r.status \in ActiveStatus
IsTerminal(r) == r.status \in TerminalStatus

-----------------------------------------------------------------------------
(* What the operations do to a row and when they refuse.                    *)

\* Wrong variants (here and below): what a plausible slip in the code would
\* make of the definition that follows.  They show that the properties can fail.
ClaimableAcrossTenants(j, w, requireResumable) ==
  /\ row[j].status = "queued"
  /\ row[j].attempts < MaxAttempts[j]
  /\ requireResumable => j \in Resumable

\* Wrong variant: a row in flight may be claimed.
ClaimableWhileActive(j, w, requireResumable) ==
  /\ row[j].status \in {"queued"} \cup ActiveStatus
  /\ row[j].attempts < MaxAttempts[j]
  /\ TenantOf[j] = TenantOf[w]
  /\ requireResumable => j \in Resumable

\* The WHERE clause of claimWebuiJob.
Claimable(j, w, requireResumable) ==
  /\ row[j].status = "queued"
  /\ row[j].attempts < MaxAttempts[j]
  /\ TenantOf[j] = TenantOf[w]
  /\ requireResumable => j \in Resumable

ClaimedRow(r, w) ==
  [r EXCEPT !.status = "claimed", !.worker = w, !.lease = "live", !.attempts = @ + 1]

\* The row claimNextWebuiJob picks: the oldest one that can be claimed.
NextClaimable(j, w, requireResumable) ==
  /\ Claimable(j, w, requireResumable)
  /\ \A k \in Job : Claimable(k, w, requireResumable) => j <= k

\* Wrong variant: the status is not looked at.
OwnsInAnyStatus(w, r) == r.worker = w

\* heartbeatWebuiJob and completeWebuiJob find the row by its owner and its
\* status; neither looks at the lease.
Owns(w, r) == IsActive(r) /\ r.worker = w

HeartbeatRow(r, status) ==
  [r EXCEPT !.status = IF @ = "canceling" THEN @ ELSE status, !.lease = "live"]

CancelRequested(r) == r.cancelled \/ r.status = "canceling"

\* No caller in the repository sends the timedOut flag by itself.
CompletedRow(r, status) ==
  [r EXCEPT !.status = status, !.cancelled = @ \/ status = "canceled",
            !.timedOut = (status = "expired"), !.lease = "none"]

CancelledRowMisspelt(r) ==
  IF r.status \in {"queued"} \cup ActiveStatus
  THEN [r EXCEPT !.status = IF @ = "queued" THEN "cancelled" ELSE "canceling",
                 !.cancelled = TRUE]
  ELSE r

CancelledRow(r) ==
  IF r.status \in {"queued"} \cup ActiveStatus
  THEN [r EXCEPT !.status = IF @ = "queued" THEN "canceled" ELSE "canceling",
                 !.cancelled = TRUE]
  ELSE r

\* Wrong variant: a cancel does not rule out a retry.
CanRetryEvenCancelled(j, r) == j \in Resumable /\ r.attempts < MaxAttempts[j]

\* reconcileWebuiJobs looks at active rows; with a staleMs only at those whose
\* lease is over or whose last heartbeat is older than that (the set quiet).
CanRetry(j, r) ==
  /\ r.status # "canceling" /\ ~ r.cancelled
  /\ j \in Resumable /\ r.attempts < MaxAttempts[j]

\* Wrong variant: an interrupted job is queued anew.
InterruptedAsNew(r) == [QueuedRow EXCEPT !.cancelled = r.cancelled]

InterruptedRow(r) == [r EXCEPT !.status = "interrupted", !.lease = "none"]
RequeuedRow(r)    == [r EXCEPT !.status = "queued", !.worker = NoWorker, !.lease = "none"]

ReconciledRow(j, r, retryStale) ==
  IF retryStale /\ CanRetry(j, r) THEN RequeuedRow(r) ELSE InterruptedRow(r)

ReconciledTable(staleOnly, retryStale, quiet) ==
  [j \in Job |-> IF IsActive(row[j]) /\ (staleOnly => row[j].lease # "live" \/ j \in quiet)
                 THEN ReconciledRow(j, row[j], retryStale)
                 ELSE row[j]]

-----------------------------------------------------------------------------
(* The operations as actions.                                               *)

\* saveWebuiJob is an upsert of every column with no guard on the stored row.
SaveWebuiJob(j, rec) == row' = [row EXCEPT ![j] = rec]

EnqueueNew(j) == row[j] = NoRow /\ SaveWebuiJob(j, QueuedRow)

ClaimWebuiJob(j, w, requireResumable) ==
  Claimable(j, w, requireResumable) /\ SaveWebuiJob(j, ClaimedRow(row[j], w))

HeartbeatWebuiJob(j, w, status) ==
  Owns(w, row[j]) /\ SaveWebuiJob(j, HeartbeatRow(row[j], status))

CompleteWebuiJob(j, w, status) ==
  Owns(w, row[j]) /\ SaveWebuiJob(j, CompletedRow(row[j], status))

RequestWebuiJobCancel(j) ==
  row[j] # NoRow /\ SaveWebuiJob(j, CancelledRow(row[j]))

ReconcileWebuiJobs(staleOnly, retryStale, quiet) ==
  row' = ReconciledTable(staleOnly, retryStale, quiet)

\* The clock passes claim_expires_at.
LeaseExpires(j) ==
  row[j].lease = "live" /\ row' = [row EXCEPT ![j].lease = "expired"]

StoreInit == row = [j \in Job |-> NoRow]

StoreNext ==
  \/ \E j \in Job : EnqueueNew(j) \/ RequestWebuiJobCancel(j) \/ LeaseExpires(j)
  \/ \E j \in Job, w \in Worker :
       \/ \E requireResumable \in BOOLEAN : ClaimWebuiJob(j, w, requireResumable)
       \/ \E status \in ActiveStatus : HeartbeatWebuiJob(j, w, status)
       \/ \E status \in TerminalStatus : CompleteWebuiJob(j, w, status)
  \/ \E staleOnly, retryStale \in BOOLEAN, quiet \in SUBSET Job :
       ReconcileWebuiJobs(staleOnly, retryStale, quiet)

StoreSpec == StoreInit /\ [][StoreNext]_row

-----------------------------------------------------------------------------
(* Properties of the table.                                                 *)

\* Type invariant of the job table.
StoreTypeOK == row \in [Job -> Row]

\* An active row always names the worker that claimed it, a worker of the job's
\* own tenant, holds a lease, and has used between one and max_attempts
\* attempts: no sequence of claims, heartbeats, cancels and stale retries
\* strips the owner from a job in flight or overdraws its attempts.
ActiveRowIsOwned ==
  \A j \in Job : IsActive(row[j]) =>
    /\ row[j].worker \in Worker /\ TenantOf[row[j].worker] = TenantOf[j]
    /\ row[j].lease # "none"
    /\ row[j].attempts \in 1 .. MaxAttempts[j]

\* A cancel once recorded is never forgotten: the row only ever goes on to an
\* end, so a stale-runner retry or a heartbeat never puts it back to work.
CancelledRowOnlyEnds ==
  \A j \in Job : row[j].cancelled => row[j].status \in {"canceling"} \cup TerminalStatus

\* A row that reached a terminal status is never written again, whatever late
\* heartbeats, completions, cancels or reconciliations arrive.
TerminalRowIsFinal ==
  [][\A j \in Job : IsTerminal(row[j]) => row'[j] = row[j]]_row

\* A job in flight never passes from one worker to another directly: the second
\* claim only comes after a reconciliation gave the job back to the queue.
NoStolenClaim ==
  [][\A j \in Job : IsActive(row[j]) /\ IsActive(row'[j])
                      => row'[j].worker = row[j].worker]_row
=============================================================================
