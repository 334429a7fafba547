--------------------------- MODULE JobStoreProofs ---------------------------
(***************************************************************************)
(* The contract of the durable job table, proved for every set of jobs and *)
(* workers.  Each operation rewrites rows by an operator on one row; the   *)
(* lemmas say what those operators keep, and the invariance proof has one  *)
(* step per operation.                                                     *)
(***************************************************************************)
EXTENDS JobStore, TLAPS

\* What holds of every row between operations: the properties of the table,
\* and that only active rows hold a lease, which is why no clock tick and no
\* late operation touches a finished row.
RowOK(j, r) ==
  /\ r \in Row
  /\ IsActive(r) => /\ r.worker \in Worker /\ TenantOf[r.worker] = TenantOf[j]
                    /\ r.lease # "none"
                    /\ r.attempts \in 1 .. MaxAttempts[j]
  /\ r.cancelled => r.status \in {"canceling"} \cup TerminalStatus
  /\ ~ IsActive(r) => r.lease = "none"

StoreInv ==
  /\ row \in [Job -> Row]
  /\ \A j \in Job : RowOK(j, row[j])

\* A sound row that is saved into a sound table leaves it sound.
LEMMA RowsFromParts ==
  ASSUME NEW j \in Job, NEW rec, row \in [Job -> Row],
         \A k \in Job : RowOK(k, row[k]), RowOK(j, rec), SaveWebuiJob(j, rec)
  PROVE  StoreInv'
BY DEF StoreInv, SaveWebuiJob, RowOK

\* A job without a row, or with a new one, is in order.
LEMMA NewRowOK == ASSUME NEW j \in Job PROVE RowOK(j, QueuedRow) /\ RowOK(j, NoRow)
BY StoreAssumption
   DEF RowOK, QueuedRow, NoRow, Row, IsActive, JobStatus, ActiveStatus, TerminalStatus, Lease

\* What a claim writes.
LEMMA ClaimedFields ==
  ASSUME NEW r \in Row, NEW w \in Worker, NEW n \in Nat
  PROVE  LET c == [r EXCEPT !.status = "claimed", !.worker = w, !.lease = "live",
                            !.attempts = n]
         IN  /\ c \in Row
             /\ c.status = "claimed" /\ c.worker = w /\ c.lease = "live"
             /\ c.attempts = n /\ c.cancelled = r.cancelled
BY DEF Row, JobStatus, ActiveStatus, Lease

\* A claimed row is owned by the worker that claimed it.
LEMMA ClaimedRowOK ==
  ASSUME NEW j \in Job, NEW w \in Worker, NEW requireResumable \in BOOLEAN,
         RowOK(j, row[j]), Claimable(j, w, requireResumable)
  PROVE  RowOK(j, ClaimedRow(row[j], w))
<1>1. /\ row[j] \in Row /\ row[j].status = "queued" /\ row[j].attempts \in Nat
      /\ row[j].attempts < MaxAttempts[j] /\ MaxAttempts[j] \in Nat
      /\ TenantOf[w] = TenantOf[j]
  BY StoreAssumption DEF RowOK, Claimable, Row
<1>2. row[j].attempts + 1 \in 1 .. MaxAttempts[j] /\ row[j].attempts + 1 \in Nat
  BY <1>1
<1>3. ~ row[j].cancelled
  BY <1>1 DEF RowOK, TerminalStatus
<1>4. ClaimedRow(row[j], w) \in Row
  BY <1>1, <1>2, ClaimedFields DEF ClaimedRow
<1>5. /\ ClaimedRow(row[j], w).status = "claimed" /\ ClaimedRow(row[j], w).worker = w
      /\ ClaimedRow(row[j], w).lease = "live"
      /\ ClaimedRow(row[j], w).attempts = row[j].attempts + 1
      /\ ClaimedRow(row[j], w).cancelled = row[j].cancelled
  BY <1>1 DEF ClaimedRow, Row
<1>6. QED
  BY <1>1, <1>2, <1>3, <1>4, <1>5 DEF RowOK, IsActive, ActiveStatus

\* A heartbeat renews the lease of the row's owner.
LEMMA HeartbeatRowOK ==
  ASSUME NEW j \in Job, NEW r, NEW status \in ActiveStatus,
         RowOK(j, r), IsActive(r)
  PROVE  RowOK(j, HeartbeatRow(r, status))
BY StoreAssumption
   DEF RowOK, HeartbeatRow, Row, IsActive, JobStatus, ActiveStatus, TerminalStatus, Lease

\* A completed row is terminal, and holds no lease.
LEMMA CompletedRowOK ==
  ASSUME NEW j \in Job, NEW r, NEW status \in TerminalStatus, RowOK(j, r)
  PROVE  RowOK(j, CompletedRow(r, status))
BY StoreAssumption
   DEF RowOK, CompletedRow, Row, IsActive, JobStatus, ActiveStatus, TerminalStatus, Lease

\* A cancel ends a queued row, and sets one in flight on its way there.
LEMMA CancelledRowOK ==
  ASSUME NEW j \in Job, NEW r, RowOK(j, r)
  PROVE  RowOK(j, CancelledRow(r))
BY StoreAssumption
   DEF RowOK, CancelledRow, Row, IsActive, JobStatus, ActiveStatus, TerminalStatus, Lease

\* A restart ends an active row, or puts it back without its owner.
LEMMA ReconciledRowOK ==
  ASSUME NEW j \in Job, NEW r, NEW retryStale \in BOOLEAN, RowOK(j, r)
  PROVE  RowOK(j, ReconciledRow(j, r, retryStale))
BY StoreAssumption
   DEF RowOK, ReconciledRow, CanRetry, RequeuedRow, InterruptedRow,
       Row, IsActive, JobStatus, ActiveStatus, TerminalStatus, Lease

\* The clock takes a lease from a row that has one.
LEMMA ExpiredRowOK ==
  ASSUME NEW j \in Job, NEW r, RowOK(j, r), r.lease = "live"
  PROVE  RowOK(j, [r EXCEPT !.lease = "expired"])
BY StoreAssumption DEF RowOK, Row, IsActive, JobStatus, ActiveStatus, TerminalStatus, Lease

\* Every operation on the table keeps every row well formed.
LEMMA StoreInvPreserved == StoreInv /\ [StoreNext]_row => StoreInv'
<1> SUFFICES ASSUME StoreInv, [StoreNext]_row PROVE StoreInv'
  OBVIOUS
<1>0. row \in [Job -> Row] /\ \A j \in Job : RowOK(j, row[j])
  BY DEF StoreInv
<1>1. ASSUME NEW j \in Job, EnqueueNew(j) PROVE StoreInv'
  BY <1>0, <1>1, NewRowOK, RowsFromParts DEF EnqueueNew
<1>2. ASSUME NEW j \in Job, RequestWebuiJobCancel(j) PROVE StoreInv'
  BY <1>0, <1>2, CancelledRowOK, RowsFromParts DEF RequestWebuiJobCancel
<1>3. ASSUME NEW j \in Job, LeaseExpires(j) PROVE StoreInv'
  <2>1. SaveWebuiJob(j, [row[j] EXCEPT !.lease = "expired"])
    BY <1>0, <1>3 DEF LeaseExpires, SaveWebuiJob
  <2>2. RowOK(j, [row[j] EXCEPT !.lease = "expired"])
    BY <1>0, <1>3, ExpiredRowOK DEF LeaseExpires
  <2>3. QED BY <1>0, <2>1, <2>2, RowsFromParts
<1>4. ASSUME NEW j \in Job, NEW w \in Worker, NEW requireResumable \in BOOLEAN,
             ClaimWebuiJob(j, w, requireResumable)
      PROVE  StoreInv'
  BY <1>0, <1>4, ClaimedRowOK, RowsFromParts DEF ClaimWebuiJob
<1>5. ASSUME NEW j \in Job, NEW w \in Worker, NEW status \in ActiveStatus,
             HeartbeatWebuiJob(j, w, status)
      PROVE  StoreInv'
  BY <1>0, <1>5, HeartbeatRowOK, RowsFromParts DEF HeartbeatWebuiJob, Owns
<1>6. ASSUME NEW j \in Job, NEW w \in Worker, NEW status \in TerminalStatus,
             CompleteWebuiJob(j, w, status)
      PROVE  StoreInv'
  BY <1>0, <1>6, CompletedRowOK, RowsFromParts DEF CompleteWebuiJob
<1>7. ASSUME NEW staleOnly \in BOOLEAN, NEW retryStale \in BOOLEAN, NEW quiet \in SUBSET Job,
             ReconcileWebuiJobs(staleOnly, retryStale, quiet)
      PROVE  StoreInv'
  <2>1. \A j \in Job : row'[j] = row[j] \/ row'[j] = ReconciledRow(j, row[j], retryStale)
    BY <1>7 DEF ReconcileWebuiJobs, ReconciledTable
  <2>2. \A j \in Job : RowOK(j, row'[j])
    BY <1>0, <2>1, ReconciledRowOK
  <2>3. row' = [j \in Job |-> row'[j]]
    BY <1>7 DEF ReconcileWebuiJobs, ReconciledTable
  <2>4. \A j \in Job : row'[j] \in Row
    BY <2>2 DEF RowOK
  <2>5. row' \in [Job -> Row]
    BY <2>3, <2>4
  <2>6. QED BY <2>2, <2>5 DEF StoreInv, RowOK, IsActive
<1>8. CASE UNCHANGED row
  BY <1>0, <1>8 DEF StoreInv, RowOK, IsActive
<1>9. QED
  BY <1>1, <1>2, <1>3, <1>4, <1>5, <1>6, <1>7, <1>8 DEF StoreNext

\* The invariant holds in every state of the table.
THEOREM StoreInvariant == StoreSpec => []StoreInv
<1>1. StoreInit => StoreInv
  <2> SUFFICES ASSUME StoreInit PROVE StoreInv OBVIOUS
  <2>1. \A j \in Job : row[j] = NoRow BY DEF StoreInit
  <2>2. \A j \in Job : RowOK(j, row[j]) BY <2>1, NewRowOK
  <2>3. row \in [Job -> Row] BY <2>2 DEF StoreInit, RowOK
  <2>4. QED BY <2>2, <2>3 DEF StoreInv
<1>2. QED BY <1>1, StoreInvPreserved, PTL DEF StoreSpec

\* Rows keep their type: lib/db.js never stores a status, lease or owner outside
\* the ones the queries select on.
THEOREM StoreTypeCorrect == StoreSpec => []StoreTypeOK
<1>1. StoreInv => StoreTypeOK BY DEF StoreInv, StoreTypeOK
<1>2. QED BY <1>1, StoreInvariant, PTL

\* A job in flight always has an owner of its own tenant, a lease, and at most
\* max_attempts attempts.
THEOREM StoreOwnership == StoreSpec => []ActiveRowIsOwned
<1>1. StoreInv => ActiveRowIsOwned BY DEF StoreInv, RowOK, ActiveRowIsOwned
<1>2. QED BY <1>1, StoreInvariant, PTL

\* A recorded cancel survives every later operation on the row.
THEOREM StoreCancelSticks == StoreSpec => []CancelledRowOnlyEnds
<1>1. StoreInv => CancelledRowOnlyEnds BY DEF StoreInv, RowOK, CancelledRowOnlyEnds
<1>2. QED BY <1>1, StoreInvariant, PTL

\* No operation writes a row that reached a terminal status.
THEOREM StoreTerminalFinal == StoreSpec => TerminalRowIsFinal
<1>1. ASSUME StoreInv, [StoreNext]_row, NEW j \in Job, IsTerminal(row[j])
      PROVE  row'[j] = row[j]
  <2> USE <1>1 DEF StoreInv, RowOK, IsTerminal, IsActive, ActiveStatus, TerminalStatus
  <2>1. ASSUME NEW k \in Job, EnqueueNew(k) PROVE row'[j] = row[j]
    BY <2>1 DEF EnqueueNew, SaveWebuiJob, NoRow
  <2>2. ASSUME NEW k \in Job, RequestWebuiJobCancel(k) PROVE row'[j] = row[j]
    BY <2>2 DEF RequestWebuiJobCancel, SaveWebuiJob, CancelledRow
  <2>3. ASSUME NEW k \in Job, LeaseExpires(k) PROVE row'[j] = row[j]
    BY <2>3 DEF LeaseExpires
  <2>4. ASSUME NEW k \in Job, NEW w \in Worker, NEW q \in BOOLEAN, ClaimWebuiJob(k, w, q)
        PROVE  row'[j] = row[j]
    BY <2>4 DEF ClaimWebuiJob, Claimable, SaveWebuiJob
  <2>5. ASSUME NEW k \in Job, NEW w \in Worker, NEW s \in ActiveStatus,
               HeartbeatWebuiJob(k, w, s)
        PROVE  row'[j] = row[j]
    BY <2>5 DEF HeartbeatWebuiJob, Owns, SaveWebuiJob
  <2>6. ASSUME NEW k \in Job, NEW w \in Worker, NEW s \in TerminalStatus,
               CompleteWebuiJob(k, w, s)
        PROVE  row'[j] = row[j]
    BY <2>6 DEF CompleteWebuiJob, Owns, SaveWebuiJob
  <2>7. ASSUME NEW a \in BOOLEAN, NEW b \in BOOLEAN, NEW q \in SUBSET Job,
               ReconcileWebuiJobs(a, b, q)
        PROVE  row'[j] = row[j]
    BY <2>7 DEF ReconcileWebuiJobs, ReconciledTable
  <2>8. CASE UNCHANGED row BY <2>8
  <2>9. QED BY <2>1, <2>2, <2>3, <2>4, <2>5, <2>6, <2>7, <2>8 DEF StoreNext
<1>2. StoreInv /\ [StoreNext]_row => [\A j \in Job : IsTerminal(row[j]) => row'[j] = row[j]]_row
  BY <1>1
<1>3. QED BY <1>2, StoreInvariant, PTL DEF StoreSpec, TerminalRowIsFinal

\* A job never changes hands while it is in flight.
THEOREM StoreNoTheft == StoreSpec => NoStolenClaim
<1>1. ASSUME StoreInv, [StoreNext]_row, NEW j \in Job, IsActive(row[j]), IsActive(row'[j])
      PROVE  row'[j].worker = row[j].worker
  <2> USE <1>1 DEF StoreInv, RowOK, IsActive, ActiveStatus, TerminalStatus
  <2>0. row[j] \in Row OBVIOUS
  <2>1. ASSUME NEW k \in Job, EnqueueNew(k) PROVE row'[j].worker = row[j].worker
    BY <2>1 DEF EnqueueNew, SaveWebuiJob, NoRow
  <2>2. ASSUME NEW k \in Job, RequestWebuiJobCancel(k) PROVE row'[j].worker = row[j].worker
    BY <2>0, <2>2 DEF RequestWebuiJobCancel, SaveWebuiJob, CancelledRow, Row
  <2>3. ASSUME NEW k \in Job, LeaseExpires(k) PROVE row'[j].worker = row[j].worker
    BY <2>0, <2>3 DEF LeaseExpires, Row
  <2>4. ASSUME NEW k \in Job, NEW w \in Worker, NEW q \in BOOLEAN, ClaimWebuiJob(k, w, q)
        PROVE  row'[j].worker = row[j].worker
    BY <2>4 DEF ClaimWebuiJob, Claimable, SaveWebuiJob
  <2>5. ASSUME NEW k \in Job, NEW w \in Worker, NEW s \in ActiveStatus,
               HeartbeatWebuiJob(k, w, s)
        PROVE  row'[j].worker = row[j].worker
    BY <2>0, <2>5 DEF HeartbeatWebuiJob, HeartbeatRow, SaveWebuiJob, Row
  <2>6. ASSUME NEW k \in Job, NEW w \in Worker, NEW s \in TerminalStatus,
               CompleteWebuiJob(k, w, s)
        PROVE  row'[j].worker = row[j].worker
    BY <2>0, <2>6 DEF CompleteWebuiJob, CompletedRow, SaveWebuiJob, Row
  <2>7. ASSUME NEW a \in BOOLEAN, NEW b \in BOOLEAN, NEW q \in SUBSET Job,
               ReconcileWebuiJobs(a, b, q)
        PROVE  row'[j].worker = row[j].worker
    <3>1. row'[j] = row[j] \/ row'[j] = InterruptedRow(row[j]) \/ row'[j] = RequeuedRow(row[j])
      BY <2>7 DEF ReconcileWebuiJobs, ReconciledTable, ReconciledRow
    <3>2. QED BY <2>0, <3>1 DEF InterruptedRow, RequeuedRow, Row
  <2>8. CASE UNCHANGED row BY <2>8
  <2>9. QED BY <2>1, <2>2, <2>3, <2>4, <2>5, <2>6, <2>7, <2>8 DEF StoreNext
<1>2. StoreInv /\ [StoreNext]_row =>
        [\A j \in Job : IsActive(row[j]) /\ IsActive(row'[j])
                          => row'[j].worker = row[j].worker]_row
  BY <1>1
<1>3. QED BY <1>2, StoreInvariant, PTL DEF StoreSpec, NoStolenClaim
=============================================================================
