------------------------------ MODULE JobSystem ------------------------------
(***************************************************************************)
(* The whole job system: the server's own queue (LocalQueue) and the       *)
(* outbound workers on the runner API (RunnerFleet) share one job table.   *)
(* A job on the server's promise chain is also open to any worker's pull.  *)
(*                                                                         *)
(* While the server is down a worker's requests fail, which RunnerFleet    *)
(* allows at any time, so a restart is one step.                           *)
(***************************************************************************)
EXTENDS RunnerFleet, LocalQueue

ASSUME SystemAssumption == Local \notin Runner

systemVars == <<row, wk, queueVars>>

-----------------------------------------------------------------------------
RunnerSpawns(w, j) == wk[w].child = "none" /\ wk'[w].child = "alive" /\ wk[w].job = j

\* The child exits with 0 while its worker owns the row: after a readback that failed
\* the id may by then name another job.
RunnerSucceeds(w, j) ==
  ChildRuns(w) /\ wk'[w].child = "ok" /\ wk[w].job = j /\ Owns(w, row[j])

\* A worker's step; the histories follow what its child does.
RunnerStep(w) ==
  /\ WorkerStep(w)
  /\ ran'   = ran \cup {j \in Job : RunnerSpawns(w, j)}
  /\ green' = green \cup {j \in Job : RunnerSucceeds(w, j)}
  /\ UNCHANGED <<strict, seq, mem, chain, cur, child, overran, acked>>

ServerStep == QueueStep /\ UNCHANGED wk

\* Only a worker's lease is ever compared with the clock.
RunnerLeaseRunsOut ==
  /\ \E j \in Job : row[j].worker \in Runner /\ LeaseExpires(j)
  /\ UNCHANGED <<wk, queueVars>>

SystemInit == FleetInit /\ LocalInit
SystemNext == (\E w \in Runner : RunnerStep(w)) \/ ServerStep \/ RunnerLeaseRunsOut

SystemSpec == SystemInit /\ [][SystemNext]_systemVars /\ FleetFairness

-----------------------------------------------------------------------------
\* A job is spawned at most once, by the server or by a worker, whichever claims
\* it first, through restarts, lost requests and cancels.
SpawnedByOne ==
  [][\A j \in Job :
       (cur # j /\ cur' = j) \/ (\E w \in Runner : RunnerSpawns(w, j)) => j \notin ran]_systemVars

\* In strict mode the server never runs a job that a worker's child is running.
NoDoubleRun ==
  strict => \A w \in Runner : ChildRuns(w) => wk[w].job # cur

\* In every state the server's memory has its types and agrees with the rows, no
\* cancelled job waits in the chain, a child of the server holds its row, and no
\* worker runs the same job.
SystemIsSound ==
  /\ QueueTypeOK /\ QueuedIsNotCancelled
  /\ MemoryAgrees
  /\ LocalRunHoldsRow /\ NoDoubleRun

\* OPERATOR-HANDOFF-PACK.md: a worker's job is completed with succeeded, failed
\* or canceled and its terminal state is not ambiguous.  In strict mode the
\* outcome a worker reported stays in the row.
WorkerOutcomeStays ==
  [][strict => \A j \in Job :
       IsTerminal(row[j]) /\ row[j].worker \in Runner => row'[j].status = row[j].status]_row
=============================================================================
