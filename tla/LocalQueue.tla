------------------------------ MODULE LocalQueue ------------------------------
(***************************************************************************)
(* The single-slot job queue of the WebUI server (webui/jobs.js) over the  *)
(* durable job table of JobStore.                                          *)
(*                                                                         *)
(* The server keeps a record of each job in memory and writes it whole     *)
(* over the stored row (persistJob); it runs at most one job's command at  *)
(* a time, in the order of the promise chain.  One callback of the event   *)
(* loop (an HTTP request, a timer, a child's close with the continuation   *)
(* of runJob) is one step.                                                 *)
(*                                                                         *)
(* In strict mode (external or service mode) an audit append that fails    *)
(* refuses the operation; otherwise it is only written to a journal.       *)
(***************************************************************************)
EXTENDS JobStore, FiniteSets, FiniteSetsExt

CONSTANTS
  Local,    (* the server's own runner identity, a member of Worker         *)
  Idle      (* no job is running                                            *)

ASSUME QueueAssumption == Local \in Worker /\ Idle \notin Job /\ 0 \notin Job

VARIABLES
  strict,   (* strictDurableJobsRequired(), fixed by the environment        *)
  seq,      (* the number of the last job id handed out                     *)
  mem,      (* the in-memory job records; NoRow when there is none          *)
  chain,    (* the queued jobs on the promise chain, in the order of ids    *)
  cur,      (* runningId                                                    *)
  child,    (* the child process of cur                                     *)
  overran,  (* history: the jobs whose watchdog fired                       *)
  acked,    (* history: the jobs whose cancel was acknowledged              *)
  ran,      (* history: the jobs whose command was spawned                  *)
  green     (* history: the jobs whose command exited with 0                *)

queueVars == <<strict, seq, mem, chain, cur, child, overran, acked, ran, green>>
localVars == <<row, queueVars>>

-----------------------------------------------------------------------------
(* persistJob: the record in memory becomes the stored row.                 *)
Persist(j, rec) == mem' = [mem EXCEPT ![j] = rec] /\ SaveWebuiJob(j, rec)

InState(rec, status) == [rec EXCEPT !.status = status]

\* An audit append can only refuse an operation in strict mode.
Refusals == IF strict THEN BOOLEAN ELSE {FALSE}

KillTree == IF child = "alive" THEN "dying" ELSE child

-----------------------------------------------------------------------------
\* enqueue.  A refused job stays out of the memory and of the chain.
Enqueue ==
  /\ seq + 1 \in Job
  /\ LET j == seq + 1 IN
     /\ seq' = j
     /\ \E refused \in Refusals :
          IF refused
          THEN /\ SaveWebuiJob(j, InState(QueuedRow, "interrupted"))
               /\ UNCHANGED <<mem, chain>>
          ELSE Persist(j, QueuedRow) /\ chain' = chain \cup {j}
     /\ overran' = overran \ {j} /\ acked' = acked \ {j}
     /\ ran' = ran \ {j} /\ green' = green \ {j}
  /\ UNCHANGED <<strict, cur, child>>

StartsClaimed(j) == Claimable(j, Local, FALSE)

\* runJob up to the spawn, for the first job of the chain.
StartJob ==
  /\ cur = Idle /\ chain # {}
  /\ LET j       == Min(chain)
         claimed == ClaimedRow(row[j], Local)
     IN
     /\ chain' = chain \ {j}
     /\ \/ /\ IsTerminal(mem[j])                       \* cancelled while queued
           /\ UNCHANGED <<row, mem, cur, child, ran>>
        \/ /\ ~ IsTerminal(mem[j]) /\ ~ StartsClaimed(j)   \* durable claim refused
           /\ IF row[j].status = "canceled"
              THEN mem' = [mem EXCEPT ![j] = row[j]] /\ UNCHANGED row
              ELSE Persist(j, InState(mem[j], "interrupted"))
           /\ UNCHANGED <<cur, child, ran>>
        \/ /\ ~ IsTerminal(mem[j]) /\ StartsClaimed(j)
           /\ \/ /\ TRUE \in Refusals                  \* claim or start audit refused
                 /\ Persist(j, InState(claimed, "interrupted"))
                 /\ UNCHANGED <<cur, child, ran>>
              \/ /\ Persist(j, InState(claimed, "failed"))     \* spawnFn throws
                 /\ UNCHANGED <<cur, child, ran>>
              \/ /\ Persist(j, HeartbeatRow(claimed, "running"))
                 /\ cur' = j /\ child' = "alive" /\ ran' = ran \cup {j}
  /\ UNCHANGED <<strict, seq, overran, acked, green>>

\* heartbeatDurableJob: the row is renewed and then copied over the record in
\* memory; a cancel found in the row kills the child.
Heartbeat ==
  /\ cur # Idle /\ Owns(Local, row[cur])
  /\ LET beat == HeartbeatRow(row[cur], "running") IN
     /\ Persist(cur, beat)
     /\ child' = IF CancelRequested(beat) /\ ~ mem[cur].cancelled THEN KillTree ELSE child
  /\ UNCHANGED <<strict, seq, chain, cur, overran, acked, ran, green>>

\* A structured result or a run id on the child's output persists the record.
ResultLine ==
  /\ cur # Idle
  /\ Persist(cur, mem[cur])
  /\ UNCHANGED <<strict, seq, chain, cur, child, overran, acked, ran, green>>

\* The watchdog timer of the running job fires, once.
Watchdog ==
  /\ cur # Idle /\ cur \notin overran
  /\ mem' = [mem EXCEPT ![cur].timedOut = TRUE]
  /\ overran' = overran \cup {cur}
  /\ child' = KillTree
  /\ UNCHANGED <<row, strict, seq, chain, cur, acked, ran, green>>

FinishedStatus(rec, code) ==
  IF rec.cancelled THEN "canceled"
  ELSE IF rec.timedOut THEN "expired"
  ELSE IF code = "ok" THEN "succeeded" ELSE "failed"

\* Wrong variant: the chain is not released.
FinishKeepingSlot(j, code) ==
  /\ \/ Persist(j, InState(mem[j], FinishedStatus(mem[j], code)))
     \/ TRUE \in Refusals /\ Persist(j, InState(mem[j], "interrupted"))
  /\ child' = "none"
  /\ UNCHANGED <<strict, seq, chain, cur, overran, acked, ran>>

\* runJob after the await: the outcome is persisted, and replaced by
\* "interrupted" when its audit is refused.
Finish(j, code) ==
  /\ \/ Persist(j, InState(mem[j], FinishedStatus(mem[j], code)))
     \/ TRUE \in Refusals /\ Persist(j, InState(mem[j], "interrupted"))
  /\ cur' = Idle /\ child' = "none"
  /\ UNCHANGED <<strict, seq, chain, overran, acked, ran>>

\* The child closes; one that was killed may still have exited by itself.
ChildCloses ==
  /\ cur # Idle
  /\ \E code \in {"ok", "bad"} :
       /\ Finish(cur, code)
       /\ green' = IF code = "ok" THEN green \cup {cur} ELSE green

KillGraceCode == "bad"

\* The kill grace timer: the slot is freed though no close was heard.
KillGraceEnds ==
  /\ cur \in overran
  /\ Finish(cur, KillGraceCode)
  /\ UNCHANGED green

\* Wrong variant: a job that is over may be cancelled.
CancelableWhenOver(j) == mem[j] # NoRow /\ ~ mem[j].cancelled

\* A known job that is over, or cancelled already, is left alone.
Cancelable(j) == mem[j] # NoRow /\ ~ IsTerminal(mem[j]) /\ ~ mem[j].cancelled

\* The request changes the row, then its audit is refused: the caller gets an
\* error and the memory is as it was.
CancelUnaudited(j) ==
  /\ TRUE \in Refusals
  /\ ~ IsTerminal(row[j]) /\ ~ CancelRequested(row[j])
  /\ RequestWebuiJobCancel(j)
  /\ UNCHANGED <<mem, child, acked>>

\* A job that is not in memory is canceled in the table only.
CancelStored(j) ==
  /\ RequestWebuiJobCancel(j)
  /\ acked' = IF IsTerminal(row[j]) THEN acked ELSE acked \cup {j}
  /\ UNCHANGED <<mem, child>>

\* A queued job ends at once, a running one when its killed child closes.  The
\* record is saved whole over what the request just wrote.
CancelKnown(j) ==
  /\ row[j] # NoRow
  /\ Persist(j, [mem[j] EXCEPT !.cancelled = TRUE,
                               !.status = IF @ = "queued" THEN "canceled" ELSE "canceling"])
  /\ acked' = acked \cup {j}
  /\ child' = IF cur = j THEN KillTree ELSE child

Cancel ==
  /\ \E j \in Job : \/ mem[j] = NoRow /\ (CancelStored(j) \/ CancelUnaudited(j))
                    \/ Cancelable(j) /\ (CancelKnown(j) \/ CancelUnaudited(j))
  /\ UNCHANGED <<strict, seq, chain, cur, overran, ran, green>>

\* The server stops, by a signal (killRunning records the running job first) or
\* by a crash, and starts again: hydrateDurableJobs interrupts what was active
\* and loads the table.  An audit append that fails while it does leaves a
\* non-strict server with an empty memory; a strict one exits and is started
\* again, with nothing left to interrupt.
Restart ==
  \E graceful \in BOOLEAN :
    LET saved  == IF graceful /\ cur # Idle
                  THEN [row EXCEPT ![cur] = InState(mem[cur], "interrupted")] ELSE row
        stored == [j \in Job |-> IF IsActive(saved[j])
                                 THEN ReconciledRow(j, saved[j], FALSE) ELSE saved[j]]
        known  == {j \in Job : stored[j] # NoRow}
    IN
    /\ row' = stored
    /\ \/ /\ mem' = stored /\ seq' = Max(known \cup {0})
          /\ chain' = {j \in known \cap Resumable : stored[j].status = "queued"}
       \/ /\ ~ strict /\ \E j \in Job : IsActive(saved[j])
          /\ mem' = [j \in Job |-> NoRow] /\ seq' = 0 /\ chain' = {}
    /\ cur' = Idle /\ child' = "none"
    /\ UNCHANGED <<strict, overran, acked, ran, green>>

-----------------------------------------------------------------------------
LocalInit ==
  /\ StoreInit
  /\ strict \in BOOLEAN /\ seq = 0
  /\ mem = [j \in Job |-> NoRow] /\ chain = {}
  /\ cur = Idle /\ child = "none"
  /\ overran = {} /\ acked = {} /\ ran = {} /\ green = {}

QueueStep == \/ Enqueue \/ StartJob \/ Heartbeat \/ ResultLine \/ Watchdog
             \/ ChildCloses \/ KillGraceEnds \/ Cancel \/ Restart

\* Timers fire and the promise chain moves on; no child has to exit.
QueueFairness ==
  WF_localVars(StartJob) /\ WF_localVars(Watchdog) /\ WF_localVars(KillGraceEnds)

LocalSpec == LocalInit /\ [][QueueStep]_localVars /\ QueueFairness

-----------------------------------------------------------------------------
\* Type invariant of the server's memory.
QueueTypeOK ==
  /\ strict \in BOOLEAN /\ seq \in Nat
  /\ mem \in [Job -> Row] /\ chain \subseteq Job
  /\ cur \in Job \cup {Idle} /\ child \in {"none", "alive", "dying"}
  /\ overran \cup acked \cup ran \cup green \subseteq Job

\* A child runs exactly while its job's row is in flight in the server's own
\* name, so no other runner can claim the job under it.
LocalRunHoldsRow ==
  /\ cur = Idle <=> child = "none"
  /\ cur # Idle => Owns(Local, row[cur])

\* A cancel the user was told of is never lost: the row keeps it, and ends as
\* canceled, or interrupted by a restart, even when the record in memory, which
\* is saved over the row, was older than the request.
AckedCancelSticks ==
  \A j \in acked : /\ row[j].cancelled
                    /\ row[j].status \in {"canceling", "canceled", "interrupted"}

\* No job is recorded as succeeded unless its command exited with 0: restarts,
\* timeouts and refused audits never turn unknown work green.
NoSilentGreen ==
  \A j \in Job : row[j].status = "succeeded" => j \in green

\* Once a job is over in memory, where the UI reads it, the durable row says the
\* same.
MemoryAgrees ==
  \A j \in Job : IsTerminal(mem[j]) => row[j].status = mem[j].status

\* A job waiting in the chain never carries a cancel: runJob's branch for one is
\* never taken (StartJob leaves it out), because cancel ends a queued job at once.
QueuedIsNotCancelled ==
  \A j \in chain : mem[j].cancelled => IsTerminal(mem[j])

\* In strict mode a row that reached a terminal status is never rewritten, though
\* every save of a record in memory is unconditional.
StrictTerminalIsFinal ==
  [][strict => \A j \in Job : IsTerminal(row[j]) => row'[j] = row[j]]_row

\* The single slot is never wedged: every job on the chain gets its turn, even
\* when the running child ignores its kill, because the watchdog's grace timer
\* frees the slot.
QueueAdvances == \A j \in Job : j \in chain ~> j \notin chain

\* tests/jobs-result-unit.test.sh: a timeout marks the job failed with timedOut
\* set.  (A job cancelled or interrupted meanwhile says that instead.)
TimeoutIsReported ==
  \A j \in overran : IsTerminal(mem[j]) =>
     mem[j].timedOut \/ mem[j].status \in {"canceled", "interrupted"}
=============================================================================
