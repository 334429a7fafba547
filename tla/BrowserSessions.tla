--------------------------- MODULE BrowserSessions ---------------------------
(***************************************************************************)
(* The registry of noVNC browser sessions and the queue that cleans up     *)
(* after them (webui/novnc-sessions.js, novnc-access.js, novnc-cleanup.js, *)
(* and the lines of webui/server.js that tie a session to its job).        *)
(*                                                                         *)
(* A session belongs to one recording or sign-in job, and is named by it   *)
(* here.  Registry and cleanup queue live in the server's memory; a        *)
(* restart loses both and reads the configured sessions again.  Removing   *)
(* a target is awaited, so the runs of the cleanup queue interleave; in    *)
(* src only the tests run it, so nothing is assumed of when it is run.     *)
(***************************************************************************)
EXTENDS Integers, FiniteSets

CONSTANTS
  BrowserJob,    (* jobs 1 .. n, in the order their plans are first queued  *)
  ConfiguredJob, (* the jobs whose session comes from the environment       *)
  HardTtl,       (* life of a session                                       *)
  IdleTtl,       (* idle time of a configured session; an allocated one has *)
                 (* none                                                    *)
  Horizon,       (* bound on the clock                                      *)
  Cleaner,       (* concurrent runs of the cleanup queue                    *)
  Targets,       (* cleanup targets of a session, 1 .. Targets              *)
  MaxAttempts,   (* runs of a cleanup by the queue                          *)
  MaxPlans       (* bound on the plans made for a session                   *)

ASSUME BrowserAssumption ==
  /\ BrowserJob \subseteq Nat \ {0} /\ ConfiguredJob \subseteq BrowserJob
  /\ {HardTtl, IdleTtl, Horizon, Targets, MaxAttempts, MaxPlans} \subseteq Nat \ {0}

VARIABLES
  clock,
  job,          (* how far the job of a session is                          *)
  session,      (* the registry; NoSession when it has none                 *)
  cleanup,      (* the cleanup queue; NoCleanup when it has none            *)
  cleaning,     (* what a run of the queue is at                            *)
  removed,      (* history: targets that were removed                       *)
  made,         (* the number of plans made                                 *)
  boots

browserVars == <<clock, job, session, cleanup, cleaning, removed, made, boots>>

NoSession == [state |-> "none"]
NoCleanup == [status |-> "none"]
NoRun     == [job |-> 0]

-----------------------------------------------------------------------------
(* createNoVncSessionRecord; idleAt is 0 when no idle timeout is set.       *)
Opened(idle) ==
  [state |-> "open", idle |-> idle,
   idleAt |-> IF idle = 0 THEN 0 ELSE clock + idle, hardAt |-> clock + HardTtl]

\* terminalPatch: whatever the session was, it is now in the given state, and its
\* teardown is pending; its times are not read again.
Ended(state) == [state |-> state, idle |-> 0, idleAt |-> 0, hardAt |-> 0]

TimedOut(s, t) == (s.idleAt # 0 /\ t >= s.idleAt) \/ t >= s.hardAt

\* What the check of a request sees in time: the session as it stood before it.
SessionAdmits(s, t) == s.state = "open" /\ ~ TimedOut(s, t)

\* touchSession.
Touched(s, t) == [s EXCEPT !.idleAt = IF s.idle = 0 THEN 0 ELSE t + s.idle]

End(j, state) ==
  session' = IF session[j] = NoSession THEN session
             ELSE [session EXCEPT ![j] = Ended(state)]

-----------------------------------------------------------------------------
BrowserInit ==
  /\ clock = 0
  /\ job = [j \in BrowserJob |-> "none"]
  /\ session = [j \in BrowserJob |-> IF j \in ConfiguredJob THEN Opened(IdleTtl) ELSE NoSession]
  /\ cleanup = [j \in BrowserJob |-> NoCleanup]
  /\ cleaning = [c \in Cleaner |-> NoRun]
  /\ removed = [j \in BrowserJob |-> {}]
  /\ made = [j \in BrowserJob |-> 0] /\ boots = 0

ClockTicks ==
  /\ clock < Horizon /\ clock' = clock + 1
  /\ UNCHANGED <<job, session, cleanup, cleaning, removed, made, boots>>

\* enqueueForRequest: the session is allocated in the turn that queues the job.
QueueJob(j) ==
  /\ job[j] = "none" /\ session[j] = NoSession
  /\ job' = [job EXCEPT ![j] = "queued"]
  /\ session' = [session EXCEPT ![j] = Opened(0)]
  /\ UNCHANGED <<clock, cleanup, cleaning, removed, made, boots>>

SpawnJob(j) ==
  /\ job[j] = "queued"
  /\ job' = [job EXCEPT ![j] = "running"]
  /\ UNCHANGED <<clock, session, cleanup, cleaning, removed, made, boots>>

\* A job that is refused before its command is spawned ends without onFinish.
RefuseJob(j) ==
  /\ job[j] = "queued"
  /\ job' = [job EXCEPT ![j] = "refused"]
  /\ UNCHANGED <<clock, session, cleanup, cleaning, removed, made, boots>>

\* settleNoVncSessionForJob, from onFinish.
FinishBrowserJob(j) ==
  /\ \/ job[j] = "canceling" /\ End(j, "canceled")
     \/ job[j] = "running" /\ (End(j, "expired") \/ End(j, "finished"))
  /\ job' = [job EXCEPT ![j] = "over"]
  /\ UNCHANGED <<clock, cleanup, cleaning, removed, made, boots>>

\* The cancel route.  Cancelling a job that is over is acknowledged too.
CancelBrowserJob(j) ==
  /\ job[j] # "none"
  /\ job' = [job EXCEPT ![j] = CASE @ = "queued"  -> "over"
                                 [] @ = "running" -> "canceling"
                                 [] OTHER         -> @]
  /\ End(j, "canceled")
  /\ UNCHANGED <<clock, cleanup, cleaning, removed, made, boots>>

\* Wrong variant: the session is touched before its idle time is checked.
AccessTouchesFirst(j) ==
  /\ session[j].state = "open"
  /\ session' = [session EXCEPT ![j] = Touched(@, clock)]
  /\ UNCHANGED <<clock, job, cleanup, cleaning, removed, made, boots>>

\* authorizeNoVncAccess with the session's own tenant and a role that may act.
AccessSession(j) ==
  /\ session[j] # NoSession /\ SessionAdmits(session[j], clock)
  /\ session' = [session EXCEPT ![j] = Touched(@, clock)]
  /\ UNCHANGED <<clock, job, cleanup, cleaning, removed, made, boots>>

\* The server stops, closing what is open, and starts again.
RestartSessions ==
  /\ boots = 0 /\ boots' = 1
  /\ job' = [j \in BrowserJob |-> "none"]
  /\ session' = [j \in BrowserJob |-> IF j \in ConfiguredJob THEN Opened(IdleTtl) ELSE NoSession]
  /\ cleanup' = [j \in BrowserJob |-> NoCleanup]
  /\ cleaning' = [c \in Cleaner |-> NoRun]
  /\ removed' = [j \in BrowserJob |-> {}]
  /\ made' = [j \in BrowserJob |-> 0]
  /\ UNCHANGED clock

-----------------------------------------------------------------------------
(* enqueue of the cleanup queue: a plan that is not complete is kept, a     *)
(* complete one is replaced.                                                *)
PlanCleanup(j) ==
  /\ session[j].state \in {"canceled", "expired", "finished"}
  /\ cleanup[j].status \in {"none", "complete"}
  /\ made[j] < MaxPlans
  /\ cleanup' = [cleanup EXCEPT ![j] = [status |-> "pending", attempts |-> 0, done |-> {}]]
  /\ removed' = [removed EXCEPT ![j] = {}]
  /\ made' = [made EXCEPT ![j] = @ + 1]
  /\ UNCHANGED <<clock, job, session, cleaning, boots>>

\* pending(): the plans runNext may still take.
Runnable(j) == cleanup[j].status \in {"pending", "failed"}
Pending(j)  == Runnable(j) /\ cleanup[j].attempts < MaxAttempts

NextPlan(j) == Pending(j) /\ \A i \in BrowserJob : Pending(i) => i >= j

\* Wrong variant: the hash of the plan is not compared.
HashFitsAlways(j) == TRUE

\* validateRawPlan.  A run counts itself and its targets in the plan before it awaits the
\* first removal and hashes the plan anew at its end: in between the hash does not fit.
HashFits(j) == \A d \in Cleaner : cleaning[d].job # j

\* runNoVncCleanupPlan up to its first target; it refuses a plan whose hash does not fit.
StartCleaning(c, j) ==
  /\ cleaning[c] = NoRun
  /\ Runnable(j) /\ HashFits(j)
  /\ cleanup' = [cleanup EXCEPT ![j].attempts = IF @ < MaxAttempts THEN @ + 1 ELSE @]
  /\ cleaning' = [cleaning EXCEPT ![c] = [job |-> j, at |-> 1, failed |-> FALSE]]
  /\ UNCHANGED <<clock, job, session, removed, made, boots>>

\* runNext takes the first pending plan, also when that one is being run.
CleanNext(c) == \E j \in BrowserJob : NextPlan(j) /\ StartCleaning(c, j)

\* run(sessionId) asks nothing of the attempts.
CleanNamed(c) == \E j \in BrowserJob : StartCleaning(c, j)

Targeted(c) == cleaning[c] # NoRun /\ cleaning[c].at <= Targets

\* Wrong variant: a target that could not be removed is not tried again.
DoneAfterFailing(done, t) == done \cup {t}

DoneAfter(done, t) == done

Visited(c, failed) ==
  cleaning' = [cleaning EXCEPT ![c].at = @ + 1, ![c].failed = @ \/ failed]

\* One target: skipped when it is done, else removed or not.  Check and removal are one
\* step: no other run has the plan, so nothing changes the target in between.
CleanTargetOf(c) ==
  /\ Targeted(c)
  /\ LET j == cleaning[c].job
         t == cleaning[c].at IN
     \/ t \in cleanup[j].done /\ Visited(c, FALSE) /\ UNCHANGED <<cleanup, removed>>
     \/ /\ t \notin cleanup[j].done
        /\ cleanup' = [cleanup EXCEPT ![j].done = @ \cup {t}]
        /\ removed' = [removed EXCEPT ![j] = @ \cup {t}]
        /\ Visited(c, FALSE)
     \/ /\ t \notin cleanup[j].done
        /\ cleanup' = [cleanup EXCEPT ![j].done = DoneAfter(@, t)]
        /\ Visited(c, TRUE)
        /\ UNCHANGED removed
  /\ UNCHANGED <<clock, job, session, made, boots>>

EndCleaning(c) ==
  /\ cleaning[c] # NoRun /\ ~ Targeted(c)
  /\ cleanup' = [cleanup EXCEPT ![cleaning[c].job].status =
                   IF cleaning[c].failed THEN "failed" ELSE "complete"]
  /\ cleaning' = [cleaning EXCEPT ![c] = NoRun]
  /\ UNCHANGED <<clock, job, session, removed, made, boots>>

-----------------------------------------------------------------------------
CleanStep(c) == CleanTargetOf(c) \/ EndCleaning(c)

BrowserNext ==
  \/ ClockTicks \/ RestartSessions
  \/ \E j \in BrowserJob : \/ QueueJob(j) \/ SpawnJob(j) \/ RefuseJob(j)
                           \/ FinishBrowserJob(j) \/ CancelBrowserJob(j)
                           \/ AccessSession(j) \/ PlanCleanup(j)
  \/ \E c \in Cleaner : CleanNext(c) \/ CleanNamed(c) \/ CleanStep(c)

BrowserSpec == BrowserInit /\ [][BrowserNext]_browserVars

-----------------------------------------------------------------------------
BrowserTypeOK ==
  /\ clock \in 0 .. Horizon /\ boots \in {0, 1}
  /\ \A j \in BrowserJob :
       /\ job[j] \in {"none", "queued", "running", "canceling", "refused", "over"}
       /\ session[j].state \in {"none", "open", "canceled", "expired", "finished"}
       /\ cleanup[j] # NoCleanup => cleanup[j].attempts \in 0 .. MaxAttempts
  /\ \A c \in Cleaner : cleaning[c] = NoRun \/ cleaning[c].at \in 1 .. Targets + 1

\* Once a session is refused as gone, it is never served again while the server
\* runs: no request revives an idle session, and no ending is undone by another.
GoneForGood ==
  [][boots' = boots =>
       \A j \in BrowserJob :
         session[j] # NoSession /\ ~ SessionAdmits(session[j], clock) => ~ SessionAdmits(session'[j], clock')]_browserVars

\* A job that ran, or that was cancelled, leaves no open session behind; and a cleanup
\* is complete only when every target was removed, however often it fails and is run again.
OverLeavesNothing ==
  /\ \A j \in BrowserJob : job[j] \in {"canceling", "over"} => session[j].state # "open"
  /\ \A j \in BrowserJob : cleanup[j].status = "complete" => removed[j] = 1 .. Targets

\* A run that is between two awaits of its removals has its plan to itself: neither another
\* run of the queue nor a new cleanup of the session changes what it works on.
RunHasItsPlan ==
  [][boots' = boots =>
       \A c \in Cleaner : cleaning[c] # NoRun /\ cleaning'[c] = cleaning[c] =>
         cleanup'[cleaning[c].job] = cleanup[cleaning[c].job]]_browserVars
=============================================================================
