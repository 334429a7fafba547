-------------------------- MODULE CommandPlanProofs --------------------------
(***************************************************************************)
(* The rehearsal gates of a command plan, proved for any documents,        *)
(* versions, recipes and length of the queue.                              *)
(*                                                                         *)
(* The argument: a dry-run record marked "passed" names a set a dry-run    *)
(* job passed on (the record takes the job's own binding), and Confirm     *)
(* asks for such a record of the current set.  A read or live job is the   *)
(* last of the queue, because the state it leaves the plan in refuses      *)
(* every further run; so when it has finished, the queue is empty and      *)
(* nothing is left to rewrite the outcome.                                 *)
(***************************************************************************)
EXTENDS CommandPlan, SequenceTheorems, TLAPS

\* What the plan's state says of each job on the queue.
JobOK(j) ==
  /\ j.stage = "read" => plan.action = "enrich" /\ plan.status = "queued"
  /\ j.stage # "read" => plan.action = "approve"
  /\ j.stage = "live" => plan.confirmed

\* Only dry runs have a job behind them.
QueueOK ==
  \A i \in 1 .. Len(jobs) :
    /\ JobOK(jobs[i])
    /\ jobs[i].stage # "dry-run" => i = Len(jobs)

SettledIsIdle == plan.status \in Settled => jobs = <<>>

LiveIsConfirmed == Len(live) = IF plan.confirmed THEN 1 ELSE 0

\* A dry-run record marked "passed" is the record of a job that passed.
Rehearsed(p) ==
  p.dry.status = "passed" => p.action = "approve" /\ p.dry.targets \in rehearsed

PassedWasRehearsed == Rehearsed(plan)

PlanInv ==
  /\ PlanTypeOK
  /\ QueueOK
  /\ SettledIsIdle
  /\ LiveIsConfirmed
  /\ PassedWasRehearsed
  /\ LiveWasRehearsed

\* A job that leaves the queue leaves the others as they were.
LEMMA RemoveAtSeq ==
  ASSUME NEW S, NEW s \in Seq(S), NEW i \in 1 .. Len(s)
  PROVE  /\ RemoveAt(s, i) \in Seq(S)
         /\ Len(RemoveAt(s, i)) = Len(s) - 1
         /\ \A k \in 1 .. Len(s) - 1 :
              RemoveAt(s, i)[k] = IF k < i THEN s[k] ELSE s[k + 1]
<1> DEFINE a == SubSeq(s, 1, i - 1)
           b == SubSeq(s, i + 1, Len(s))
<1>0. Len(s) \in Nat /\ i \in 1 .. Len(s) /\ i - 1 \in Int /\ i + 1 \in Int
  OBVIOUS
<1>1. \A k \in 1 .. Len(s) : s[k] \in S
  OBVIOUS
<1>2. /\ a \in Seq(S) /\ Len(a) = i - 1
      /\ \A k \in 1 .. i - 1 : a[k] = s[k]
  <2>1. /\ a \in Seq(S)
        /\ Len(a) = IF 1 <= i - 1 THEN i - 1 - 1 + 1 ELSE 0
        /\ \A k \in 1 .. i - 1 - 1 + 1 : a[k] = s[1 + k - 1]
    BY <1>0, <1>1, SubSeqProperties
  <2>2. QED
    BY <1>0, <2>1
<1>3. /\ b \in Seq(S) /\ Len(b) = Len(s) - i
      /\ \A k \in 1 .. Len(s) - i : b[k] = s[i + k]
  <2>1. /\ b \in Seq(S)
        /\ Len(b) = IF i + 1 <= Len(s) THEN Len(s) - (i + 1) + 1 ELSE 0
        /\ \A k \in 1 .. Len(s) - (i + 1) + 1 : b[k] = s[i + 1 + k - 1]
    BY <1>0, <1>1, SubSeqProperties
  <2>2. QED
    BY <1>0, <2>1
<1>4. /\ a \o b \in Seq(S)
      /\ Len(a \o b) = Len(a) + Len(b)
      /\ \A k \in 1 .. Len(a) + Len(b) :
           (a \o b)[k] = IF k <= Len(a) THEN a[k] ELSE b[k - Len(a)]
  BY <1>2, <1>3, ConcatProperties
<1>5. RemoveAt(s, i) = a \o b
  BY DEF RemoveAt
<1> HIDE DEF a, b
<1>6. ASSUME NEW k \in 1 .. Len(s) - 1
      PROVE  (a \o b)[k] = IF k < i THEN s[k] ELSE s[k + 1]
  <2>1. CASE k < i
    <3>1. k \in 1 .. i - 1 /\ k <= Len(a) /\ k \in 1 .. Len(a) + Len(b)
      BY <1>0, <1>2, <1>3, <2>1
    <3>2. QED
      BY <1>2, <1>4, <2>1, <3>1
  <2>2. CASE ~ (k < i)
    <3>1. /\ k - (i - 1) \in 1 .. Len(s) - i /\ ~ (k <= Len(a))
          /\ k \in 1 .. Len(a) + Len(b) /\ i + (k - (i - 1)) = k + 1
      BY <1>0, <1>2, <1>3, <2>2
    <3>2. b[k - (i - 1)] = s[k + 1]
      BY <1>3, <3>1
    <3>3. QED
      BY <1>2, <1>4, <2>2, <3>1, <3>2
  <2>3. QED
    BY <2>1, <2>2
<1>7. a \o b \in Seq(S) /\ Len(a \o b) = Len(s) - 1
  BY <1>0, <1>2, <1>3, <1>4
<1>8. \A k \in 1 .. Len(s) - 1 : (a \o b)[k] = IF k < i THEN s[k] ELSE s[k + 1]
  BY <1>6
<1>9. QED
  BY <1>5, <1>7, <1>8

\* Taking a job off the queue keeps the order of the others.
LEMMA RemoveAtKeepsQueue ==
  ASSUME NEW i \in 1 .. Len(jobs), jobs \in Seq(PlanJob), QueueOK
  PROVE  LET rest == RemoveAt(jobs, i) IN
         /\ rest \in Seq(PlanJob)
         /\ \A k \in 1 .. Len(rest) :
              /\ JobOK(rest[k])
              /\ rest[k].stage # "dry-run" => k = Len(rest)
<1> DEFINE rest == RemoveAt(jobs, i)
<1>1. /\ rest \in Seq(PlanJob) /\ Len(rest) = Len(jobs) - 1
      /\ \A k \in 1 .. Len(jobs) - 1 :
           rest[k] = IF k < i THEN jobs[k] ELSE jobs[k + 1]
  BY RemoveAtSeq
<1>2. Len(jobs) \in Nat /\ i \in 1 .. Len(jobs)
  OBVIOUS
<1> HIDE DEF rest
<1>3. ASSUME NEW k \in 1 .. Len(rest)
      PROVE  JobOK(rest[k]) /\ (rest[k].stage # "dry-run" => k = Len(rest))
  <2>1. CASE k < i
    <3>1. rest[k] = jobs[k] /\ k \in 1 .. Len(jobs) /\ k # Len(jobs)
      BY <1>1, <1>2, <2>1
    <3>2. QED
      BY <3>1 DEF QueueOK
  <2>2. CASE ~ (k < i)
    <3>1. rest[k] = jobs[k + 1] /\ k + 1 \in 1 .. Len(jobs)
      BY <1>1, <1>2, <2>2
    <3>2. JobOK(jobs[k + 1]) /\ (jobs[k + 1].stage # "dry-run" => k + 1 = Len(jobs))
      BY <3>1 DEF QueueOK
    <3>3. QED
      BY <1>1, <1>2, <3>1, <3>2
  <2>3. QED
    BY <2>1, <2>2
<1>4. QED
  BY <1>1, <1>3 DEF rest

\* A review keeps the action of a plan, and its status or takes it back.
LEMMA ReviewedRow ==
  ASSUME NEW keys \in SUBSET Key, Buildable(keys), plan \in PlanRow,
         records \in Version \cup {NoTitle}, CanEditTargets(plan), PassedWasRehearsed
  PROVE  LET p == Reviewed(plan, keys) IN
         /\ p \in PlanRow
         /\ p.action = plan.action
         /\ CanEditTargets(p)
         /\ p.status \notin Settled /\ p.status # "queued"
         /\ Rehearsed(p)
<1>1. BuiltTargets(keys) \in Reviewable
  BY DEF Buildable, BuiltTargets, Reviewable, TargetSet
<1>2. NoDry \in DryRow /\ NoDry.status = "none"
  BY DEF NoDry, Dry, DryRow, Reviewable
<1>3. CASE plan.targets \in {NoTargets, BuiltTargets(keys)}
  <2>1. Reviewed(plan, keys) = [plan EXCEPT !.targets = BuiltTargets(keys)]
    BY <1>3 DEF Reviewed
  <2>2. QED
    BY <1>1, <2>1 DEF PlanRow, CanEditTargets, Settled, PassedWasRehearsed, Rehearsed
<1>4. CASE plan.targets \notin {NoTargets, BuiltTargets(keys)}
  <2>1. Reviewed(plan, keys) =
          [plan EXCEPT !.targets = BuiltTargets(keys), !.status = "planned",
                       !.dry = NoDry, !.confirmed = FALSE]
    BY <1>4 DEF Reviewed
  <2>2. QED
    BY <1>1, <1>2, <2>1 DEF PlanRow, PlanStatus, CanEditTargets, Settled, Rehearsed
<1>5. QED
  BY <1>3, <1>4

\* A queue with a job more.
LEMMA EnqueuedQueue ==
  ASSUME NEW stage \in {"dry-run", "read", "live"}, NEW p,
         p.targets \in Reviewable, jobs \in Seq(PlanJob)
  PROVE  LET more == Enqueued(stage, p) IN
         /\ more \in Seq(PlanJob)
         /\ Len(more) = Len(jobs) + 1
         /\ \A k \in 1 .. Len(jobs) : more[k] = jobs[k]
         /\ more[Len(more)].stage = stage
<1>1. [stage |-> stage, targets |-> p.targets] \in PlanJob
  BY DEF PlanJob
<1>2. QED
  BY <1>1, AppendProperties DEF Enqueued

\* Initially there is no plan, and no job.
LEMMA PlanInitInv == PlanInit => PlanInv
<1> SUFFICES ASSUME PlanInit PROVE PlanInv
  OBVIOUS
<1>1. NoPlan \in PlanRow /\ NoPlan.status = "none" /\ ~ NoPlan.confirmed
      /\ NoPlan.dry.status = "none"
  BY DEF NoPlan, NoDry, Dry, PlanRow, PlanStatus, Action, DryRow, Reviewable
<1>2. jobs = <<>> /\ live = <<>> /\ Len(live) = 0 /\ Len(jobs) = 0
      /\ jobs \in Seq(PlanJob) /\ live \in Seq(Reviewable)
  BY DEF PlanInit
<1>3. PlanTypeOK
  BY <1>1, <1>2 DEF PlanInit, PlanTypeOK
<1>4. QueueOK /\ SettledIsIdle /\ LiveWasRehearsed
  BY <1>2 DEF QueueOK, SettledIsIdle, LiveWasRehearsed
<1>5. LiveIsConfirmed /\ PassedWasRehearsed
  BY <1>1, <1>2 DEF PlanInit, LiveIsConfirmed, PassedWasRehearsed, Rehearsed
<1>6. QED
  BY <1>3, <1>4, <1>5 DEF PlanInv

\* A step that writes only the plan row keeps the invariant when the row it
\* writes agrees with the queue, the history of live runs and the rehearsals.
LEMMA PlanRowWritten ==
  ASSUME PlanInv, NEW p \in PlanRow, plan' = p, p.action = plan.action,
         p.confirmed = plan.confirmed, UNCHANGED <<records, recipe, jobs, rehearsed, live, lost>>,
         \A i \in 1 .. Len(jobs) : jobs[i].stage # "read",
         p.status \notin Settled \/ jobs = <<>>,
         Rehearsed(p)
  PROVE  PlanInv'
<1>1. PlanTypeOK'
  BY DEF PlanInv, PlanTypeOK
<1>2. QueueOK'
  BY DEF PlanInv, QueueOK, JobOK
<1>3. SettledIsIdle' /\ LiveIsConfirmed' /\ PassedWasRehearsed' /\ LiveWasRehearsed'
  BY DEF PlanInv, SettledIsIdle, LiveIsConfirmed, PassedWasRehearsed, Rehearsed,
         LiveWasRehearsed
<1>4. QED
  BY <1>1, <1>2, <1>3 DEF PlanInv

\* While the plan can be edited there is no read or live job on the queue.
LEMMA EditableQueue ==
  ASSUME PlanInv, CanEditTargets(plan)
  PROVE  \A i \in 1 .. Len(jobs) :
           jobs[i].stage = "dry-run" /\ plan.action = "approve"
<1> SUFFICES ASSUME NEW i \in 1 .. Len(jobs)
             PROVE  jobs[i].stage = "dry-run" /\ plan.action = "approve"
  OBVIOUS
<1>1. jobs \in Seq(PlanJob) /\ QueueOK
  BY DEF PlanInv, PlanTypeOK
<1>2. jobs[i] \in PlanJob
  BY <1>1
<1>3. jobs[i].stage \in {"dry-run", "read", "live"}
  BY <1>2 DEF PlanJob
<1>4. JobOK(jobs[i])
  BY <1>1 DEF QueueOK
<1>5. QED
  BY <1>3, <1>4 DEF JobOK, CanEditTargets

\* A step that queues a job and writes the plan row, but is no confirmation.
LEMMA JobQueued ==
  ASSUME PlanInv, NEW stage \in {"dry-run", "read"}, NEW w \in PlanRow,
         NEW p \in PlanRow,
         jobs' = Enqueued(stage, w), plan' = p, p.confirmed = plan.confirmed,
         \A i \in 1 .. Len(jobs) : jobs[i].stage = "dry-run" /\ p.action = "approve",
         stage = "read" => p.action = "enrich" /\ p.status = "queued",
         stage = "dry-run" => p.action = "approve",
         p.status \notin Settled,
         Rehearsed(p),
         UNCHANGED <<records, recipe, rehearsed, live, lost>>
  PROVE  PlanInv'
<1>1. /\ jobs' \in Seq(PlanJob) /\ Len(jobs') = Len(jobs) + 1
      /\ \A k \in 1 .. Len(jobs) : jobs'[k] = jobs[k]
      /\ jobs'[Len(jobs')].stage = stage
  BY EnqueuedQueue DEF PlanInv, PlanTypeOK, PlanRow
<1>2. Len(jobs) \in Nat
  BY DEF PlanInv, PlanTypeOK
<1>3. QueueOK'
  <2> SUFFICES ASSUME NEW k \in 1 .. Len(jobs')
               PROVE  JobOK(jobs[k])' /\ (jobs'[k].stage # "dry-run" => k = Len(jobs'))
    BY DEF QueueOK
  <2>1. CASE k \in 1 .. Len(jobs)
    BY <1>1, <2>1 DEF JobOK
  <2>2. CASE k = Len(jobs')
    BY <1>1, <2>2 DEF JobOK
  <2>3. QED
    BY <1>1, <1>2, <2>1, <2>2
<1>4. PlanTypeOK'
  BY <1>1 DEF PlanInv, PlanTypeOK
<1>5. SettledIsIdle' /\ LiveIsConfirmed' /\ PassedWasRehearsed' /\ LiveWasRehearsed'
  BY DEF PlanInv, SettledIsIdle, LiveIsConfirmed, PassedWasRehearsed, Rehearsed,
         LiveWasRehearsed
<1>6. QED
  BY <1>3, <1>4, <1>5 DEF PlanInv

\* A new plan has no job behind it.
LEMMA CreateKeeps == PlanInv /\ Create => PlanInv'
<1> SUFFICES ASSUME PlanInv, Create PROVE PlanInv'
  OBVIOUS
<1>1. plan = NoPlan /\ jobs \in Seq(PlanJob) /\ recipe \in Recipe \cup {NoRecipe}
  BY DEF Create, PlanInv, PlanTypeOK
<1>2. jobs = <<>>
  <2>1. plan.action = "query"
    BY <1>1 DEF NoPlan
  <2>2. ASSUME 1 \in 1 .. Len(jobs) PROVE FALSE
    BY <2>1, <2>2 DEF PlanInv, QueueOK, JobOK
  <2>3. QED
    BY <1>1, <2>2
<1>3. PICK action \in Action :
        plan' = [NoPlan EXCEPT
          !.action = action,
          !.recipe = IF action = "approve" THEN recipe ELSE NoRecipe,
          !.status = IF action = "approve" /\ recipe = NoRecipe
                     THEN "refused" ELSE "planned"]
  BY DEF Create
<1>4. /\ plan' \in PlanRow /\ plan'.status \notin Settled
      /\ plan'.confirmed = plan.confirmed /\ plan'.dry.status # "passed"
  BY <1>1, <1>3 DEF NoPlan, NoDry, Dry, PlanRow, PlanStatus, DryRow, Reviewable, Settled
<1>5. UNCHANGED <<records, recipe, jobs, rehearsed, live, lost>>
  BY DEF Create
<1>6. PlanTypeOK'
  BY <1>4, <1>5 DEF PlanInv, PlanTypeOK
<1>7. QueueOK' /\ SettledIsIdle' /\ LiveWasRehearsed'
  BY <1>2, <1>4, <1>5 DEF PlanInv, QueueOK, SettledIsIdle, LiveWasRehearsed
<1>8. LiveIsConfirmed' /\ PassedWasRehearsed'
  BY <1>4, <1>5 DEF PlanInv, LiveIsConfirmed, PassedWasRehearsed, Rehearsed
<1>9. QED
  BY <1>6, <1>7, <1>8 DEF PlanInv

\* A review puts other targets into a plan whose targets may be edited.
LEMMA ReviewTargetsKeeps == PlanInv /\ ReviewTargets => PlanInv'
<1> SUFFICES ASSUME PlanInv, ReviewTargets PROVE PlanInv'
  OBVIOUS
<1>1. PICK keys \in SUBSET Key : Buildable(keys) /\ plan' = Reviewed(plan, keys)
  BY DEF ReviewTargets
<1>2. CanEditTargets(plan) /\ UNCHANGED <<records, recipe, jobs, rehearsed, live, lost>>
  BY DEF ReviewTargets
<1> DEFINE p == Reviewed(plan, keys)
<1>3. /\ p \in PlanRow /\ p.action = plan.action /\ CanEditTargets(p)
      /\ p.status \notin Settled
      /\ Rehearsed(p)
  BY <1>1, <1>2, ReviewedRow DEF PlanInv, PlanTypeOK
<1>4. p.confirmed = plan.confirmed
  BY <1>2, <1>3 DEF CanEditTargets, PlanRow, PlanInv, PlanTypeOK
<1>5. \A i \in 1 .. Len(jobs) : jobs[i].stage # "read"
  BY <1>2, EditableQueue
<1> HIDE DEF p
<1>6. plan' = p
  BY <1>1 DEF p
<1>7. QED
  BY <1>2, <1>3, <1>4, <1>5, <1>6, PlanRowWritten

\* A dry run is queued for the targets the plan has, or brings its own.
LEMMA DryRunKeeps == PlanInv /\ DryRun => PlanInv'
<1> SUFFICES ASSUME PlanInv, DryRun PROVE PlanInv'
  OBVIOUS
<1>1. PICK w \in {plan} \cup
          {Reviewed(plan, keys) : keys \in {k \in SUBSET Key : Buildable(k)}} :
        \/ /\ w.action = "query"
           /\ plan' = [w EXCEPT !.status = "succeeded",
                                !.dry = Dry("succeeded", NoTargets)]
           /\ UNCHANGED jobs
        \/ /\ w.action = "enrich" /\ Len(jobs) < MaxJobs
           /\ jobs' = Enqueued("read", w)
           /\ plan' = [w EXCEPT !.status = "queued"]
        \/ /\ ~ IsRead(w) /\ Len(jobs) < MaxJobs
           /\ RecipeVerified(w) /\ TargetsVerified(w)
           /\ jobs' = Enqueued("dry-run", w)
           /\ plan' = [w EXCEPT !.status = "dry_running"]
        \/ /\ ~ IsRead(w) /\ ~ RecipeVerified(w)
           /\ plan' = w
           /\ UNCHANGED jobs
  BY DEF DryRun
<1>2. CanEditTargets(plan) /\ UNCHANGED <<records, recipe, rehearsed, live, lost>>
  BY DEF DryRun
<1>3. plan \in PlanRow /\ records \in Version \cup {NoTitle} /\ PassedWasRehearsed
      /\ jobs \in Seq(PlanJob)
  BY DEF PlanInv, PlanTypeOK
<1>4. /\ w \in PlanRow /\ w.action = plan.action /\ CanEditTargets(w)
      /\ w.status \notin Settled /\ w.status # "queued"
      /\ Rehearsed(w)
  <2>1. CASE w = plan
    BY <1>2, <1>3, <2>1 DEF CanEditTargets, Settled, PassedWasRehearsed, Rehearsed
  <2>2. ASSUME NEW keys \in SUBSET Key, Buildable(keys), w = Reviewed(plan, keys)
        PROVE  /\ w \in PlanRow /\ w.action = plan.action /\ CanEditTargets(w)
               /\ w.status \notin Settled /\ w.status # "queued"
               /\ Rehearsed(w)
    BY <1>2, <1>3, <2>2, ReviewedRow
  <2>3. QED
    BY <2>1, <2>2
<1>5. w.confirmed = plan.confirmed
  BY <1>2, <1>3, <1>4 DEF CanEditTargets, PlanRow
<1>6. \A i \in 1 .. Len(jobs) : jobs[i].stage = "dry-run" /\ w.action = "approve"
  BY <1>2, <1>4, EditableQueue
<1>7. CASE /\ w.action = "query" /\ UNCHANGED jobs
           /\ plan' = [w EXCEPT !.status = "succeeded", !.dry = Dry("succeeded", NoTargets)]
  <2>1. jobs = <<>>
    <3>1. ASSUME 1 \in 1 .. Len(jobs) PROVE FALSE
      BY <1>6, <1>7, <3>1
    <3>2. QED
      BY <1>3, <3>1
  <2>2. /\ plan' \in PlanRow /\ plan'.action = plan.action
        /\ plan'.confirmed = plan.confirmed /\ Rehearsed(plan')
    BY <1>4, <1>5, <1>7 DEF PlanRow, PlanStatus, DryRow, Dry, Reviewable, Rehearsed
  <2>3. \A i \in 1 .. Len(jobs) : jobs[i].stage # "read"
    BY <1>6
  <2>4. QED
    BY <1>2, <1>7, <2>1, <2>2, <2>3, PlanRowWritten
<1>8. CASE /\ w.action = "enrich" /\ jobs' = Enqueued("read", w)
           /\ plan' = [w EXCEPT !.status = "queued"]
  <2>1. /\ plan' \in PlanRow /\ plan'.action = w.action /\ plan'.status = "queued"
        /\ plan'.confirmed = plan.confirmed
        /\ Rehearsed(plan')
    BY <1>4, <1>5, <1>8 DEF PlanRow, PlanStatus, Rehearsed
  <2>2. plan'.status \notin Settled
    BY <2>1 DEF Settled
  <2>3. QED
    BY <1>2, <1>4, <1>6, <1>8, <2>1, <2>2, JobQueued
<1>9. CASE /\ ~ IsRead(w) /\ jobs' = Enqueued("dry-run", w)
           /\ plan' = [w EXCEPT !.status = "dry_running"]
  <2>1. /\ plan' \in PlanRow /\ plan'.action = w.action /\ plan'.action = "approve"
        /\ plan'.status = "dry_running" /\ plan'.confirmed = plan.confirmed
        /\ Rehearsed(plan')
    BY <1>4, <1>5, <1>9 DEF PlanRow, PlanStatus, IsRead, Rehearsed
  <2>2. plan'.status \notin Settled
    BY <2>1 DEF Settled
  <2>3. QED
    BY <1>2, <1>4, <1>6, <1>9, <2>1, <2>2, JobQueued
<1>10. CASE plan' = w /\ UNCHANGED jobs
  <2>1. \A i \in 1 .. Len(jobs) : jobs[i].stage # "read"
    BY <1>6
  <2>2. QED
    BY <1>2, <1>4, <1>5, <1>10, <2>1, PlanRowWritten
<1>11. QED
  BY <1>1, <1>7, <1>8, <1>9, <1>10

\* A confirmation queues the live job, once, for what was rehearsed.
LEMMA ConfirmKeeps == PlanInv /\ Confirm => PlanInv'
<1> SUFFICES ASSUME PlanInv, Confirm PROVE PlanInv'
  OBVIOUS
<1>1. /\ ~ plan.confirmed /\ plan.status = "awaiting_confirmation"
      /\ plan.targets # NoTargets
      /\ plan.dry.status = "passed" /\ plan.dry.targets = plan.targets
  BY DEF Confirm, Confirmable, TargetsVerified, DryRunPassed
<1>2. /\ jobs' = Enqueued("live", plan)
      /\ plan' = [plan EXCEPT !.status = "queued", !.confirmed = TRUE]
      /\ live' = Append(live, plan.targets)
      /\ UNCHANGED <<records, recipe, rehearsed, lost>>
  BY DEF Confirm
<1>3. plan \in PlanRow /\ plan.targets \in Reviewable /\ jobs \in Seq(PlanJob)
      /\ live \in Seq(Reviewable)
  BY DEF PlanInv, PlanTypeOK, PlanRow
<1>4. CanEditTargets(plan)
  BY <1>1 DEF CanEditTargets
<1>5. \A i \in 1 .. Len(jobs) : jobs[i].stage = "dry-run" /\ plan.action = "approve"
  BY <1>4, EditableQueue
<1>6. plan.action = "approve" /\ plan.targets \in rehearsed
  BY <1>1 DEF PlanInv, PassedWasRehearsed, Rehearsed
<1>7. /\ plan' \in PlanRow /\ plan'.action = "approve" /\ plan'.status \notin Settled
      /\ plan'.confirmed /\ Rehearsed(plan')
  BY <1>2, <1>3, <1>6 DEF PlanInv, PlanRow, PlanStatus, Settled, PassedWasRehearsed, Rehearsed
<1>8. live = <<>>
  BY <1>1, <1>3, EmptySeq DEF PlanInv, LiveIsConfirmed
<1>9. live' \in Seq(Reviewable) /\ Len(live') = 1 /\ live'[1] = plan.targets
  BY <1>2, <1>3, <1>8, AppendProperties
<1>10. /\ jobs' \in Seq(PlanJob) /\ Len(jobs') = Len(jobs) + 1
       /\ \A k \in 1 .. Len(jobs) : jobs'[k] = jobs[k]
       /\ jobs'[Len(jobs')].stage = "live"
  BY <1>2, <1>3, EnqueuedQueue
<1>11. QueueOK'
  <2> SUFFICES ASSUME NEW k \in 1 .. Len(jobs')
               PROVE  JobOK(jobs[k])' /\ (jobs'[k].stage # "dry-run" => k = Len(jobs'))
    BY DEF QueueOK
  <2>1. CASE k \in 1 .. Len(jobs)
    BY <1>5, <1>7, <1>10, <2>1 DEF JobOK
  <2>2. CASE k = Len(jobs')
    BY <1>7, <1>10, <2>2 DEF JobOK
  <2>3. QED
    BY <1>3, <1>10, <2>1, <2>2
<1>12. PlanTypeOK'
  BY <1>2, <1>7, <1>9, <1>10 DEF PlanInv, PlanTypeOK
<1>13. SettledIsIdle' /\ LiveIsConfirmed' /\ PassedWasRehearsed' /\ LiveWasRehearsed'
  BY <1>2, <1>6, <1>7, <1>9
     DEF SettledIsIdle, LiveIsConfirmed, PassedWasRehearsed, Rehearsed, LiveWasRehearsed
<1>14. QED
  BY <1>11, <1>12, <1>13 DEF PlanInv

\* The job at the head ran; what its onFinish writes agrees with the rest.
LEMMA JobFinishesKeeps == PlanInv /\ JobFinishes => PlanInv'
<1> SUFFICES ASSUME PlanInv, JobFinishes PROVE PlanInv'
  OBVIOUS
<1>1. PICK i \in NextJob :
        /\ \/ /\ jobs[i].stage = "dry-run"
              /\ \E ok \in BOOLEAN :
                   /\ plan' = AfterDryRun(jobs[i], ok)
                   /\ rehearsed' = IF ok THEN rehearsed \cup {jobs[i].targets}
                                         ELSE rehearsed
           \/ /\ jobs[i].stage = "read"
              /\ \E ok \in BOOLEAN : plan' = AfterRead(ok)
              /\ UNCHANGED rehearsed
           \/ /\ jobs[i].stage = "live"
              /\ \E results \in SUBSET {"completed", "skipped", "failed"} :
                   plan' = AfterLive(results)
              /\ UNCHANGED rehearsed
        /\ jobs' = RemoveAt(jobs, i)
        /\ UNCHANGED <<records, recipe, live, lost>>
  BY DEF JobFinishes
<1>2. /\ jobs \in Seq(PlanJob) /\ plan \in PlanRow /\ QueueOK
      /\ rehearsed \subseteq Reviewable /\ live \in Seq(Reviewable)
  BY DEF PlanInv, PlanTypeOK
<1>3. i = 1 /\ i \in 1 .. Len(jobs) /\ Len(jobs) \in Nat /\ jobs # <<>>
  BY <1>2, EmptySeq DEF NextJob
<1>4. jobs[i] \in PlanJob /\ JobOK(jobs[i]) /\ (jobs[i].stage # "dry-run" => i = Len(jobs))
  <2>1. jobs[i] \in PlanJob
    BY <1>2, <1>3
  <2>2. JobOK(jobs[i]) /\ (jobs[i].stage # "dry-run" => i = Len(jobs))
    BY <1>2, <1>3 DEF QueueOK
  <2>3. QED
    BY <2>1, <2>2
<1>5. jobs[i].targets \in Reviewable
  BY <1>4 DEF PlanJob
<1>6. /\ jobs' \in Seq(PlanJob) /\ Len(jobs') = Len(jobs) - 1
      /\ \A k \in 1 .. Len(jobs') :
           /\ JobOK(jobs'[k])
           /\ jobs'[k].stage # "dry-run" => k = Len(jobs')
  BY <1>1, <1>2, <1>3, RemoveAtKeepsQueue, RemoveAtSeq
<1>7. rehearsed \subseteq rehearsed' /\ rehearsed' \subseteq Reviewable
  BY <1>1, <1>2, <1>5
<1>8. LiveWasRehearsed'
  BY <1>1, <1>7 DEF PlanInv, LiveWasRehearsed
<1>9. CASE jobs[i].stage = "dry-run"
  <2>1. PICK ok \in BOOLEAN :
          /\ plan' = AfterDryRun(jobs[i], ok)
          /\ rehearsed' = IF ok THEN rehearsed \cup {jobs[i].targets} ELSE rehearsed
    BY <1>1, <1>9
  <2>2. plan.action = "approve"
    BY <1>4, <1>9 DEF JobOK
  <2>3. /\ plan' \in PlanRow /\ plan'.action = plan.action
        /\ plan'.confirmed = plan.confirmed /\ plan'.status \notin Settled
    BY <1>2, <1>5, <2>1
       DEF AfterDryRun, Binding, Dry, DryRow, PlanRow, PlanStatus, Settled
  <2>4. PassedWasRehearsed'
    <3>1. plan'.dry.status = "passed" =>
            ok /\ plan'.dry.targets = jobs[i].targets
      BY <1>2, <2>1 DEF AfterDryRun, Binding, Dry, PlanRow
    <3>2. QED
      BY <2>1, <2>2, <2>3, <3>1 DEF PassedWasRehearsed, Rehearsed
  <2>5. QueueOK'
    <3>1. ASSUME NEW k \in 1 .. Len(jobs') PROVE JobOK(jobs[k])'
      <4>1. jobs'[k].stage # "read"
        BY <1>6, <2>2 DEF JobOK
      <4>2. QED
        BY <1>6, <2>3, <4>1 DEF JobOK
    <3>2. QED
      BY <1>6, <3>1 DEF QueueOK
  <2>6. PlanTypeOK'
    BY <1>1, <1>6, <1>7, <2>3 DEF PlanInv, PlanTypeOK
  <2>7. SettledIsIdle' /\ LiveIsConfirmed'
    BY <1>1, <2>3 DEF PlanInv, SettledIsIdle, LiveIsConfirmed
  <2>8. QED
    BY <1>8, <2>4, <2>5, <2>6, <2>7 DEF PlanInv
<1>10. CASE jobs[i].stage # "dry-run"
  <2>1. jobs' = <<>> /\ Len(jobs') = 0
    BY <1>3, <1>4, <1>6, <1>10, EmptySeq
  <2>2. UNCHANGED rehearsed
    BY <1>1, <1>10
  <2>3. /\ plan' \in PlanRow /\ plan'.confirmed = plan.confirmed /\ Rehearsed(plan')
    <3>1. CASE jobs[i].stage = "read"
      <4>1. PICK ok \in BOOLEAN : plan' = AfterRead(ok)
        BY <1>1, <3>1
      <4>2. QED
        BY <1>2, <4>1 DEF AfterRead, Dry, DryRow, Reviewable, PlanRow, PlanStatus, Rehearsed
    <3>2. CASE jobs[i].stage = "live"
      <4>1. PICK results \in SUBSET {"completed", "skipped", "failed"} :
              plan' = AfterLive(results)
        BY <1>1, <3>2
      <4>2. QED
        BY <1>2, <4>1
           DEF AfterLive, PlanRow, PlanStatus, PlanInv, PassedWasRehearsed, Rehearsed
    <3>3. QED
      BY <1>1, <1>10, <3>1, <3>2
  <2>4. PlanTypeOK'
    BY <1>1, <1>6, <1>7, <2>3 DEF PlanInv, PlanTypeOK
  <2>5. QueueOK' /\ SettledIsIdle'
    BY <2>1 DEF QueueOK, SettledIsIdle
  <2>6. LiveIsConfirmed' /\ PassedWasRehearsed'
    BY <1>1, <2>2, <2>3 DEF PlanInv, LiveIsConfirmed, PassedWasRehearsed, Rehearsed
  <2>7. QED
    BY <1>8, <2>4, <2>5, <2>6 DEF PlanInv
<1>11. QED
  BY <1>9, <1>10

\* Losing jobs leaves a shorter queue in the same order.
LEMMA LossKeeps == PlanInv /\ (JobDropped \/ Restart) => PlanInv'
<1> SUFFICES ASSUME PlanInv, JobDropped \/ Restart PROVE PlanInv'
  OBVIOUS
<1>1. /\ UNCHANGED <<records, recipe, plan, rehearsed, live>> /\ lost' = TRUE
      /\ jobs' = <<>> \/ \E i \in AnyJob : jobs' = RemoveAt(jobs, i)
  BY DEF JobDropped, Restart
<1>2. jobs \in Seq(PlanJob) /\ QueueOK /\ Len(jobs) \in Nat
  BY DEF PlanInv, PlanTypeOK
<1>3. CASE jobs' = <<>>
  <2>1. jobs' \in Seq(PlanJob) /\ Len(jobs') = 0
    BY <1>3
  <2>2. PlanTypeOK' /\ QueueOK' /\ SettledIsIdle'
    BY <1>1, <1>3, <2>1 DEF PlanInv, PlanTypeOK, QueueOK, SettledIsIdle
  <2>3. LiveIsConfirmed' /\ PassedWasRehearsed' /\ LiveWasRehearsed'
    BY <1>1 DEF PlanInv, LiveIsConfirmed, PassedWasRehearsed, Rehearsed, LiveWasRehearsed
  <2>4. QED
    BY <2>2, <2>3 DEF PlanInv
<1>4. CASE \E i \in AnyJob : jobs' = RemoveAt(jobs, i)
  <2>1. PICK i \in 1 .. Len(jobs) : jobs' = RemoveAt(jobs, i)
    BY <1>4 DEF AnyJob
  <2>2. /\ jobs' \in Seq(PlanJob)
        /\ \A k \in 1 .. Len(jobs') :
             JobOK(jobs'[k]) /\ (jobs'[k].stage # "dry-run" => k = Len(jobs'))
    BY <1>2, <2>1, RemoveAtKeepsQueue
  <2>3. QueueOK'
    BY <1>1, <2>2 DEF QueueOK, JobOK
  <2>4. SettledIsIdle'
    <3>1. jobs # <<>>
      BY <1>2, EmptySeq
    <3>2. QED
      BY <1>1, <3>1 DEF PlanInv, SettledIsIdle
  <2>5. PlanTypeOK'
    BY <1>1, <2>2 DEF PlanInv, PlanTypeOK
  <2>6. LiveIsConfirmed' /\ PassedWasRehearsed' /\ LiveWasRehearsed'
    BY <1>1 DEF PlanInv, LiveIsConfirmed, PassedWasRehearsed, Rehearsed, LiveWasRehearsed
  <2>7. QED
    BY <2>3, <2>4, <2>5, <2>6 DEF PlanInv
<1>5. QED
  BY <1>1, <1>3, <1>4

\* Records and recipe change without the plan.
LEMMA WorldKeeps ==
  PlanInv /\ (RecordsSynced \/ RecipeEdited \/ UNCHANGED planVars) => PlanInv'
<1> SUFFICES ASSUME PlanInv, RecordsSynced \/ RecipeEdited \/ UNCHANGED planVars
             PROVE  PlanInv'
  OBVIOUS
<1>1. UNCHANGED <<plan, jobs, rehearsed, live, lost>>
  BY DEF RecordsSynced, RecipeEdited, planVars
<1>2. records' \in Version \cup {NoTitle} /\ recipe' \in Recipe \cup {NoRecipe}
  BY DEF RecordsSynced, RecipeEdited, planVars, PlanInv, PlanTypeOK
<1>3. PlanTypeOK'
  BY <1>1, <1>2 DEF PlanInv, PlanTypeOK
<1>4. QueueOK' /\ SettledIsIdle'
  BY <1>1 DEF PlanInv, QueueOK, JobOK, SettledIsIdle
<1>5. LiveIsConfirmed' /\ PassedWasRehearsed' /\ LiveWasRehearsed'
  BY <1>1 DEF PlanInv, LiveIsConfirmed, PassedWasRehearsed, Rehearsed, LiveWasRehearsed
<1>6. QED
  BY <1>3, <1>4, <1>5 DEF PlanInv

\* Every step keeps the invariant.
LEMMA PlanInvPreserved == PlanInv /\ [PlanNext]_planVars => PlanInv'
BY CreateKeeps, ReviewTargetsKeeps, DryRunKeeps, ConfirmKeeps, JobFinishesKeeps,
   LossKeeps, WorldKeeps
   DEF PlanNext

\* The rows, the queue and the histories keep their shape, and the gates their
\* invariant, in every reachable state.
THEOREM PlanInvariant == PlanSpec => []PlanInv
BY PlanInitInv, PlanInvPreserved, PTL DEF PlanSpec

\* Plan, queue and histories keep their shape, for any number of jobs.
THEOREM PlanTypeCorrect == PlanSpec => []PlanTypeOK
<1>1. PlanInv => PlanTypeOK
  BY DEF PlanInv
<1>2. QED
  BY <1>1, PlanInvariant, PTL

\* confirm never lets a target set through that no dry run passed on.
THEOREM PlanRehearsed == PlanSpec => []LiveWasRehearsed
<1>1. PlanInv => LiveWasRehearsed
  BY DEF PlanInv
<1>2. QED
  BY <1>1, PlanInvariant, PTL

\* The confirmation outlives a late dry run, so a plan runs live at most once.
THEOREM PlanLiveOnce == PlanSpec => []LiveOnce
<1>1. PlanInv => LiveOnce
  BY DEF PlanInv, LiveIsConfirmed, LiveOnce
<1>2. QED
  BY <1>1, PlanInvariant, PTL

\* The queue's order makes the last job's outcome the plan's last word.
THEOREM PlanOutcomeFinal == PlanSpec => OutcomeIsFinal
<1>1. PlanInv /\ [PlanNext]_planVars => [plan.status \in Settled => plan' = plan]_planVars
  <2> SUFFICES ASSUME PlanInv, PlanNext, plan.status \in Settled
               PROVE  plan' = plan
    OBVIOUS
  <2>1. jobs = <<>>
    BY DEF PlanInv, SettledIsIdle
  <2>2. ~ Create
    <3>1. plan # NoPlan
      BY DEF NoPlan, Settled
    <3>2. QED
      BY <3>1 DEF Create
  <2>3. ~ ReviewTargets /\ ~ DryRun
    BY DEF ReviewTargets, DryRun, CanEditTargets, Settled
  <2>4. ~ Confirm
    BY DEF Confirm, Confirmable, Settled
  <2>5. ~ JobFinishes
    BY <2>1 DEF JobFinishes, NextJob
  <2>6. QED
    BY <2>2, <2>3, <2>4, <2>5
       DEF PlanNext, JobDropped, Restart, RecordsSynced, RecipeEdited
<1>2. QED
  BY <1>1, PlanInvariant, PTL DEF PlanSpec, OutcomeIsFinal
=============================================================================
