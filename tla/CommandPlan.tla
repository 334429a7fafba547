----------------------------- MODULE CommandPlan -----------------------------
(***************************************************************************)
(* One reviewed command plan (webui/routes-command-plan.js): created,      *)
(* given a target set, rehearsed by a dry run, confirmed by a human and    *)
(* run live, while the synced records and the recipe change underneath.    *)
(*                                                                         *)
(* A handler loads the plan and writes it back without an await in         *)
(* between, so a request is one step; the jobs it puts on the server's     *)
(* queue finish later, in the order they were put there (LocalQueue), and  *)
(* write their outcome into whatever the plan has become by then.          *)
(*                                                                         *)
(* A target set stands for its hash: the keys and the version of their     *)
(* titles and summaries.  The events table is append-only and left out.    *)
(***************************************************************************)
EXTENDS Integers, SequencesExt

CONSTANTS
  Key,        (* the documents a target set may name                        *)
  Version,    (* versions of the records' titles and summaries              *)
  NoTitle,    (* the records carry no title to bind a target to             *)
  Recipe,     (* versions of the recipe's action block                      *)
  NoRecipe,   (* the recipe is missing or its action unavailable            *)
  NoTargets,  (* no target set was reviewed yet                             *)
  MaxJobs     (* bound: the plan's jobs on the queue                        *)

ASSUME PlanAssumption ==
  /\ MaxJobs \in Nat
  /\ NoTitle \notin Version /\ NoRecipe \notin Recipe
  /\ NoTargets \notin [keys : SUBSET Key, version : Version]

VARIABLES
  records,    (* the version of the records in the database                 *)
  recipe,     (* the recipe on disk                                         *)
  plan,       (* the command_plans row                                      *)
  jobs,       (* the plan's jobs on the server's queue, oldest first        *)
  rehearsed,  (* history: target sets a dry-run job passed on               *)
  live,       (* history: target sets a live job was queued for, in order   *)
  lost        (* history: a job was dropped without its onFinish            *)

planVars == <<records, recipe, plan, jobs, rehearsed, live, lost>>

-----------------------------------------------------------------------------
Action == {"query", "enrich", "approve"}       \* "enrich" stands for sync too
TargetSet == [keys : (SUBSET Key) \ {{}}, version : Version]

Dry(status, targets) == [status |-> status, targets |-> targets]
NoDry == Dry("none", NoTargets)

NoPlan == [status |-> "none", action |-> "query", recipe |-> NoRecipe,
           targets |-> NoTargets, dry |-> NoDry, confirmed |-> FALSE]

IsRead(p) == p.action # "approve"

(* canEditTargets; canRunDryRun is the same predicate. *)
CanEditTargets(p) ==
  /\ p.status \in {"planned", "dry_failed", "dry_running", "awaiting_confirmation"}
  /\ ~ p.confirmed

(* buildTargetSet: every key must have a title. *)
Buildable(keys) == keys # {} /\ records # NoTitle
BuiltTargets(keys) == [keys |-> keys, version |-> records]

(* saveTargets: another target set takes the plan back to "planned". *)
Reviewed(p, keys) ==
  LET built == BuiltTargets(keys) IN
  IF p.targets \in {NoTargets, built}
  THEN [p EXCEPT !.targets = built]
  ELSE [p EXCEPT !.targets = built, !.status = "planned", !.dry = NoDry,
                 !.confirmed = FALSE]

RecipeVerified(p) == recipe # NoRecipe /\ p.recipe \in {NoRecipe, recipe}

TargetsVerified(p) ==
  /\ p.targets # NoTargets
  /\ Buildable(p.targets.keys)
  /\ BuiltTargets(p.targets.keys) = p.targets

DryRunPassed(p) == p.dry.status = "passed" /\ p.dry.targets = p.targets

Enqueued(stage, p) == Append(jobs, [stage |-> stage, targets |-> p.targets])

-----------------------------------------------------------------------------
(* createPlan *)
Create ==
  /\ plan = NoPlan
  /\ \E action \in Action :
       plan' = [NoPlan EXCEPT
         !.action = action,
         !.recipe = IF action = "approve" THEN recipe ELSE NoRecipe,
         !.status = IF action = "approve" /\ recipe = NoRecipe
                    THEN "refused" ELSE "planned"]
  /\ UNCHANGED <<records, recipe, jobs, rehearsed, live, lost>>

(* targets/review *)
ReviewTargets ==
  /\ CanEditTargets(plan)
  /\ \E keys \in SUBSET Key :
       /\ Buildable(keys)
       /\ plan' = Reviewed(plan, keys)
  /\ UNCHANGED <<records, recipe, jobs, rehearsed, live, lost>>

(* dry-run, which may carry a target set of its own. *)
DryRun ==
  /\ CanEditTargets(plan)
  /\ \E working \in {plan} \cup
          {Reviewed(plan, keys) : keys \in {k \in SUBSET Key : Buildable(k)}} :
       \/ /\ working.action = "query"                 \* answered on the spot
          /\ plan' = [working EXCEPT !.status = "succeeded",
                                     !.dry = Dry("succeeded", NoTargets)]
          /\ UNCHANGED jobs
       \/ /\ working.action = "enrich" /\ Len(jobs) < MaxJobs
          /\ jobs' = Enqueued("read", working)
          /\ plan' = [working EXCEPT !.status = "queued"]
       \/ /\ ~ IsRead(working) /\ Len(jobs) < MaxJobs
          /\ RecipeVerified(working) /\ TargetsVerified(working)
          /\ jobs' = Enqueued("dry-run", working)
          /\ plan' = [working EXCEPT !.status = "dry_running"]
       \/ /\ ~ IsRead(working) /\ ~ RecipeVerified(working)
          /\ plan' = working                          \* refused, targets kept
          /\ UNCHANGED jobs
  /\ UNCHANGED <<records, recipe, rehearsed, live, lost>>

\* Wrong variant: a plan in execution may be confirmed.
ConfirmableAgain(p) ==
  /\ RecipeVerified(p)
  /\ TargetsVerified(p)
  /\ DryRunPassed(p)
  /\ p.status = "awaiting_confirmation"

Confirmable(p) ==
  /\ ~ p.confirmed
  /\ RecipeVerified(p)
  /\ TargetsVerified(p)
  /\ DryRunPassed(p)
  /\ p.status = "awaiting_confirmation"

(* confirm.  A body whose hashes are not the plan's own is refused. *)
Confirm ==
  /\ Confirmable(plan) /\ Len(jobs) < MaxJobs
  /\ jobs' = Enqueued("live", plan)
  /\ plan' = [plan EXCEPT !.status = "queued", !.confirmed = TRUE]
  /\ live' = Append(live, plan.targets)
  /\ UNCHANGED <<records, recipe, rehearsed, lost>>

-----------------------------------------------------------------------------
\* Wrong variant: a live run is not bound to its target set.
BindingMissing(j) == IF j.stage = "read" THEN NoTargets ELSE plan.targets

(* The target set a job was bound to when it was enqueued. *)
Binding(j) == j.targets

(* storeJobCompletion for a dry run: an outcome for another target set than
   the plan's is stale. *)
AfterDryRun(j, ok) ==
  LET stale == Binding(j) # plan.targets IN
  IF stale THEN [plan EXCEPT !.status = "planned", !.dry = Dry("stale", Binding(j))]
  ELSE IF ok
  THEN [plan EXCEPT !.status = "awaiting_confirmation", !.dry = Dry("passed", Binding(j))]
  ELSE [plan EXCEPT !.status = "dry_failed", !.dry = Dry("failed", Binding(j))]

\* Wrong variant: a read plan ends in a status the plan does not have.
AfterReadDone(ok) ==
  LET status == IF ok THEN "done" ELSE "failed" IN
  [plan EXCEPT !.status = status, !.dry = Dry(status, NoTargets)]

AfterRead(ok) ==
  LET status == IF ok THEN "succeeded" ELSE "failed" IN
  [plan EXCEPT !.status = status, !.dry = Dry(status, NoTargets)]

(* A live run succeeded when it completed a target and failed on none. *)
LiveOk(results) == "completed" \in results /\ results \subseteq {"completed", "skipped"}

\* Wrong variant: the outcome of a live run is not written.
AfterLiveAsQueued(results) ==
  [plan EXCEPT !.status = IF LiveOk(results) THEN "succeeded" ELSE "queued"]

AfterLive(results) ==
  [plan EXCEPT !.status = IF LiveOk(results) THEN "succeeded" ELSE "failed"]

\* Wrong variant: jobs end in any order.
AnyJob == 1 .. Len(jobs)

(* The queue is one promise chain: the oldest job finishes first. *)
NextJob == IF jobs = <<>> THEN {} ELSE {1}

(* onFinish of the job that ran. *)
JobFinishes ==
  \E i \in NextJob :
    /\ \/ /\ jobs[i].stage = "dry-run"
          /\ \E ok \in BOOLEAN :
               /\ plan' = AfterDryRun(jobs[i], ok)
               /\ rehearsed' = IF ok THEN rehearsed \cup {jobs[i].targets} ELSE rehearsed
       \/ /\ jobs[i].stage = "read"
          /\ \E ok \in BOOLEAN : plan' = AfterRead(ok)
          /\ UNCHANGED rehearsed
       \/ /\ jobs[i].stage = "live"
          /\ \E results \in SUBSET {"completed", "skipped", "failed"} :
               plan' = AfterLive(results)
          /\ UNCHANGED rehearsed
    /\ jobs' = RemoveAt(jobs, i)
    /\ UNCHANGED <<records, recipe, live, lost>>

(* A job cancelled while queued, or refused by the durable claim or an audit,
   ends without onFinish. *)
JobDropped ==
  /\ \E i \in AnyJob : jobs' = RemoveAt(jobs, i)
  /\ lost' = TRUE
  /\ UNCHANGED <<records, recipe, plan, rehearsed, live>>

(* A restarted server cannot resume these jobs: they carry no command. *)
Restart ==
  /\ jobs # <<>>
  /\ jobs' = <<>>
  /\ lost' = TRUE
  /\ UNCHANGED <<records, recipe, plan, rehearsed, live>>

(* A sync rewrites the records; an operator edits the recipe. *)
RecordsSynced ==
  /\ \E v \in Version \cup {NoTitle} : v # records /\ records' = v
  /\ UNCHANGED <<recipe, plan, jobs, rehearsed, live, lost>>

RecipeEdited ==
  /\ \E r \in Recipe \cup {NoRecipe} : r # recipe /\ recipe' = r
  /\ UNCHANGED <<records, plan, jobs, rehearsed, live, lost>>

PlanInit ==
  /\ records \in Version \cup {NoTitle}
  /\ recipe \in Recipe \cup {NoRecipe}
  /\ plan = NoPlan
  /\ jobs = <<>> /\ rehearsed = {} /\ live = <<>> /\ lost = FALSE

PlanNext ==
  \/ Create \/ ReviewTargets \/ DryRun \/ Confirm
  \/ JobFinishes \/ JobDropped \/ Restart
  \/ RecordsSynced \/ RecipeEdited

PlanSpec == PlanInit /\ [][PlanNext]_planVars /\ WF_planVars(JobFinishes)

-----------------------------------------------------------------------------
PlanStatus ==
  {"none", "refused", "planned", "dry_running", "dry_failed",
   "awaiting_confirmation", "queued", "succeeded", "failed"}

Settled == {"succeeded", "failed"}

Reviewable == TargetSet \cup {NoTargets}

DryRow == [status : {"none", "passed", "failed", "stale", "succeeded"},
           targets : Reviewable]

PlanRow == [status : PlanStatus, action : Action, recipe : Recipe \cup {NoRecipe},
            targets : Reviewable, dry : DryRow, confirmed : BOOLEAN]

PlanJob == [stage : {"dry-run", "read", "live"}, targets : Reviewable]

(* The plan row, the queue and the histories hold what the handlers write. *)
PlanTypeOK ==
  /\ records \in Version \cup {NoTitle}
  /\ recipe \in Recipe \cup {NoRecipe}
  /\ plan \in PlanRow
  /\ jobs \in Seq(PlanJob)
  /\ rehearsed \subseteq Reviewable
  /\ live \in Seq(Reviewable)
  /\ lost \in BOOLEAN

(* A live job only ever runs on a target set, keys and content, that a dry-run
   job of this plan really passed on: no edit, sync or late completion between
   the rehearsal and the confirmation lets another set through. *)
LiveWasRehearsed == \A i \in 1 .. Len(live) : live[i] \in rehearsed

(* A plan is run live at most once, although a dry run that finishes after the
   confirmation puts its status back to "awaiting_confirmation". *)
LiveOnce == Len(live) <= 1

(* The outcome of a plan is not rewritten: no job of the plan is still to
   finish when its last one has. *)
OutcomeIsFinal == [][plan.status \in Settled => plan' = plan]_planVars

(* A plan whose read or live job is queued comes to its outcome, unless the
   job was dropped without telling the plan. *)
QueuedIsDecided == (plan.status = "queued") ~> (plan.status \in Settled \/ lost)
=============================================================================
