# Browser-auto: models and proofs

This directory holds TLA+ models of Browser-auto, the TLC configurations that
check them on small instances, and TLAPS proofs of what holds for every instance.
Paths below are relative to the repository root. `PROJECT.json` is the index:
which definition stands for which lines (`map`), what each run checks (`runs`),
which plausible slip in the code each property detects (`mutants`), what is hard
to test and where (`hazards`), and where code and documentation disagree
(`findings`).

    cd tla
    tlc -workers 2 -config JobSystem.cfg MCJobSystem      # a run
    tlapm JobStoreProofs.tla                              # a proof

## 1. The system

Browser-auto automates work in web applications: it records flows, collects
lists of documents into SQLite, summarises them, and carries out reviewed
decisions in the browser. A Node server (`webui/`) takes requests and puts work on
a job queue; each job is a child process (a shell script or a Node leaf) that
drives a browser. In external mode, jobs may also be run by outbound workers that
reach the server over HTTP.

| Component | State it keeps | Operations | Interacts with |
|---|---|---|---|
| Durable job table, `lib/db.js` | one `webui_jobs` row per job: status, owner, lease, attempts, cancel | save, claim, claim-next, heartbeat, complete, request cancel, reconcile | written by the server's queue and by the runner API |
| Server job queue, `webui/jobs.js`, `webui/spawn.js` | job records in memory, the promise chain, the running child, its timers | enqueue, run, heartbeat, watchdog, cancel, shutdown, start-up | the table; audit log; calls `onFinish` of a job's owner |
| Runner API, `webui/runner-routes.js`, `webui/runner-api.js` | none of its own | pull, claim, heartbeat, complete, cancel | table operations on behalf of a worker |
| Outbound worker, `bin/runner-worker.mjs` | the job in hand, its child, what heartbeats said | poll, pull, run, heartbeat, report | the runner API, over a network |
| Audit outbox, `lib/audit-outbox-worker.js`, `-scheduler.js` | outbox rows; the scheduler's timer and drain | append, drain, deliver, mark, start, stop | an external sink behind a connector |
| Command plans, `webui/routes-command-plan.js` | `command_plans` row: action, target set, dry-run record, confirmation | create, review targets, dry run, confirm, completions | enqueues jobs, is called back by `onFinish`; reads records and recipe |
| Live-run leaf, `approve/approve-run.mjs`, `approve/guards.mjs` | its loop variables; the audit file; the kill-switch file | boot, reconcile, scan, open, guard, click, verify | the web site; started by the queue |
| Browser sessions, `webui/novnc-*.js` | session registry; cleanup queue | open, access, cancel, finish, expire, restart; plan and run a cleanup | a recording or sign-in job; an adapter that removes |
| Tenant deletion, `webui/tenant-deletion*.js` | one record per request: dry run, approval, attempts, tombstone | dry run, approve, execute, retry, tombstone, read | an adapter that removes and restores bytes |
| Artifact table, `lib/db.js`, `webui/retention.js` | `webui_artifacts` rows | save, tombstone one or all of a tenant's, decide on a read | jobs that save, people who read |
| Secret migration, `webui/secret-migration*.js`, `webui/secrets-migration*.js` | a workflow per tenant; the idempotency store | plan, approve, stage, commit, roll back | a metadata broker |
| Flow files, `webui/flows.js` | `flow.json`, saved values, the write lock | resolve a step, convert it, save a value | a verify run that rewrites `flow.json` |
| Flow replay, `bin/play-flow.mjs`, `approve/flow-runner.mjs`, `lib/flow-policy.js` | where a run is; a denied request; the commit audit | play, verify, the gate at the point of no return | a browser page |
| Registry and sync, `webui/systems.js`, `webui/routes-rpa.js`, `bin/pw-rpa.mjs` | `systems`, `records`, `approvals` rows; the child of the run | register, remove, sync, enrich, store | the site's list; the queue; a model that summarises |
| Egress policy, `lib/egress-*.js` | none; it reads environment, record, evidence | decide at registration, at enqueue, at each request | the browser runtime |
| Web access, `webui/security.js`, `webui/access.js`, `webui/session.js`, `lib/rbac.js`, `webui/server.js` | logged-out sessions, cookies of served pages | settle identity, read the body, decide, log out | every route |
| Secret stores, recording, reports, front end, host setup | files | encrypt, capture, export, show | not modelled, see section 5 |

What is hard here, and what makes each part correct:

* **One row, several writers.** The server saves whole records over rows
  (`persistJob`), workers update the same rows through guarded statements, and a
  restart reconciles them. Correct means: one owner at a time, a recorded cancel
  survives, an outcome is not rewritten, nothing runs twice, nothing turns green by
  accident.
* **Timers against answers.** Watchdog, kill grace, heartbeats, a user's cancel and
  the child's own close race for one job's outcome. Correct means: one outcome, the
  acknowledged cancel wins, the slot is freed.
* **Requests that get lost.** A worker's posts may be lost before or after the
  server acted. Correct means: the child of a lost job is stopped, and a cancel beats
  a late success.
* **At-least-once delivery.** The sink may take an event although the worker never
  learns of it. Correct means: no loss, duplicates only after a fault, bounded tries,
  a scheduler that does not fall asleep.
* **Check, wait, act.** A plan is rehearsed, then confirmed, then run by a queued job,
  while records, recipe and target set may change; a deletion is approved and then
  executed on a copy; a migration's requests each bring their own refs; egress evidence
  ages while a job waits; a request's identity is settled before its body is read.
  Correct means: what is done is what was checked, once, and at the time it is done.
* **An irreversible click.** A leaf may die on either side of it, and the list that
  shows whether it worked changes while it is read. Correct means: the cap and the
  kill switch bind, a document in doubt is settled first, the audit file says what
  happened; a replay passes its point of no return only with a permit.
* **Partial work.** A cleanup removes several things and may fail after some; a sync
  stores in two transactions what it read page by page; a file is emptied before it is
  filled. Correct means: complete is said only of what is, and nothing is lost.

## 2. Modules

    JobStore ─────────┬── RunnerFleet ──┐
      (contract)      └── LocalQueue ───┴── JobSystem
    CommandPlan  BrowserSessions  AuditOutbox ───────────────── ServerDuties
    TenantDeletion  ArtifactTable  SecretMigration  FlowFiles ─┐
    RecordSync  WebAccess  Egress  FlowReplay ─────────────────┴ ServerRequests
    MigrationPhases (abstract, implemented by SecretMigration)
    ApproveRun

    JobStoreProofs ──── JobSystemProofs
    CommandPlanProofs ─ ServerDutiesProofs
    RequestGateProofs, SecretMigrationProofs ── ServerRequestsProofs
    ApproveRunProofs

Every `MCx` module only gives the constants of `x` their values. Definitions preceded
by `Wrong variant` (`ClaimableWhileActive`, `CompletionByAbsence`) are what a slip in
the code would make of the definition they resemble. They are not part of a
specification; substituted for the right one they show that a property can fail.

`JobSystem` is a true composition: its parts share the table. `ServerDuties` and
`ServerRequests` put parts side by side that share no state: the first what the server
has begun and must see through, the second what it lets through and keeps. Since the
parts do not influence each other, a behaviour in which several move satisfies a
property of one part exactly if the steps of that part do; so one part moves in each
behaviour (`duty`, `part`) and the state counts add up instead of multiplying. The
action properties and the liveness properties are stated over a part's own variables,
and hold trivially while it rests.

### JobStore: the table (`lib/db.js`)

`row[j]` is the row of job `j`. One SQLite statement or transaction is one step.
Operators on a single row (`ClaimedRow`, `HeartbeatRow`, `CompletedRow`,
`CancelledRow`, `ReconciledRow`) say what an operation writes, and `Claimable`,
`Owns`, `CanRetry` are its WHERE clauses. `SaveWebuiJob` is the unguarded upsert.
`StoreSpec` is the **contract**: the guarded operations in any order, by any caller.
`claim_expires_at` is only ever compared with the clock, so a lease is live, expired
or absent.

### RunnerFleet: workers and runner API

A post and its answer are one step with three outcomes: lost or refused; carried out
and answered; carried out and the answer lost. `wk[w].pc` is where the worker's
code awaits: `poll`, `prespawn` (heartbeat before the spawn), `spawned` (first
heartbeat after it), `wait` (for the close), `report`. A child may exit while the
first heartbeat is under way, because `runClaimedJob` listens for the close only
afterwards; the worker is then `hung`. A worker may die at any time.

### LocalQueue: the server's queue (`webui/jobs.js`)

`mem` are the records in memory, `chain` the promise chain, `cur` and `child` the
running job. One callback of the event loop is one step: there is no await inside
`enqueue`, `cancel`, a timer, or between a child's close and the end of `runJob`.
`strict` is `strictDurableJobsRequired()`: in strict mode an audit append that fails
refuses the operation at the point where the code makes it (`Refusals`), otherwise it
does not. `Restart` is shutdown or crash followed by `hydrateDurableJobs`.

### JobSystem: both over one table

A queued job with a persisted command is on the server's chain and open to every
worker's pull. The module adds no behaviour but the interleaving, and the histories
that follow a worker's child. `green` counts a worker's clean exit only while the worker
owns the row: after a readback that failed in localhost mode the server gives ids out
again, and an old worker's child may exit while its id names another job.

### ApproveRun

One batch at a time. `run.pc` follows the code from boot to end; `scan` is
`countDoc`, one page per step, with `settlePage`'s rule that a page counts only if
its rows differ from the page before and stand still for two reads; page 1 counts as soon as
it has a row, so it may be read short (`ReadFirstPage`). `DatedCells` is what one look at a
document's stamps may give: fewer than there are, none when the read fails. `last` is what `reconcile` reads out of the
audit file: the last stage a **live** row gives each document (`"open"` stands for
the stages before the click). The site is a list, a count of today's stamps per
document, and other people who stamp, withdraw and add documents between any two
steps. A request the site has accepted takes effect before it serves the next page
(the leaf waits 3.5 s; a new process takes longer). The process may be killed at every
step.

### The parts of ServerDuties

* **AuditOutbox.** A drain lists the due rows once; for each it calls the connector
  (the sink may or may not take the event) and marks the row by the answer; anything
  may happen in between. The scheduler's `timer`, `inFlight` and `started` are those of
  the code. Backoff is a boolean that becomes true again.
* **CommandPlan.** One plan, its jobs on the queue in order, the records' version and
  the recipe. A target set is a set of keys and the version of the records it was built
  from, which is what its hash distinguishes. Completions are applied to the plan as it
  is when the job finishes. A job cancelled in the queue, refused or lost in a restart
  never calls `onFinish` (`JobDropped`, `Restart`).
* **BrowserSessions.** `session[j]` is the registry's record of the session of job
  `j`, with its hard end and its last use; `cleanup[j]` the plan the cleanup queue
  holds, `cleaning[c]` what one of its callers is at. `run` and `runNext` may be called at
  any time; a run changes its plan before its first await and hashes it anew at its end, and
  so a second run of that plan is refused (`HashFits`).

### The parts of ServerRequests

* **TenantDeletion.** One request id. `rec` is the stored record, `ex[e].copy` the
  copy an execution works on; each await of the adapter is a step, and the execution's
  `put` replaces whatever the record has become. `issued` remembers every approval.
* **ArtifactTable.** Rows of files of two tenants; a preflight sees the first
  `ListLimit` of them, the tombstoning takes all; `Served` is the read decision.
* **SecretMigration** and **MigrationPhases.** A workflow per tenant and the requests
  answered under an idempotency key. Each request brings refs and a paper of its own.
  The abstract module is the order of phases the workflow promises.
* **FlowFiles.** A post chooses a candidate for a step under review, turns a click into the
  opening of a record (a step under review too), or saves a value (`Editables`). Posts wait
  for each other on `chain`; a write empties the file
  (`torn`) and then fills it; a verify run, outside the chain, reads the flow at its
  start and replaces the file at its end, also under a write that has it open.
* **FlowReplay.** A run from argument checks to asserts, with the policy's answer for
  flow and environment, the gate at `irreversibleAt`, and the request guard, which
  keeps a denial until the next step is checked.
* **RecordSync.** `run.phase` is how far the page on screen has rendered (old rows,
  none, some, all), `Settled` is `waitListSettled`; `Store` and `Mirror` are the two
  transactions. `rows[d].detail` names the document the stored detail came from.
* **WebAccess.** The server settles a request's identity at its head (`pending`), and
  asks what it may do once the body is read, when sessions may have ended and the
  server may have been restarted. A page's cookie is `pages`.
* **Egress.** `operator` is the environment, `record` the system's row, `child` the
  two as a run has taken them. `Gate` is the validation of registration and enqueue,
  `Admits` the check of one request of a run; times are ticks.

## 3. Runs

| Run | States | What it asks |
|---|---|---|
| `store` | 54,000 | Does the table keep ownership, cancels and outcomes under every order of its operations? `TerminalRowIsFinal` and `NoStolenClaim` are about steps. |
| `fleet` | 40,000 | Do workers with crashes and lost messages implement the contract (`StoreContract`), never run a job twice at once, let a cancel win, and stop the child of a job they lost? |
| `queue` | 237,000 | Three jobs on the server's own chain: strict outcomes stay, and the slot always moves on, over watchdog, cancel, refused audits and restarts. |
| `system` | 447,000 | The server and a worker over one table: memory and row agree, an acknowledged cancel sticks, nothing succeeds whose command did not exit with 0, a job is spawned by one side, once. |
| `approve` | 842,000 | Cap, kill switch, at most one document in doubt, audit file against site, and an end to every batch: two batches, two rows per page. |
| `duties` | 70,000 | What goes live was rehearsed, goes live once and is decided; a session that ended is not served again and its cleanup is complete only when it is, and is run by one caller at a time; every audit event settles, once. |
| `requests` | 566,000 | Deletion, artifact reads, migration, flow files, sync, web access, egress and replay: what is let through was approved, admitted and logged in; what is stored is the site's and is kept. |

Two of them show refinements. `StoreContract`: `RunnerFleet` is the detailed
specification, the contract of `JobStore` the abstract one, and the mapping is the
identity on `row` (every step of workers, server and clock is an operation of the
contract or leaves the table alone). `LocalQueue` does **not** implement that contract,
because it saves records without a guard; this is why its properties are checked on
their own, and what the violations below are about. `KeepsPhases`: `SecretMigration`,
with its papers, idempotency store and restarts, implements `MigrationPhases` under the
mapping that keeps the state of each tenant's workflow and forgets the rest (`INSTANCE
MigrationPhases WITH phase <- ...`).

The properties of `requests` and `duties`, in words:

* `DeletionIsHonest`: what an execution may still delete is covered by the very approval
  its caller named, though the request be dry-run and approved anew meanwhile; a
  completed one leaves no bytes of its targets, a rolled-back one all of them but those
  of the target that failed; a tombstone that can be read is true.
* `DeletedIsNotServed`: no later save of a row makes a deleted file readable.
* `ScopeIsCovered`, `KeepsPhases`: a workflow's refs are covered by the approval, later by
  the evidence, it carries; the phases come in order under retries and restarts.
* `EditsSurvive`: concurrent edits do not lose each other's updates.
* `SyncIsTrue`: a sync whose list held still stores every document on it, and a record
  holds the detail and summary of its own document. `NothingIsLost`: neither sync nor
  enrich takes back what the other stored.
* `LiveActIsGated`, `EndedStaysEnded`: a live act was asked for from a page this server
  served, by a role that may; an ended session is let in nowhere.
* `EgressHolds`: a request of a run is vouched for at its own time, and is one the gate
  would pass.
* `ReplayIsGated`: the point of no return is passed only in a permitted and audited play;
  a play that reports success had no request denied before its last check.
* `GoneForGood`, `OverLeavesNothing`, `RunHasItsPlan`: a refused session stays refused;
  a job that is over leaves no open session; complete cleanups have removed everything,
  however often they fail and are run again; and while a run waits for a removal nobody
  else changes its plan.

`AuditAgreesWithSite`: a confirmed document carries a stamp of today, which it got while the
run made its checks, unless the one look at its stamps before the click (`misread`) fell short;
a click that is said not to have gone through did not. Without the exception it is false,
against what approve-run.mjs:294 says of a confirmation: see section 5.

Runs that end in a violation state what the repository says and show where the code
differs:

* `worker_lost_close`: a child that closes during the first heartbeat after its
  spawn is never heard of; the worker heartbeats the dead child's job for ever.
* `timeout_flag_lost`: the heartbeat copies the row over the record in memory, and
  with it a clear `timedOut` over the watchdog's.
* `worker_outcome_overwritten`: the promise chain reaches a job that a worker has
  run, its claim is refused, and `interrupted` is saved over the worker's outcome.
* `approved_without_stamp`: when the page of a departed document cannot be opened,
  reconcile takes it for stamped. In the trace the click never happened and the
  document was withdrawn.
* `recipe_dropped`: a save with egress settings and no recipe makes a recipe of those
  settings alone, and the upsert takes it for the new recipe of the system.

### Bounds

* `store`: three jobs (two of one tenant, one of another; one without a command, one
  that may be tried twice) and three workers: enough for a claim to be contested within
  a tenant, refused across tenants, and retried after reconciliation.
* `fleet`: two workers, two jobs, one of which may be attempted twice. Properties
  relate two workers and one job; the second job lets the order of pulls matter.
* `queue`: three jobs, the middle one without a command, so a restart leaves a gap in
  the chain; strict and non-strict both.
* `system`: two jobs, the server and one worker: the smallest instance in which either
  side may take either job while the other runs one.
* `approve`: two targets and a third row, two rows per page, so that page 1 can be read
  short, two batches (`MaxRuns`), one move of other people (`MaxMoves`), one press of STOP
  (`MaxPresses`). Two batches are what reconcile needs. One target carries an earlier
  stamp of the day, without which a baseline of zero would hide errors, and a baseline read
  short would not matter. The proofs remove these bounds.
* `duties`, plan: one document in two versions, two recipe versions, three jobs
  (`MaxJobs`): a set may change and change back under a rehearsal, and a late dry run may
  be ahead of the live job. The proofs remove these bounds. Sessions: two jobs, of which
  one's session is configured with an idle time, lives of two ticks on a clock of three
  (`Horizon`), two callers of the cleanup queue over two targets, two attempts counted, two plans per
  session, one restart. Outbox: two events, three tries, one stop or crash (`MaxStops`); a
  second drain name exists so that a wrong overlap would be seen.
* `requests`, deletion: two artifacts, two executions (`MaxBegun`) that may overlap,
  three hashes (`MaxHash`), so an approval can be replaced once under a running execution.
  Artifacts: four files of two tenants, two of them in one run with another tenant's, and
  a listing of two rows so that one is beyond it. Migration: three refs of two tenants, one
  key that is resent. Files: two steps, two values, two posts, one verify run. Sync: three
  documents, two rows per page, two pages, two runs, one change of the list; the text of one
  key shows in another's row. Access: four credentials of three roles and two tenants, two
  page cookies, two requests under way, a clock of two. Egress: eight targets of every kind
  the policy tells apart, three environments, five records, four ticks with evidence good for
  two. Replay: every environment, risk class and gate over four journeys.

Deadlock checking is off in `approve`, `duties` and `requests`, whose parts rest when
their bounds are used up or their one request, batch or replay is over.

### Fairness

* `RunnerFleet`: a worker's awaited posts and its heartbeat timer happen
  (`setInterval`, awaits with an answer or an error), and a child that was sent a kill
  ends. A healthy child need not end, nothing need be pulled, no one need crash.
* `LocalQueue`: the promise chain continues, the watchdog's `setTimeout` fires, and so
  does the kill grace. No child needs to exit; `QueueAdvances` holds because the grace
  timer resolves the promise by itself.
* `AuditOutbox`: timers fire, backoffs pass, a stopped scheduler is started again, and
  the connector answers, if only with an error. The last one is an assumption on the
  connector: the worker sets no time limit on the call.
* `CommandPlan`: the job at the head of the queue finishes (`QueueAdvances` above).
* `BrowserSessions`: none. Only the tests create and drive the cleanup queue so far, so
  nothing in `src` says that a cleanup is ever run; its properties are about safety.
* `ApproveRun`: the batch takes its next step, since every wait of the leaf is a loop
  with a limit or a Playwright call with a timeout.
* The parts of `ServerRequests` state no fairness: their properties are about safety.
  In `ServerDuties` each part is fair only where it moves.

## 4. Proofs

`JobStoreProofs` proves, for every set of jobs, workers and tenants and every limit on
attempts, `StoreSpec => []StoreTypeOK`, `[]ActiveRowIsOwned`,
`[]CancelledRowOnlyEnds`, and the action properties `TerminalRowIsFinal` and
`NoStolenClaim`. The only assumption is `StoreAssumption` (ids are numbers,
`NoWorker` is not a worker, limits are positive). The invariant is `StoreInv`: every
row satisfies `RowOK`. Its conjuncts need each other: a cancel is only safe in a claim
because a queued row is never cancelled, and a terminal row is only safe from the
clock because a row that is not active holds no lease, which none of the properties
says. There is one lemma per operator on a row and one step per operation.

`CommandPlanProofs` proves `PlanTypeOK`, `LiveWasRehearsed`, `LiveOnce` and
`OutcomeIsFinal` for any documents, versions, recipes and any number of jobs, from
`PlanAssumption` (the sentinels are not ordinary values). None of them is inductive.
`PlanInv` adds: each job on the queue fits the plan's action and, if live, the plan is
confirmed (`JobOK`); only dry runs have a job behind them (`QueueOK`), since the state
a read or live job leaves the plan in refuses further runs; so the queue is empty when
the plan is settled (`SettledIsIdle`); the number of live runs is one exactly when the
plan is confirmed (`LiveIsConfirmed`); and a dry-run record marked `passed` names a
set some job passed on (`PassedWasRehearsed`).

`SecretMigrationProofs` proves, for any tenants, refs, keys and request bodies,
`MigrationSpec => []MigrationTypeOK`, `[]ScopeIsCovered` and the refinement `MigrationSpec =>
KeepsPhases`. Only the type of a recorded plan needs an assumption (`BodyAssumption`: a
plan's operations have one of the statuses the inventory gives). The invariant is `MigrationInv`: every tenant's workflow keeps its
fields, is in one of its states and has its refs covered (`FlowOK`). One lemma says what
an acceptable request makes of a workflow, action by action, and one that the states it
is acceptable in are those its phase may be left from; the refinement theorem combines
them: an accepted request is `Advance`, a refused or repeated one stutters, a restart is
`Forget`.

`JobSystemProofs` has three parts, each for any jobs and workers.

* *The workers.* The fleet **implements the contract** (`FleetKeepsContract`: `FleetSpec =>
  StoreContract`), and with it, from the theorems of `JobStoreProofs`, outcomes are final and
  claims not stolen under workers; and `[]FleetIsSound`. A step of a worker is an operation
  of the table, or leaves it alone, because a post names the worker's own job, so every
  action maps to one disjunct of `StoreNext`. Soundness needs more: a worker that holds a job
  is still the one its row names (`RowNamesHolder`), *although* its lease may have expired
  and the server have interrupted the job. That is inductive because a row that was claimed
  never goes back to the queue in this code: the server's start-up reconciles without
  `retryStale`. The lemmas say so of each operation (`Onward`); then two runners of one job
  are one.
* *The server's queue.* `QueueSound` (`AckedCancelSticks`, `NoSilentGreen`) and
  `StrictOutcomesStay`. The server is not a client of the contract: it writes whole records
  over rows, so nothing can be had from `JobStoreProofs`. `QueueInv` says per job (`JobOK`)
  what the record in memory may be (`RecordOK`), how record and row differ while the job
  waits, runs and is over (`MemoryOK`), and what a row says of its past (`PastOK`); that ids
  given out lie below the counter (`IdOK`, `IdsAreBounded`); and that the job of the
  slot alone is running, with a child whose row the server holds (`SlotOK`). Most steps write
  one job, and one lemma (`OneJobWritten`) reduces the invariant to that job. That a
  terminal row is final is false of the two together, as `worker_outcome_overwritten` shows;
  without workers it follows from `WaitsInTable`: a job that waits in memory is queued in
  the table, or was canceled there by a request whose audit was refused.
* *Both.* `SystemKeepsOutcomes`, `SystemSound`, `SystemSpawnsOnce`. `SystemInv` is `QueueInv`
  with, per worker, what its own claim entitles it to (`Covered`, `HoldsAJob`). A worker's
  request writes only its own job, and there only what leaves the server's record right
  (`MayWrite`); a step of the server, and one of another worker, spares what a worker relies
  on (`Spares`). The first attempt, with `green` counting every clean exit of a worker's
  child, failed on the reused ids described under *JobSystem*.

`ApproveRunProofs` proves `BatchBounded`, `AuditIsTrue` and `KillSwitch` for any documents,
lists, page sizes, caps and numbers of batches and kills, assuming only that documents and
other items are finite in number and distinct, and that a batch names documents.
`ApproveInv` adds to the three properties what each phase knows (`PhaseOK`); that a click is
counted before it is issued and the cap not spent when a document is opened (`CapOK`); that at most one document is at `clicked`, which the next
live batch settles before it clicks, or which is the one in hand (`DoubtOK`); that what the
site decided on is off the list for good, and a stamp beyond the baseline was put there since or
missed by it (`SiteOK`), which makes both verdicts of a scan true whenever they are given,
however the list moves under the scan and however short its pages are read; and where a batch stands that has clicked once since STOP (`StopOK`).

`ServerDutiesProofs` proves `[]OutboxIsSound`, `[]OverLeavesNothing`, `GoneForGood` and
`RunHasItsPlan` for any number of events, drains, tries, sessions, targets and callers, and puts them
together with the plan's theorems: `DutiesSpec` implements the specification of each part
(the outbox without its fairness), so all of it holds of the whole (`DutiesSound`,
`DutiesFinal`). `OutboxInv` keeps the books: what the sink received of an event is the
answers that were lost, plus one if it is marked delivered, plus one if the drain has the
answer in hand (`Accounted`); rows a drain has listed are as it listed them, since only
the scheduler's drain is under way (`DrainOK`); an open row has a try left (`TriesOK`).
`BrowserInv`: what a cleanup calls done *is* removed; a run is alone at its plan, which is
not over, and one that has seen no failure has done every target it walked past (`RunOK`).

`RequestGateProofs` is about what the server lets through. `[](AccessTypeOK /\
LiveActIsGated)` and `EndedStaysEnded` hold for any users, sessions, pages and requests;
all that the invariant adds is that what is pending was let in as a change. `ReplayIsGated`
holds for a flow of **any length**: the invariant says which steps have taken effect
(`Behind`), that past the gate the commit is in the audit and the run is a play that passed
its checks (`CommitAudited`), and that a denial before the last check is still there for
that check to find (`DenialFound`). `EgressHolds` is inductive with its types; the work is in
the operators: a run's own settings only ever add to what the gate asked for
(`RunAsksMore`), and evidence that two sources merge is no fresher than either.
`ReplayAssumption` and `EgressAssumption` say what flows, records and evidence are.

`ServerRequestsProofs` is about what the server keeps.

* `TableSound`: for any files and listing limit, what was deleted is a tombstone and stays
  one, whatever is saved later.
* `FilesSound`: with any number of posts, edits survive. Only the head of the chain has a
  file open (`ChainOK`, `ReadIsCurrent`); what it read satisfies every edit that was answered;
  a torn file is being written, or nothing is claimed of it (`TornIsKnown`).
* `DeletionSound`: every approval a record, or an execution's copy of it, carries was issued
  for that scope and tenant (`ApprovalIsIssued`), however the copies overwrite each other;
  and while no two executions have overlapped, the bytes are what the one under way found,
  less what it has removed (`Accounts`), and a tombstone was true before it began.
* `SyncSound` and `SyncKeeps`: for any list, page size, number of pages and patience. The core
  is `SettledIsTarget`: whatever a page shows while it renders, what `waitListSettled` takes
  is the page that was asked for, since what was read last can only be what the present phase
  has shown (`Settling`). While the list stands still the pages gathered are its first pages
  (`RunKnows`), and the pages of a list cover it (`PagesCover`).
* `RequestsImplementParts`, `RequestsSound`, `RequestsKeep`: as above, `RequestsSpec`
  implements each part, so that every invariant and action property of the `requests` run
  holds of it for all constants.

The assumptions on constants are the `ASSUME`s of the modules: kinds of values, limits that
are numbers, and, for `FlowReplay`, `Egress`, `TenantDeletion` and `SecretMigration`, the shape of
the flows, records, scopes and bodies the code parses. `RecordSync` needs one on the site's
rendering, which is in its `Renders` rather than in an `ASSUME`: a page that has rows is blank
for fewer than `EmptyReads` reads in a row, and half rendered for one.

Only model-checked: liveness, for which `TLAPS` has no support under fairness (`QueueAdvances`,
`RunEnds`, `EveryEventSettles`, `QueuedIsDecided`, `LostJobStopsChild`). Every
invariant and every action property of a passing run is the property of a theorem, or a
conjunct of one.

## 5. What is not modelled, and known gaps of the code

Left out of the modelled parts: errors of database writes, pruning of finished
records and the limit on them, display fields, labels, logs and the events table, the
hash chain of `job_audit`, subscribers, signed runner headers, HTTP shapes, the graceful
stop of a recording; in `ApproveRun` the fail-soft copy of an outcome into
`approvals`/`records`, torn lines of the audit file, a page after the first that is half
rendered for two reads in a row (it would be taken for the page, which makes a document look
gone), the reading of the approver's name, a batch that runs past midnight, two
batches at once, and the individual guards, each of which is a choice to pass, skip or
fail; in `BrowserSessions` names of directories and displays; in `FlowFiles` recording
and removing a flow; in `FlowReplay` locators and values, each a step that works or does
not; in `RecordSync` selectors and prompts; in `Egress` the parsing of URLs, names and
ranges, which are sets here; in `WebAccess` token signatures and the routes one by one,
which are a few that differ in what they ask for.

What is one step in a model and two in the code, and what a model does not follow:

* `LocalQueue.Finish` ends a job with its save and the outcome's audit in one step, as the
  code does in one synchronous callback (`jobs.js:886-903`). A crash between the two saves
  leaves what a `Restart` after the first disjunct of `Finish` leaves.
* A worker's child outlives a worker that dies (`runner-worker.mjs:345`). It writes no row and
  is heard of by nobody, so it is in no state of `RunnerFleet`; `LostJobStopsChild` and
  `OneRunnerPerJob` speak of the children of living workers, while `SpawnedByOne` counts every
  start.
* `BrowserSessions.CleanTargetOf` checks that a target is not done and removes it in one step:
  a plan has one run, so nothing happens in between (`RunHasItsPlan`).

Components left out altogether, with the reason, are in `PROJECT.json`: secret stores
(encryption and file I/O), the declarative runner contract and capture validators (no
state; the transitions they declare are those of `JobStore`), recording and one-shot
scripts, reports and release checks (read-only), HTTP plumbing and the front end
(presentation), container and host setup.

Behaviour the models contain and no property forbids, because no code or document
promises otherwise, or because a property excepts it by name:

* The stamps before a click are read once, after a fixed wait, and an error counts as none
  (approve-run.mjs:268 and 153). Where that read falls short, an earlier stamp of the day
  passes for the new one after the click: a document whose click the site never took, and
  which was withdrawn or is on a list page read short, is recorded as confirmed, though line
  294 requires a stamp
  "absent-before/present-after". `AuditAgreesWithSite` excepts these documents by name.
* Nothing but the tests runs the cleanup queue, and a plan that has failed `maxAttempts` times is
  only tried again by name.
* Nothing in a running server reconciles stale leases: a job whose worker died, or whose
  completion was lost, waits for the next restart, which interrupts it.
* A plan whose job was dropped (cancelled in the queue, refused, lost in a restart)
  stays `queued`; `QueuedIsDecided` excepts it by name. The recipe is verified when the
  live job is queued, and read again by the leaf without a check.
* The server builds its outbox scheduler without a connector, so every delivery fails
  until the event is dead-lettered.
* Requesting another batch, even a dry one, removes the kill switch for the batch that
  is still running. The comment above `/api/approve/stop` says that the leaf clears it
  at start-up; the leaf refuses to start instead and the route clears it.
* A localhost start whose readback fails begins at job id `j1` again.
* Two executions of one deletion request may overlap: one may restore what the other
  removed and reported, and a completed deletion may be run again. `EndsAllOrNothing` and
  `TombstoneIsTrue` except overlaps; `DeletesWhatWasNamed` does not.
* The retention preflight looks for holds in the first 1000 artifact rows only.
* A verify run rewrites `flow.json` from what it read at its start, outside the write lock,
  and so takes back edits made meanwhile; a values file torn by a crash reads as empty.
* A job that fails before its spawn never calls `onFinish`: its browser session stays open
  to the hard limit.
* Records upserted by a run whose system was removed meanwhile stay without a system.
* Logouts are forgotten in a restart, a session configured with only a time to live begins
  anew at every request, a request already let in completes after the logout, and a log
  stream outlives its session.
* A run judges its requests by the record and settings it started with.

## 6. Plan

Done: the job system, audit outbox, command plans, the live-run leaf, browser sessions,
deletion and retention, secret migration, flow files and replay, registry and sync,
egress, web access; and the proofs of their invariants and action properties.

What is left, in this order:

1. `ApproveRun`: an orphaned batch next to its successor, torn audit lines, and midnight;
   then the proofs again, with the cap and the document in doubt per batch.
2. `FlowFiles`: several flows, recording one and removing one.
3. `JobSystem`: a refinement by which a client of the queue sees one job table that each job
   passes through once, implemented by server and workers in strict mode.
4. The step from the liveness properties to what can be proved of them without fairness: that
   each measure they rest on (tries left, pages left, jobs in the chain) never grows back.
