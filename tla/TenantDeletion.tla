--------------------------- MODULE TenantDeletion ---------------------------
(***************************************************************************)
(* Tenant deletion requests: dry run, approval, execution with cleanup and *)
(* rollback, tombstone (webui/tenant-deletion*.js, webui/retention.js).    *)
(*                                                                         *)
(* One request id.  Its record is in a store whose get and put copy, so an *)
(* execution works on the record as it was when it began and puts that     *)
(* copy back at its end, over whatever other requests have written since.  *)
(* An execution awaits the adapter once for each artifact; between two     *)
(* such awaits it is one step.                                             *)
(*                                                                         *)
(* A manifest's hash is a number that no other manifest has.  The adapter  *)
(* that removes and restores bytes is external.                            *)
(***************************************************************************)
EXTENDS Naturals, FiniteSets, FiniteSetsExt

CONSTANTS
  Artifact,     (* artifacts; the order is that of the cleanup              *)
  Tenant,
  OwnerOf,      (* the tenant of each artifact                              *)
  Executor,     (* concurrent execute or retry requests                     *)
  Scope,        (* what a dry run may be asked to delete                    *)
  MaxHash,      (* bound: dry runs and approvals                            *)
  MaxBegun      (* bound: executions                                        *)

ASSUME DeletionAssumption ==
  /\ Artifact \subseteq Nat /\ IsFiniteSet(Artifact)
  /\ OwnerOf \in [Artifact -> Tenant]
  /\ \A s \in Scope : s.arts \subseteq Artifact
  /\ MaxHash \in Nat /\ MaxBegun \in Nat

VARIABLES
  rec,      (* the stored record of the request                             *)
  hash,     (* hashes given out                                             *)
  ex,       (* executions under way                                         *)
  adapter,  (* what cleanup adapter the API was built with                  *)
  bytes,    (* artifacts whose bytes exist                                  *)
  issued,   (* history: every approval manifest handed out                  *)
  overlap,  (* history: two executions have been under way at once          *)
  begun     (* the number of executions                                     *)

deletionVars == <<rec, hash, ex, adapter, bytes, issued, overlap, begun>>

-----------------------------------------------------------------------------
RequestStatus == {"dry-run-ready", "blocked", "approved", "approval-blocked",
                  "partial-failure", "completed"}
AttemptStatus == {"completed", "partial-failure", "blocked"}
Adapter       == {"none", "unfit", "fit"}

NoApproval == [hash |-> 0, dry |-> 0, allowed |-> FALSE]
NoScope    == [named |-> FALSE, arts |-> {}, meta |-> <<>>, items |-> {}]
NoRecord   == [status |-> "absent", tenant |-> "none", scope |-> NoScope, dry |-> 0,
               blocked |-> TRUE, approval |-> NoApproval, tried |-> {}, tombstone |-> FALSE]
Rest       == [pc |-> "idle", copy |-> NoRecord, named |-> 0, had |-> {}, todo |-> {},
               done |-> {}, failed |-> {}, undoFailed |-> FALSE, result |-> "none"]

\* What blocks a deletion before anything is touched: a scope entry of another
\* tenant or of none, a hold, and what its class says.
EntryBlocked(i, t) ==
  \/ i.tenant # t
  \/ i.hold
  \/ i.class = "job" /\ i.state \in {"queued", "claimed", "running", "canceling"}
  \/ i.class = "browser" /\ i.state \in {"open", "teardown-pending"}
  \/ i.class = "secret" /\ i.state = "undeletable"
  \/ i.class = "export" /\ i.state = "active"

ArtifactBlocked(a, m, t) == OwnerOf[a] # t \/ m.hold

PreflightBlocks(s, t) ==
  \/ ~s.named
  \/ \E i \in s.items : EntryBlocked(i, t)
  \/ \E a \in s.arts : ArtifactBlocked(a, s.meta[a], t)

\* What only the orchestrator looks at: paths, hashes, and an adapter if it needs one.
NeedsBytes(s, a) == ~s.meta[a].tombstone
TargetsBlock(s) ==
  \/ \E a \in s.arts : ~s.meta[a].safePath \/ ~s.meta[a].sha
  \/ adapter = "none" /\ \E a \in s.arts : NeedsBytes(s, a)

-----------------------------------------------------------------------------
\* A dry run replaces the record of its request id, whoever made that record.
DryRun(t, s) ==
  /\ hash < MaxHash
  /\ hash' = hash + 1
  /\ rec' = [NoRecord EXCEPT
       !.status  = IF PreflightBlocks(s, t) THEN "blocked" ELSE "dry-run-ready",
       !.tenant  = t,
       !.scope   = s,
       !.dry     = hash',
       !.blocked = PreflightBlocks(s, t)]
  /\ UNCHANGED <<ex, adapter, bytes, issued, overlap, begun>>

\* The route and loadRecord hide a record from every tenant but its own.
Found(t) == rec.status # "absent" /\ rec.tenant = t

ApprovalFor(r, said, h) ==
  [hash |-> h, dry |-> r.dry, allowed |-> said /\ ~r.blocked]

\* The approver's decision; no status of the request is excluded.
Approve(t, said) ==
  /\ Found(t)
  /\ hash < MaxHash
  /\ hash' = hash + 1
  /\ LET a == ApprovalFor(rec, said, hash')
     IN  /\ rec' = [rec EXCEPT !.approval = a,
                      !.status = IF a.allowed THEN "approved" ELSE "approval-blocked"]
         /\ issued' = issued \cup {[approval |-> a, scope |-> rec.scope, tenant |-> t]}
  /\ UNCHANGED <<ex, adapter, bytes, overlap, begun>>

\* Wrong variant: the hash the caller supplied is not compared.
VerifiedUnnamed(r, h) == r.approval.allowed /\ r.approval.dry = r.dry

\* The approval is allowed, is the one the caller names, and is of this dry run.
ApprovalVerified(r, h) ==
  /\ r.approval.allowed
  /\ h = r.approval.hash
  /\ r.approval.dry = r.dry

Executable(t) == Found(t) /\ rec.status # "completed"

\* Refused at once: no verified approval, or an adapter the API does not accept.
Refuse(t, h) ==
  /\ Executable(t)
  /\ ~ApprovalVerified(rec, h) \/ adapter = "unfit"
  /\ rec' = [rec EXCEPT !.status = "blocked", !.tried = @ \cup {"blocked"}]
  /\ UNCHANGED <<hash, ex, adapter, bytes, issued, overlap, begun>>

\* Where an execution is when nothing is left to clean up.
AfterClean(todo) == IF todo = {} THEN "end" ELSE "clean"
AfterUndo(done)  == IF done = {} THEN "end" ELSE "undo"

\* The preflight and the targets are computed from the record's own scope.
Begin(e, t, h) ==
  /\ ex[e].pc = "idle" /\ begun < MaxBegun
  /\ Executable(t)
  /\ ApprovalVerified(rec, h)
  /\ adapter # "unfit"
  /\ LET s      == rec.scope
         blocks == PreflightBlocks(s, t) \/ TargetsBlock(s)
     IN  ex' = [ex EXCEPT ![e] = [Rest EXCEPT
           !.pc     = IF blocks THEN "end" ELSE AfterClean(s.arts),
           !.copy   = rec,
           !.named  = h,
           !.had    = bytes,
           !.todo   = IF blocks THEN {} ELSE s.arts,
           !.result = IF blocks THEN "blocked" ELSE "completed"]]
  /\ overlap' = (overlap \/ \E d \in Executor \ {e} : ex[d].pc # "idle")
  /\ begun' = begun + 1
  /\ UNCHANGED <<rec, hash, adapter, bytes, issued>>

\* A retry is an execution that names an attempt that has failed.
Retry(e, t, h) == rec.tried \cap {"partial-failure", "blocked"} # {} /\ Begin(e, t, h)

-----------------------------------------------------------------------------
Cleaned(e, a) ==
  ex' = [ex EXCEPT ![e].todo = @ \ {a},
                   ![e].done = @ \cup {a},
                   ![e].pc   = AfterClean(ex[e].todo \ {a})]

\* The adapter's answer for the next target: removed; refused; or an error, or an
\* admission of having read the bytes, although they are removed.
CleanTarget(e) ==
  /\ ex[e].pc = "clean"
  /\ LET a == Min(ex[e].todo)
     IN  IF ~NeedsBytes(ex[e].copy.scope, a)
         THEN Cleaned(e, a) /\ UNCHANGED bytes
         ELSE \/ Cleaned(e, a) /\ bytes' = bytes \ {a}
              \/ /\ ex' = [ex EXCEPT ![e].failed = {a},
                                     ![e].result = "partial-failure",
                                     ![e].pc     = AfterUndo(ex[e].done)]
                 /\ bytes' \in {bytes, bytes \ {a}}
  /\ UNCHANGED <<rec, hash, adapter, issued, overlap, begun>>

Undone(e, a, ok) ==
  ex' = [ex EXCEPT ![e].done       = @ \ {a},
                   ![e].undoFailed = @ \/ ~ok,
                   ![e].pc         = AfterUndo(ex[e].done \ {a})]

\* Completed targets are restored in reverse, one adapter call each, also those
\* that were tombstones.  An adapter may fail at it, or not have the operation at all;
\* it restores only what this execution removed.
UndoTarget(e) ==
  /\ ex[e].pc = "undo"
  /\ LET a    == Max(ex[e].done)
         back == IF NeedsBytes(ex[e].copy.scope, a) /\ a \in ex[e].had
                 THEN bytes \cup {a} ELSE bytes
     IN  \/ Undone(e, a, TRUE) /\ bytes' = back
         \/ Undone(e, a, FALSE) /\ bytes' \in {bytes, back}
  /\ UNCHANGED <<rec, hash, adapter, issued, overlap, begun>>

\* What the execution's own copy of the record becomes.
Outcome(x) ==
  [x.copy EXCEPT !.status    = x.result,
                 !.tried     = @ \cup {x.result},
                 !.tombstone = @ \/ x.result = "completed"]

Finish(e) ==
  /\ ex[e].pc = "end"
  /\ rec' = Outcome(ex[e])
  /\ ex' = [ex EXCEPT ![e] = Rest]
  /\ UNCHANGED <<hash, adapter, bytes, issued, overlap, begun>>

-----------------------------------------------------------------------------
DeletionInit ==
  /\ rec = NoRecord
  /\ hash = 0
  /\ ex = [e \in Executor |-> Rest]
  /\ adapter \in Adapter
  /\ bytes = Artifact
  /\ issued = {}
  /\ overlap = FALSE /\ begun = 0

DeletionRequest(t) ==
  \/ \E s \in Scope : DryRun(t, s)
  \/ \E said \in BOOLEAN : Approve(t, said)
  \/ \E h \in 0 .. hash : Refuse(t, h)
  \/ \E e \in Executor, h \in 0 .. hash : Begin(e, t, h) \/ Retry(e, t, h)

DeletionNext ==
  \/ \E t \in Tenant : DeletionRequest(t)
  \/ \E e \in Executor : CleanTarget(e) \/ UndoTarget(e) \/ Finish(e)

DeletionSpec == DeletionInit /\ [][DeletionNext]_deletionVars

-----------------------------------------------------------------------------
Record == [status: RequestStatus \cup {"absent"}, tenant: Tenant \cup {"none"},
           scope: Scope \cup {NoScope}, dry: Nat, blocked: BOOLEAN,
           approval: [hash: Nat, dry: Nat, allowed: BOOLEAN],
           tried: SUBSET AttemptStatus, tombstone: BOOLEAN]

\* Every variable has its type.
DeletionTypeOK ==
  /\ rec \in Record
  /\ hash \in 0 .. MaxHash
  /\ adapter \in Adapter
  /\ bytes \subseteq Artifact
  /\ overlap \in BOOLEAN /\ begun \in 0 .. MaxBegun
  /\ \A e \in Executor :
       /\ ex[e].pc \in {"idle", "clean", "undo", "end"}
       /\ ex[e].copy \in Record
       /\ (ex[e].pc = "clean") = (ex[e].todo # {} /\ ex[e].failed = {})
       /\ ex[e].result \in AttemptStatus \cup {"none"}

\* The approval with hash h covers the deletion of artifact a.
ApprovalCovers(h, a) ==
  \E i \in issued :
    /\ i.approval.hash = h
    /\ i.approval.allowed
    /\ a \in i.scope.arts
    /\ i.tenant = OwnerOf[a]

\* What an execution may still delete is covered by the very approval its caller
\* named, although the request may have been dry-run and approved anew, by anyone,
\* before and while it runs.
DeletesWhatWasNamed ==
  \A e \in Executor : \A a \in ex[e].todo : ApprovalCovers(ex[e].named, a)

\* An execution that ends in a partial failure with every rollback reported done
\* leaves all bytes as they were, but for the target that failed; one that ends
\* completed leaves none of its targets' bytes.  (Executions that overlap break both:
\* one restores what the other removed.)
EndsAllOrNothing ==
  \A e \in Executor :
    LET x       == ex[e]
        targets == {a \in x.copy.scope.arts : NeedsBytes(x.copy.scope, a)}
    IN  x.pc = "end" /\ ~overlap =>
          /\ x.result = "completed" => targets \cap bytes = {}
          /\ x.result = "partial-failure" /\ ~x.undoFailed =>
               bytes \cup x.failed = x.had \cup x.failed

\* A request whose tombstone can be read has deleted its scope.
TombstoneIsTrue ==
  rec.tombstone /\ ~overlap =>
    \A a \in rec.scope.arts : NeedsBytes(rec.scope, a) => a \notin bytes

\* A deletion removes what its caller was approved to remove, all of it or nothing, and
\* says so: the three above, over requests that are dry-run, approved and executed at
\* once.
DeletionIsHonest == DeletesWhatWasNamed /\ EndsAllOrNothing /\ TombstoneIsTrue

=============================================================================
