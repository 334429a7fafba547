---------------------------- MODULE ArtifactTable ----------------------------
(***************************************************************************)
(* The artifact rows of lib/db.js (webui_artifacts), the deletions on them *)
(* and the decision to serve a file (webui/retention.js).  Every operation *)
(* is synchronous, so it is one step.                                      *)
(***************************************************************************)
EXTENDS Naturals, FiniteSets

CONSTANTS
  ArtifactFile,  (* files, each of one tenant and one run; the order is by row id *)
  TenantOfFile,
  RunOfFile,
  Reader,        (* the tenants that ask for files                          *)
  ListLimit      (* rows a listing has at most (1000 in the code)             *)

ASSUME TableAssumption ==
  /\ ArtifactFile \subseteq Nat
  /\ \A f \in ArtifactFile : TenantOfFile[f] \in Reader
  /\ ListLimit \in Nat \ {0}

VARIABLES
  art,       (* the row of each file                                        *)
  busy,      (* tenants with an active job in the job table                 *)
  deleted    (* history: files that have been tombstoned                    *)

tableVars == <<art, busy, deleted>>

-----------------------------------------------------------------------------
ArtifactRow == [state: {"absent", "live", "tombstone"}, hold: BOOLEAN]

Rows(run)   == {f \in ArtifactFile : RunOfFile[f] = run /\ art[f].state # "absent"}
LiveRows(t) == {f \in ArtifactFile : TenantOfFile[f] = t /\ art[f].state = "live"}

\* A listing has the first rows by id.
FirstRows(S) == {f \in S : Cardinality({g \in S : g < f}) < ListLimit}

\* The upsert renews what a run reports, but a tombstone stays one (COALESCE); what
\* is saved is never deleted already (recordJobArtifacts gives no deletedAt).
Upserted(r, held) ==
  [state |-> IF r.state = "tombstone" THEN "tombstone" ELSE "live", hold |-> held]

SaveArtifact(f, held) ==
  /\ art' = [art EXCEPT ![f] = Upserted(@, held)]
  /\ UNCHANGED <<busy, deleted>>

Tombstone(S) ==
  /\ art' = [f \in ArtifactFile |-> IF f \in S THEN [art[f] EXCEPT !.state = "tombstone"] ELSE art[f]]
  /\ deleted' = deleted \cup S

\* One artifact, by its id; another tenant's is "not found", a tombstone is left alone.
TombstoneArtifact(t, f) ==
  /\ f \in LiveRows(t)
  /\ Tombstone({f})
  /\ UNCHANGED busy

\* The live rows a preflight looks at.
Listed(t) == FirstRows(LiveRows(t))

PreflightAllows(t) == t \notin busy /\ \A f \in Listed(t) : ~art[f].hold

\* All of a tenant's artifacts in one transaction, after a preflight on the listing.
TombstoneTenant(t) ==
  /\ PreflightAllows(t)
  /\ Tombstone(LiveRows(t))
  /\ UNCHANGED busy

JobsMove(t) ==
  /\ busy' \in {busy \cup {t}, busy \ {t}}
  /\ UNCHANGED <<art, deleted>>

-----------------------------------------------------------------------------
\* Wrong variant: tombstones are not listed, so a run of tombstones has no rows.
ServedUnlisted(t, f, external) ==
  LET rows == {g \in Rows(RunOfFile[f]) : art[g].state = "live"}
  IN  IF rows = {} THEN ~external
      ELSE f \in FirstRows(rows) /\ TenantOfFile[f] = t

\* artifactReadDecision: a run without any row is served in the local pilot only;
\* otherwise the reader's tenant must have a live row for this very path, among the
\* rows listed of the run.
Served(t, f, external) ==
  LET rows == Rows(RunOfFile[f])
  IN  IF rows = {} THEN ~external
      ELSE f \in FirstRows(rows) /\ TenantOfFile[f] = t /\ art[f].state # "tombstone"

TableInit ==
  /\ art = [f \in ArtifactFile |-> [state |-> "absent", hold |-> FALSE]]
  /\ busy = {}
  /\ deleted = {}

TableNext ==
  \/ \E f \in ArtifactFile, held \in BOOLEAN : SaveArtifact(f, held)
  \/ \E t \in Reader :
       \/ \E f \in ArtifactFile : TombstoneArtifact(t, f)
       \/ TombstoneTenant(t)
       \/ JobsMove(t)

TableSpec == TableInit /\ [][TableNext]_tableVars

-----------------------------------------------------------------------------
TableTypeOK ==
  /\ art \in [ArtifactFile -> ArtifactRow]
  /\ busy \subseteq Reader
  /\ deleted \subseteq ArtifactFile

\* A file that was ever deleted is served to nobody, in no mode, whatever rows a
\* run saves afterwards.
DeletedIsNotServed ==
  \A f \in deleted, t \in Reader, external \in BOOLEAN : ~Served(t, f, external)

=============================================================================
