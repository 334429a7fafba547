------------------------------ MODULE ApproveRun ------------------------------
(***************************************************************************)
(* The leaf that commits decisions on a web site: approve/approve-run.mjs  *)
(* with the verdicts of approve/guards.mjs.  One batch at a time works     *)
(* through its targets: find the document on the paged list, open it,      *)
(* check it, write "clicked" to the audit file, click, and verify that the *)
(* document left the list with a new stamp.  A live batch first settles    *)
(* the documents an earlier one left at "clicked".                         *)
(*                                                                         *)
(* The fail-soft copy of an outcome into the local database is left out;   *)
(* the audit file is the record of truth.                                  *)
(*                                                                         *)
(* The site moves by itself: other people stamp documents, take them off   *)
(* the list or add some, also between the reading of two pages.  A request *)
(* the site accepted takes effect before it answers the next one.          *)
(***************************************************************************)
EXTENDS Integers, Sequences, SequencesExt, FiniteSetsExt

CONSTANTS
  Doc,        (* documents a batch may target                               *)
  Other,      (* further documents that come and go on the list             *)
  NoDoc,
  PageSize,   (* rows of a list page                                        *)
  EarlierStamp, (* documents that carry a stamp of today from the start     *)
  Batch,      (* the target lists a run may be given                        *)
  MaxRuns,    (* bound on batches                                           *)
  MaxMoves,   (* bound on what other people do                              *)
  MaxPresses  (* bound on presses of the kill switch                        *)

ASSUME ApproveAssumption ==
  /\ IsFiniteSet(Doc \cup Other) /\ Doc \cap Other = {} /\ NoDoc \notin Doc \cup Other
  /\ PageSize \in Nat \ {0} /\ EarlierStamp \subseteq Doc
  /\ Batch \subseteq Seq(Doc) \ {<<>>}
  /\ MaxRuns \in Nat /\ MaxMoves \in Nat /\ MaxPresses \in Nat

VARIABLES
  inbox,      (* the site's list, in display order                          *)
  stamps,     (* cells dated today on each document's page                  *)
  last,       (* audit file: the last stage a LIVE row gives a document     *)
  stop,       (* the kill-switch file exists                                *)
  run,        (* the process and its variables                              *)
  scan,       (* countDoc's variables                                       *)
  runs, moves, presses,
  committed,  (* history: documents our clicks were accepted for            *)
  backed,     (* history: documents stamped after Init, by us or others     *)
  misread,    (* history: documents whose stamps the live run in hand read  *)
              (* short before its click                                     *)
  issued,     (* history: clicks of the batch                               *)
  late        (* history: clicks since STOP was pressed                     *)

pageVars == <<inbox, stamps, committed, backed>>
siteVars == <<pageVars, misread>>
vars == <<inbox, stamps, last, stop, run, scan, runs, moves, presses,
          committed, backed, misread, issued, late>>
clickVars == <<issued, late>>

-----------------------------------------------------------------------------
Uncertain == -1   (* countDoc could not read the whole list                  *)
Thrown    == -2   (* countDoc threw                                          *)

Verdict == {"confirmed", "failed", "reconciled-approved", "reconciled-failed",
            "reconcile-uncertain", "reconcile-error"}
\* "open" stands for requested, identity_ok and amount_ok.
Stage == Verdict \cup {"none", "open", "skipped", "clicked"}

Pc == {"off", "queued", "reconcile", "target", "scan", "settle", "open",
       "guards", "modal", "confirm", "reopen", "verify"}

RunRecord == [pc: Pc, live: BOOLEAN, max: Nat, todo: Seq(Doc), cur: Doc \cup {NoDoc},
              stranded: SUBSET Doc, clicks: Nat, base: Nat, stamped: BOOLEAN]

Off == [pc |-> "off", live |-> FALSE, max |-> 0, todo |-> <<>>, cur |-> NoDoc,
        stranded |-> {}, clicks |-> 0, base |-> 0, stamped |-> FALSE]

ScanRecord == [next: Pc, page: Nat, pages: Nat, total: Nat \cup {Uncertain, Thrown},
               found: Nat, sig: Seq(Doc \cup Other), shown: Seq(Doc \cup Other)]

NoScan == [next |-> "off", page |-> 0, pages |-> 0, total |-> 0, found |-> 0,
           sig |-> <<>>, shown |-> <<>>]

\* Audit rows of a dry run carry live: false and are ignored by reconcile.
Audit(d, stage) == last' = IF run.live THEN [last EXCEPT ![d] = stage] ELSE last

\* Wrong variant: the target stays on the list.
NextTargetAgain == [run EXCEPT !.pc = "target", !.cur = NoDoc, !.base = 0, !.stamped = FALSE]

NextTarget == [run EXCEPT !.pc = "target", !.todo = Tail(@), !.cur = NoDoc,
                          !.base = 0, !.stamped = FALSE]

\* The catch of the target loop: the document fails and the batch goes on.
Fail == Audit(run.cur, "failed") /\ run' = NextTarget

-----------------------------------------------------------------------------
(* countDoc: read the list page by page.                                    *)

Pages(list) == IF list = <<>> THEN 1 ELSE (Len(list) + PageSize - 1) \div PageSize
Page(p) == SubSeq(inbox, (p - 1) * PageSize + 1, Min({p * PageSize, Len(inbox)}))
OnPage(d, p) == Contains(Page(p), d)

StartScan(d, next, r) ==
  /\ run' = [r EXCEPT !.pc = "scan", !.cur = d]
  /\ scan' = [NoScan EXCEPT !.next = next]

\* Rows of page p were read and counted while the site showed the rows `shown`;
\* the scan ends with the last page.
ScanRead(p, pages, rows, shown) ==
  LET hit == IF Contains(rows, run.cur) THEN 1 ELSE 0
      end == p = pages IN
  /\ scan' = [scan EXCEPT !.page = p, !.pages = pages, !.total = @ + hit,
                          !.sig = rows, !.shown = shown,
                          !.found = IF @ = 0 /\ hit = 1 THEN p ELSE @]
  /\ run' = IF end THEN [run EXCEPT !.pc = scan.next] ELSE run

\* Page 1 is read as soon as it has a row, be it only the first of several.
ReadFirstPage ==
  /\ scan.page = 0
  /\ \E rows \in Prefixes(Page(1)) :
       (rows = <<>> => Page(1) = <<>>) /\ ScanRead(1, Pages(inbox), rows, Page(1))

\* A later page counts once the rows differ from those read last and stay the
\* same for two reads (settlePage).  They may still be those of the page before,
\* when that one was read short.
ReadLaterPage ==
  /\ scan.page > 0
  /\ \E rows \in {Page(scan.page + 1), scan.shown} \ {scan.sig} :
       ScanRead(scan.page + 1, scan.pages, rows, rows)

\* The list did not load or settle, its pager was not to be trusted, or the
\* browser threw.
ScanGivesUp ==
  /\ \E total \in {Uncertain, Thrown} : scan' = [scan EXCEPT !.total = total, !.found = 0]
  /\ run' = [run EXCEPT !.pc = scan.next]

\* The number of pages is read with page 1.  An empty page is read, if the site
\* shows a row saying so, or never settles (ScanGivesUp).
ScanPage ==
  /\ run.pc = "scan"
  /\ ScanGivesUp \/ ReadFirstPage \/ ReadLaterPage
  /\ UNCHANGED <<siteVars, last, stop, runs, moves, presses, clickVars>>

-----------------------------------------------------------------------------
(* Starting a batch.                                                        *)

\* POST /api/approve/run removes STOP before it queues the batch; a command plan
\* queues its batch and leaves STOP alone.
Enqueue ==
  /\ run.pc = "off" /\ runs < MaxRuns
  /\ \E targets \in Batch, live, clear \in BOOLEAN :
     \E max \in 1 .. Len(targets) :
       /\ run' = [Off EXCEPT !.pc = "queued", !.live = live, !.todo = targets,
                             !.max = IF live THEN max ELSE 0]
       /\ stop' = (stop /\ ~ clear)
       /\ late' = IF clear THEN 0 ELSE late
  /\ runs' = runs + 1 /\ issued' = 0
  /\ UNCHANGED <<siteVars, last, scan, moves, presses>>

StrandedDocs == {d \in Doc : last[d] = "clicked"}

\* A batch refuses to start under STOP; a live one reconciles first.
Boot ==
  /\ run.pc = "queued"
  /\ run' = IF stop THEN Off
            ELSE IF run.live
            THEN [run EXCEPT !.pc = "reconcile", !.stranded = StrandedDocs]
            ELSE [run EXCEPT !.pc = "target"]
  /\ UNCHANGED <<siteVars, last, stop, scan, runs, moves, presses, clickVars>>

-----------------------------------------------------------------------------
(* reconcile                                                                *)

ReconcileNext ==
  /\ run.pc = "reconcile"
  /\ \/ run.stranded = {} /\ run' = [run EXCEPT !.pc = "target"] /\ UNCHANGED scan
     \/ \E d \in run.stranded : StartScan(d, "settle", run)
  /\ UNCHANGED <<siteVars, last, stop, runs, moves, presses, clickVars>>

\* When the document left the list its page is asked once for a stamp of the
\* click's day: a page that cannot be opened counts as if it had one, one whose
\* cells are not read, or not all of them, as if it had none.
ReconcileVerdicts(total) ==
  CASE total = Thrown    -> {"reconcile-error"}
    [] total = Uncertain -> {"reconcile-uncertain"}
    [] total > 0         -> {"reconciled-failed"}
    [] total = 0         -> {"reconciled-approved", "reconcile-uncertain"}

Settle ==
  /\ run.pc = "settle"
  /\ \E v \in ReconcileVerdicts(scan.total) : Audit(run.cur, v)
  /\ run' = [run EXCEPT !.pc = "reconcile", !.cur = NoDoc, !.stranded = @ \ {run.cur}]
  /\ scan' = NoScan
  /\ UNCHANGED <<siteVars, stop, runs, moves, presses, clickVars>>

-----------------------------------------------------------------------------
(* The target loop.                                                         *)

\* Wrong variant: only confirmed clicks count.
CapIsSpentByConfirmed ==
  run.max > 0 /\ Cardinality({d \in Doc : last[d] = "confirmed"}) >= run.max

CapIsSpent == run.max > 0 /\ run.clicks >= run.max

\* Wrong variant: the kill switch is read until the first click.
SeesStopBeforeFirstClick == stop /\ run.clicks = 0

\* The file is looked up again before every document.
SeesStop == stop

\* Cap, then kill switch, then the document is requested and looked for.
Target ==
  /\ run.pc = "target"
  /\ IF run.todo = <<>> THEN run' = Off /\ UNCHANGED <<last, scan>>
     ELSE LET d == Head(run.todo) IN
          CASE CapIsSpent -> Audit(d, "skipped") /\ run' = NextTarget /\ UNCHANGED scan
            [] ~ CapIsSpent /\ SeesStop -> Audit(d, "skipped") /\ run' = Off /\ UNCHANGED scan
            [] OTHER -> Audit(d, "open") /\ StartScan(d, "open", run)
  /\ UNCHANGED <<siteVars, stop, runs, moves, presses, clickVars>>

\* openDoc needs exactly one hit, and the document still on the page of that hit
\* when the list is loaded again.
Open ==
  /\ run.pc = "open"
  /\ \/ Fail
     \/ /\ scan.total = 1 /\ OnPage(run.cur, scan.found)
        /\ run' = [run EXCEPT !.pc = "guards"]
        /\ UNCHANGED last
  /\ scan' = NoScan
  /\ UNCHANGED <<siteVars, stop, runs, moves, presses, clickVars>>

\* datedCells: the stamps of today that one look at a document's page finds, fewer
\* than there are when its cells are not all there yet, none when the read fails.
DatedCells(d) == 0 .. stamps[d]

\* Identity, title, form and amount on the document's page, each of which may
\* fail the document or skip it; the stamps it has already are counted by one
\* look after a fixed wait.
Guards ==
  /\ run.pc = "guards"
  /\ \/ Fail /\ UNCHANGED misread
     \/ Audit(run.cur, "skipped") /\ run' = NextTarget /\ UNCHANGED misread
     \/ /\ \E read \in DatedCells(run.cur) :
             /\ run' = [run EXCEPT !.pc = "modal", !.base = read]
             /\ misread' = IF ~ run.live THEN misread
                           ELSE IF read < stamps[run.cur] THEN misread \cup {run.cur}
                           ELSE misread \ {run.cur}
        /\ UNCHANGED last
  /\ UNCHANGED <<pageVars, stop, scan, runs, moves, presses, clickVars>>

\* The decision is made in the modal.  A dry run ends here; a live one writes
\* "clicked" and spends the cap before it clicks.
Modal ==
  /\ run.pc = "modal"
  /\ \/ Fail
     \/ ~ run.live /\ run' = NextTarget /\ UNCHANGED last
     \/ /\ run.live
        /\ Audit(run.cur, "clicked")
        /\ run' = [run EXCEPT !.pc = "confirm", !.clicks = @ + 1]
  /\ UNCHANGED <<siteVars, stop, scan, runs, moves, presses, clickVars>>

Leaves(d) ==
  \E i \in 1 .. Len(inbox) : inbox[i] = d /\ inbox' = RemoveAt(inbox, i)

\* The site accepts the decision on a document that is still on the list: it is
\* stamped and leaves.
SiteAccepts(d) ==
  /\ Leaves(d)
  /\ stamps' = [stamps EXCEPT ![d] = @ + 1]
  /\ committed' = committed \cup {d}
  /\ backed' = backed \cup {d}
  /\ UNCHANGED misread

\* The click; it may throw whether or not the site took it.
Confirm ==
  /\ run.pc = "confirm"
  /\ \/ SiteAccepts(run.cur)
     \/ UNCHANGED siteVars
  /\ \/ Fail
     \/ run' = [run EXCEPT !.pc = "reopen"] /\ UNCHANGED last
  /\ issued' = issued + 1 /\ late' = IF stop THEN late + 1 ELSE late
  /\ UNCHANGED <<stop, scan, runs, moves, presses>>

\* The document is opened again and its stamps are compared with the baseline,
\* until one more is seen or the polls run out.
Reopen ==
  /\ run.pc = "reopen"
  /\ \/ Fail /\ UNCHANGED scan
     \/ /\ \E read \in DatedCells(run.cur) :
             StartScan(run.cur, "verify", [run EXCEPT !.stamped = read > run.base])
        /\ UNCHANGED last
  /\ UNCHANGED <<siteVars, stop, runs, moves, presses, clickVars>>

\* Wrong variant: absence from the list is enough.
CompletionByAbsence(stamped, total) == total = 0

\* completionVerdict
Completed(stamped, total) == stamped /\ total = 0

Verify ==
  /\ run.pc = "verify"
  /\ IF Completed(run.stamped, scan.total)
     THEN Audit(run.cur, "confirmed") /\ run' = NextTarget
     ELSE Fail
  /\ scan' = NoScan
  /\ UNCHANGED <<siteVars, stop, runs, moves, presses, clickVars>>

-----------------------------------------------------------------------------
(* Everybody else.                                                          *)

\* The process is killed (cancel, watchdog, shutdown) or dies, at any step; a
\* queued batch may be cancelled.
Killed ==
  /\ run.pc # "off"
  /\ run' = Off /\ scan' = NoScan
  /\ UNCHANGED <<siteVars, last, stop, runs, moves, presses, clickVars>>

\* POST /api/approve/stop
PressStop ==
  /\ presses < MaxPresses
  /\ stop' = TRUE /\ presses' = presses + 1
  /\ late' = IF stop THEN late ELSE 0
  /\ UNCHANGED <<siteVars, last, run, scan, runs, moves, issued>>

\* Another batch is requested while this one is under way: it waits in the
\* queue, its route has removed STOP.
ClearStop ==
  /\ run.pc # "off" /\ stop
  /\ stop' = FALSE /\ late' = 0
  /\ UNCHANGED <<siteVars, last, run, scan, runs, moves, presses, issued>>

\* Somebody else stamps a document, which may leave the list with it.
OtherStamps(d) ==
  /\ stamps' = [stamps EXCEPT ![d] = @ + 1]
  /\ UNCHANGED inbox \/ Leaves(d)
  /\ backed' = backed \cup {d}
  /\ UNCHANGED <<committed, misread>>

\* A document is withdrawn or returned.
Withdrawn(d) ==
  /\ Leaves(d)
  /\ UNCHANGED <<stamps, committed, backed, misread>>

\* A document arrives at either end of the list.
Arrives(d) ==
  /\ ~ Contains(inbox, d)
  /\ inbox' \in {<<d>> \o inbox, Append(inbox, d)}
  /\ UNCHANGED <<stamps, committed, backed, misread>>

SiteMoves ==
  /\ moves < MaxMoves /\ moves' = moves + 1
  /\ \/ \E d \in Doc : OtherStamps(d)
     \/ \E d \in Doc \cup Other : Withdrawn(d)
     \/ \E d \in Other : Arrives(d)
  /\ UNCHANGED <<last, stop, run, scan, runs, presses, clickVars>>

-----------------------------------------------------------------------------
ApproveInit ==
  /\ \E start \in SUBSET Other : inbox \in SetToSeqs(Doc \cup start)
  /\ stamps = [d \in Doc |-> IF d \in EarlierStamp THEN 1 ELSE 0]
  /\ last = [d \in Doc |-> "none"]
  /\ stop = FALSE /\ run = Off /\ scan = NoScan
  /\ runs = 0 /\ moves = 0 /\ presses = 0
  /\ committed = {} /\ backed = {} /\ misread = {} /\ issued = 0 /\ late = 0

RunStep == \/ Boot \/ ReconcileNext \/ Settle \/ Target \/ ScanPage \/ Open
           \/ Guards \/ Modal \/ Confirm \/ Reopen \/ Verify

ApproveNext == RunStep \/ Enqueue \/ Killed \/ PressStop \/ ClearStop \/ SiteMoves

\* The queue starts the batch, and every wait of the leaf has a time limit.
ApproveSpec == ApproveInit /\ [][ApproveNext]_vars /\ WF_vars(RunStep)

-----------------------------------------------------------------------------
\* Type invariant: the process, the audit file and the site keep their shape.
ApproveTypeOK ==
  /\ run \in RunRecord /\ last \in [Doc -> Stage]
  /\ inbox \in Seq(Doc \cup Other) /\ IsInjective(inbox)
  /\ stamps \in [Doc -> Nat] /\ committed \subseteq backed /\ backed \subseteq Doc
  /\ misread \subseteq Doc
  /\ stop \in BOOLEAN /\ scan \in ScanRecord /\ issued \in Nat /\ late \in Nat

\* The cap binds the irreversible clicks, those that failed or whose outcome was
\* never learned included.
CapBindsClicks == run.live => issued <= run.max

\* However many batches are killed, at most one document is left in doubt: each
\* live batch settles what the one before it left at "clicked".
OneStrandedDoc == Cardinality(StrandedDocs) <= 1

\* A batch keeps its shape and its bounds: the three above.
BatchIsBounded == ApproveTypeOK /\ CapBindsClicks /\ OneStrandedDoc

\* What the audit file says happened on the site did.  A confirmed document
\* carries a stamp of today, and got it while the checks were made unless the one
\* look at its page before the click had missed some; a document whose click is
\* said not to have gone through did not go through.
AuditAgreesWithSite ==
  \A d \in Doc : /\ last[d] = "confirmed" => stamps[d] > 0 /\ d \in backed \cup misread
                 /\ last[d] = "reconciled-failed" => d \notin committed

\* After STOP is pressed at most the document in hand is still clicked, and
\* nothing more until somebody clears STOP.
KillSwitchHolds == stop => late <= 1

\* A batch that was queued ends, whatever the site does meanwhile.
RunEnds == run.pc # "off" ~> run.pc = "off"

\* approve-run.mjs:224: "Stamp-absent => uncertain, not approved".
StampAbsentIsUncertain ==
  \A d \in Doc : last[d] = "reconciled-approved" => stamps[d] > 0
=============================================================================
