------------------------------ MODULE RecordSync ------------------------------
(***************************************************************************)
(* The system registry and the runs that fill it: register, sync the list, *)
(* enrich the details, remove (webui/systems.js, webui/routes-rpa.js,      *)
(* bin/pw-rpa.mjs, the systems, records and approvals tables of lib/db.js).*)
(*                                                                         *)
(* One system, the one whose records also fill the approvals table.  The   *)
(* site and the browser are external: documents come and go, a list page   *)
(* renders old rows, then none, then some, then all of them.               *)
(***************************************************************************)
EXTENDS Naturals, Sequences, FiniteSets, SequencesExt

CONSTANTS
  Document,        (* the documents of the site, named by their record keys *)
  TextOf,          (* the documents whose row shows the text of a key       *)
  Untitled,        (* the documents whose list cells may be empty           *)
  PageSize,        (* rows of a list page                                   *)
  MaxPages,        (* pages a run reads at most (100 in the code)           *)
  EmptyReads,      (* EMPTY_STABLE_READS                                    *)
  MaxReads,        (* tries of waitListSettled                              *)
  OperatorAllows,  (* the operator's allowlist has the target               *)
  MaxRuns,         (* bound: runs                                           *)
  MaxMoves         (* bound: changes of the list                            *)

Nobody == "nobody"

ASSUME RecordSyncAssumption ==
  /\ Nobody \notin Document /\ IsFiniteSet(Document)
  /\ \A d \in Document : d \in TextOf[d] /\ TextOf[d] \subseteq Document
  /\ Untitled \subseteq Document
  /\ {PageSize, MaxPages, EmptyReads, MaxReads} \subseteq Nat \ {0}

VARIABLES
  system,      (* the row of the registry; NoSystem when there is none      *)
  rows,        (* the records table                                         *)
  approvals,   (* the approvals table                                       *)
  listed,      (* the documents on the site's list, in their order          *)
  run,         (* the child process of the job under way                    *)
  runs, moves  (* how many there were                                       *)

syncVars == <<system, rows, approvals, listed, run, runs, moves>>

-----------------------------------------------------------------------------
\* The registry.  A recipe has a shape, and carries the system's egress settings.
NoSystem   == [shape |-> "absent", egress |-> FALSE, target |-> FALSE]
Shape      == {"none", "list", "detail"}
Form       == [shape : Shape, egress : BOOLEAN, target : BOOLEAN]
Registered == system # NoSystem

\* validateSystemEgressPolicy of the target, when there is one.
TargetAllowed(s) == s.target => OperatorAllows \/ s.egress

\* mergeSystemEgress, then registerSystem: egress settings make a recipe of their own,
\* and a recipe that is given replaces the one that is stored.
Saved(s, form) ==
  [shape  |-> IF form.shape = "none" /\ ~form.egress /\ s # NoSystem THEN s.shape ELSE form.shape,
   egress |-> IF form.shape = "none" /\ ~form.egress THEN s.egress ELSE form.egress,
   target |-> s.target \/ form.target]

SaveSystem(form) ==
  /\ TargetAllowed(form)
  /\ system' = Saved(system, form)
  /\ UNCHANGED <<rows, approvals, listed, run, runs, moves>>

\* A row of either table: its list cell, and whose detail and summary it holds.
NoRow  == [title |-> Nobody, detail |-> Nobody, summary |-> Nobody, stored |-> FALSE]
Blank  == [title |-> Nobody, detail |-> Nobody, summary |-> Nobody, stored |-> TRUE]

\* The upserts keep what is stored where the item has nothing: json_patch on data
\* without nulls, COALESCE on the rest.
KeepOr(old, new) == IF new = Nobody THEN old ELSE new

\* Wrong variant: what the item lacks is cleared.
UpsertNulls(row, item) == item

Upsert(row, item) ==
  [title   |-> KeepOr(row.title, item.title),
   detail  |-> KeepOr(row.detail, item.detail),
   summary |-> KeepOr(row.summary, item.summary),
   stored  |-> TRUE]
UpsertAll(table, items) ==
  [d \in Document |-> IF d \in DOMAIN items THEN Upsert(table[d], items[d]) ELSE table[d]]

\* deleteSystem leaves the approvals alone.
RemoveSystem ==
  /\ Registered
  /\ system' = NoSystem
  /\ rows' = [d \in Document |-> NoRow]
  /\ UNCHANGED <<approvals, listed, run, runs, moves>>

-----------------------------------------------------------------------------
\* The site.
PageCount == IF listed = <<>> THEN 1 ELSE (Len(listed) + PageSize - 1) \div PageSize
PageRows(p) == {listed[i] : i \in {j \in DOMAIN listed : (j - 1) \div PageSize = p - 1}}

Moved == run' = [run EXCEPT !.moved = @ \/ run.pc # "idle"]

DocumentArrives(d) ==
  /\ d \notin ToSet(listed) /\ moves < MaxMoves
  /\ listed' = <<d>> \o listed
  /\ moves' = moves + 1 /\ Moved
  /\ UNCHANGED <<system, rows, approvals, runs>>

DocumentLeaves(d) ==
  /\ moves < MaxMoves
  /\ \E i \in DOMAIN listed : listed[i] = d /\ listed' = RemoveAt(listed, i)
  /\ moves' = moves + 1 /\ Moved
  /\ UNCHANGED <<system, rows, approvals, runs>>

-----------------------------------------------------------------------------
\* A run: the job is queued, the child reads the system, opens the list and settles
\* page after page; or works through the documents that have no summary.
NoSig == {Nobody}
Idle ==
  [pc |-> "idle", kind |-> "none", page |-> 0, target |-> {}, phase |-> "none",
   prevSig |-> NoSig, prevRead |-> NoSig, saw |-> FALSE, empty |-> 0, reads |-> 0,
   total |-> 0, got |-> <<>>, todo |-> {}, items |-> <<>>, moved |-> FALSE]

\* POST /api/systems/<name>/<action>: the job is queued if the target is allowed.
PostRun(kind) ==
  /\ Registered /\ TargetAllowed(system)
  /\ run.pc = "idle" /\ runs < MaxRuns
  /\ runs' = runs + 1
  /\ run' = [Idle EXCEPT !.pc = "queued", !.kind = kind]
  /\ UNCHANGED <<system, rows, approvals, listed, moves>>

\* A run that throws, is cancelled or killed leaves what it has stored.
RunEndsEarly ==
  /\ run.pc # "idle"
  /\ run' = Idle
  /\ UNCHANGED <<system, rows, approvals, listed, runs, moves>>

\* The page's rows and what a new waitListSettled knows.
ShowPage(r, p) ==
  [r EXCEPT !.pc = "settle", !.page = p, !.target = PageRows(p),
            !.phase = IF p = 1 THEN "blank" ELSE "old",
            !.prevRead = NoSig, !.saw = FALSE, !.empty = 0, !.reads = 0]

\* recordsToEnrich.
WithoutSummary == {d \in Document : rows[d].stored /\ rows[d].summary = Nobody}

\* readSystem, newPage, gotoTarget: the system is read when the child starts.
StartRun ==
  /\ run.pc = "queued"
  /\ system.target /\ TargetAllowed(system)
  /\ \/ /\ run.kind = "sync" /\ system.shape # "none"
        /\ run' = ShowPage(run, 1)
     \/ /\ run.kind = "enrich" /\ system.shape = "detail"
        /\ run' = IF WithoutSummary = {} THEN Idle
                  ELSE [run EXCEPT !.pc = "open", !.todo = WithoutSummary]
  /\ UNCHANGED <<system, rows, approvals, listed, runs, moves>>

-----------------------------------------------------------------------------
\* waitListSettled.  What the next read may find: a page that is half rendered is so
\* for one read, and a page that has rows is blank for fewer than EmptyReads reads.
Shown(r, phase, part) ==
  CASE phase = "old"   -> r.prevSig
    [] phase = "blank" -> {}
    [] phase = "part"  -> part
    [] phase = "full"  -> r.target

Renders(r, phase, part) ==
  /\ phase \in (CASE r.phase = "old"   -> {"old", "blank", "part", "full"}
                  [] r.phase = "blank" -> {"blank", "part", "full"}
                  [] OTHER             -> {"full"})
  /\ phase = "part" => part # {} /\ part \subseteq r.target /\ part # r.target
  /\ phase # "part" => part = {}
  /\ phase = "blank" /\ r.target # {} => r.empty + 1 < EmptyReads

Changed(r, sig) == sig # r.prevSig

\* Wrong variant: one read with rows settles the page.
SettledAtOnce(r, sig) == Changed(r, sig) /\ sig # {}

Settled(r, sig) ==
  /\ Changed(r, sig)
  /\ IF sig # {} THEN r.prevRead = sig
     ELSE r.empty + 1 >= EmptyReads /\ (r.prevSig # NoSig \/ ~r.saw)

ReadOnce(r, phase, sig) ==
  [r EXCEPT !.phase = phase, !.reads = @ + 1, !.prevRead = sig,
            !.saw = @ \/ sig # {}, !.empty = IF sig = {} THEN @ + 1 ELSE 0]
FailedRead(r, phase) ==
  [r EXCEPT !.phase = phase, !.reads = @ + 1, !.prevRead = NoSig, !.empty = 0]

\* The pages read: a page more, or the whole list.
AfterPage(r, sig) ==
  LET got   == Append(r.got, sig)
      total == IF r.page = 1 THEN (IF PageCount < MaxPages THEN PageCount ELSE MaxPages)
                             ELSE r.total
  IN IF r.page < total
       THEN ShowPage([r EXCEPT !.got = got, !.prevSig = sig, !.total = total], r.page + 1)
       ELSE [r EXCEPT !.got = got, !.pc = "aggregate"]

ReadList(phase, part) ==
  /\ run.pc = "settle" /\ run.reads < MaxReads
  /\ Renders(run, phase, part)
  /\ LET sig == Shown(run, phase, part) IN
       run' = IF Settled(run, sig) THEN AfterPage(run, sig) ELSE ReadOnce(run, phase, sig)
  /\ UNCHANGED <<system, rows, approvals, listed, runs, moves>>

ReadFails(phase, part) ==
  /\ run.pc = "settle" /\ run.reads < MaxReads
  /\ Renders(run, phase, part)
  /\ run' = FailedRead(run, phase)
  /\ UNCHANGED <<system, rows, approvals, listed, runs, moves>>

\* uniqueByKey refuses a document read on two pages; some list cells may be empty.
NoDuplicates(got) == \A i, j \in DOMAIN got : i # j => got[i] \cap got[j] = {}
Aggregate(untitled) ==
  /\ run.pc = "aggregate" /\ NoDuplicates(run.got)
  /\ LET all == UNION ToSet(run.got) IN
       /\ untitled \subseteq all
       /\ run' = [run EXCEPT !.pc = "store",
                    !.items = [d \in all |-> [Blank EXCEPT !.title =
                                                 IF d \in untitled THEN Nobody ELSE d]]]
  /\ UNCHANGED <<system, rows, approvals, listed, runs, moves>>

-----------------------------------------------------------------------------
\* enrich.  The text of a key may show in another document's row: a click opens that
\* one, or leaves the list on screen.
Opens(k) == (TextOf[k] \cap ToSet(listed)) \cup {Nobody}

\* extract-detail takes the page only if its id is the key's.
Identified(k, shown) == shown = k

Detailed(r, k, shown) ==
  IF Identified(k, shown)
    THEN [r EXCEPT !.items = [d \in DOMAIN r.items \cup {k} |->
                                IF d = k THEN [Blank EXCEPT !.detail = shown] ELSE r.items[d]]]
    ELSE r

EnrichOne(k, shown) ==
  /\ run.pc = "open" /\ k \in run.todo
  /\ shown \in Opens(k)
  /\ run' = [Detailed(run, k, shown) EXCEPT !.todo = @ \ {k}]
  /\ UNCHANGED <<system, rows, approvals, listed, runs, moves>>

\* summarize: the model answers for some of the items, each from that item's body.  No
\* model, no summaries; no item, no store.
Summarize(answered) ==
  /\ run.pc = "open" /\ run.todo = {} /\ run.items # <<>>
  /\ answered \subseteq DOMAIN run.items
  /\ run' = [run EXCEPT !.pc = "store",
               !.items = [d \in DOMAIN @ |->
                 IF d \in answered
                   THEN [run.items[d] EXCEPT !.summary = run.items[d].detail]
                   ELSE run.items[d]]]
  /\ UNCHANGED <<system, rows, approvals, listed, runs, moves>>

-----------------------------------------------------------------------------
\* upsertRecords, then approvalsDualWrite: two transactions.
Store ==
  /\ run.pc = "store"
  /\ rows' = UpsertAll(rows, run.items)
  /\ run' = [run EXCEPT !.pc = "mirror"]
  /\ UNCHANGED <<system, approvals, listed, runs, moves>>

Mirror ==
  /\ run.pc = "mirror"
  /\ approvals' = UpsertAll(approvals, run.items)
  /\ run' = Idle
  /\ UNCHANGED <<system, rows, listed, runs, moves>>

-----------------------------------------------------------------------------
SyncInit ==
  /\ system = NoSystem
  /\ rows = [d \in Document |-> NoRow] /\ approvals = rows
  /\ listed = SetToSeq(Document)
  /\ run = Idle /\ runs = 0 /\ moves = 0

SyncNext ==
  \/ \E form \in Form : SaveSystem(form)
  \/ RemoveSystem
  \/ \E d \in Document : DocumentArrives(d) \/ DocumentLeaves(d)
  \/ \E kind \in {"sync", "enrich"} : PostRun(kind)
  \/ StartRun \/ RunEndsEarly
  \/ \E phase \in {"old", "blank", "part", "full"}, part \in SUBSET Document :
       ReadList(phase, part) \/ ReadFails(phase, part)
  \/ \E untitled \in SUBSET Untitled : Aggregate(untitled)
  \/ \E k \in Document, shown \in Document \cup {Nobody} : EnrichOne(k, shown)
  \/ \E answered \in SUBSET Document : Summarize(answered)
  \/ Store \/ Mirror

SyncSpec == SyncInit /\ [][SyncNext]_syncVars

-----------------------------------------------------------------------------
RowOf(d) == [title : {Nobody, d}, detail : Document \cup {Nobody},
             summary : Document \cup {Nobody}, stored : BOOLEAN]

\* Type invariant: every row keeps to its fields, a list cell is its own document's, and
\* a run is where its kind can be.
SyncTypeOK ==
  /\ system \in Form \cup {NoSystem}
  /\ \A d \in Document : {rows[d], approvals[d]} \subseteq RowOf(d)
  /\ ToSet(listed) \subseteq Document /\ IsInjective(listed)
  /\ run.pc \in {"settle", "aggregate"} => run.kind = "sync" /\ Len(run.got) < MaxPages + 1
  /\ run.pc = "open" => run.kind = "enrich" /\ run.todo \subseteq Document
  /\ run.reads \in 0 .. MaxReads

\* A sync whose list did not change while it was read stores every document on it: a
\* page that is still showing the rows before, none or half of its own is never taken
\* for the page (waitListSettled, assertPageSettled, uniqueByKey).
SyncIsWhole ==
  run.kind = "sync" /\ run.pc \in {"store", "mirror"} /\ ~run.moved /\ PageCount <= MaxPages
    => DOMAIN run.items = ToSet(listed)

\* A record and an approvals row hold the detail and the summary of their own document,
\* whichever row the click on a key's text opened (extract-detail's identity guard).
DetailIsOwn ==
  \A d \in Document :
    \A row \in {rows[d], approvals[d]} : {row.detail, row.summary} \subseteq {d, Nobody}

\* What a run stores is the site's: the whole list, and for each document its own detail.
SyncIsTrue == SyncIsWhole /\ DetailIsOwn

\* A sync never takes back what an enrich stored, nor an enrich what a sync did: what a
\* row has it keeps until the system is removed, and an approvals row for good.
NothingIsLost ==
  [][\A d \in Document, f \in {"title", "detail", "summary"} :
       /\ rows[d][f] # Nobody => rows'[d][f] # Nobody \/ ~Registered'
       /\ approvals[d][f] # Nobody => approvals'[d][f] # Nobody]_syncVars

\* The comment of registerSystem: "Only provided fields are updated (COALESCE), so
\* re-registering to tweak one field doesn't wipe the rest."
RecipeSurvives ==
  [][Registered /\ Registered' /\ system.shape # "none" => system'.shape # "none"]_syncVars


=============================================================================
