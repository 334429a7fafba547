--------------------------- MODULE ApproveRunProofs ---------------------------
(***************************************************************************)
(* What the leaf that commits decisions keeps, proved for every list of    *)
(* documents, page size and batch, and any number of batches, kills,       *)
(* presses of the kill switch and moves of other people.                   *)
(***************************************************************************)
EXTENDS ApproveRun, FiniteSetTheorems, SequenceTheorems, TLAPS

-----------------------------------------------------------------------------
(* Lists without repetition.                                                *)

\* A list that loses its i-th entry keeps the others, each once.
LEMMA ListLosesOne ==
  ASSUME NEW S, NEW c \in Seq(S), IsInjective(c), NEW i \in 1 .. Len(c)
  PROVE  /\ RemoveAt(c, i) \in Seq(S) /\ IsInjective(RemoveAt(c, i))
         /\ ToSet(RemoveAt(c, i)) \subseteq ToSet(c) \ {c[i]}
<1> DEFINE a == SubSeq(c, 1, i - 1)
           z == SubSeq(c, i + 1, Len(c))
           e == RemoveAt(c, i)
           was(k) == IF k < i THEN k ELSE k + 1
<1>0. Len(c) \in Nat /\ i \in 1 .. Len(c) /\ \A k \in 1 .. Len(c) : c[k] \in S OBVIOUS
<1>1. a \in Seq(S) /\ Len(a) = i - 1 /\ \A k \in 1 .. i - 1 : a[k] = c[k]
  BY <1>0
<1>2. z \in Seq(S) /\ Len(z) = Len(c) - i /\ \A k \in 1 .. Len(c) - i : z[k] = c[i + k]
  BY <1>0
<1>3. e = a \o z BY DEF RemoveAt
<1> HIDE DEF a, z, e
<1>4. /\ e \in Seq(S) /\ Len(e) = Len(a) + Len(z)
      /\ \A k \in 1 .. Len(a) + Len(z) : e[k] = IF k <= Len(a) THEN a[k] ELSE z[k - Len(a)]
  BY <1>1, <1>2, <1>3, ConcatProperties
<1>5. Len(e) = Len(c) - 1 BY <1>0, <1>1, <1>2, <1>4
<1>6. ASSUME NEW k \in 1 .. Len(c) - 1 PROVE e[k] = c[was(k)]
  <2>0. k \in 1 .. Len(a) + Len(z) BY <1>0, <1>1, <1>2
  <2>1. CASE k < i
    <3>1. k \in 1 .. i - 1 /\ k <= Len(a) BY <1>0, <1>1, <2>1
    <3>2. QED BY <1>1, <1>4, <2>0, <2>1, <3>1
  <2>2. CASE ~ (k < i)
    <3>1. /\ k - (i - 1) \in 1 .. Len(c) - i /\ ~ (k <= Len(a))
          /\ i + (k - (i - 1)) = k + 1
      BY <1>0, <1>1, <2>2
    <3>2. z[k - (i - 1)] = c[k + 1] BY <1>2, <3>1
    <3>3. QED BY <1>1, <1>4, <2>0, <2>2, <3>1, <3>2
  <2>3. QED BY <2>1, <2>2
<1>7. DOMAIN e = 1 .. Len(c) - 1 BY <1>4, <1>5
<1>8. \A k \in 1 .. Len(c) - 1 : was(k) \in DOMAIN c /\ was(k) # i BY <1>0
<1>9. IsInjective(e)
  <2>1. ASSUME NEW k \in DOMAIN e, NEW l \in DOMAIN e, e[k] = e[l] PROVE k = l
    <3>1. was(k) \in DOMAIN c /\ was(l) \in DOMAIN c /\ c[was(k)] = c[was(l)]
      BY <1>6, <1>7, <1>8, <2>1
    <3>2. was(k) = was(l)
      <4> HIDE DEF was
      <4> QED BY <3>1 DEF IsInjective
    <3>3. QED BY <1>0, <1>7, <3>2
  <2>2. QED BY <2>1 DEF IsInjective
<1>10. ToSet(e) \subseteq ToSet(c) \ {c[i]}
  <2>1. ASSUME NEW k \in DOMAIN e PROVE e[k] \in ToSet(c) \ {c[i]}
    <3>1. was(k) \in DOMAIN c /\ was(k) # i /\ e[k] = c[was(k)] BY <1>6, <1>7, <1>8
    <3>2. i \in DOMAIN c BY <1>0
    <3>3. c[was(k)] # c[i]
      <4> HIDE DEF was
      <4> QED BY <3>1, <3>2 DEF IsInjective
    <3>4. c[was(k)] \in ToSet(c)
      <4> HIDE DEF was
      <4> QED BY <3>1 DEF ToSet
    <3>5. QED BY <3>1, <3>3, <3>4
  <2>2. QED BY <2>1 DEF ToSet
<1>11. QED BY <1>4, <1>9, <1>10 DEF e

\* A list that gains an entry at either end has it once.
LEMMA ListGainsOne ==
  ASSUME NEW S, NEW c \in Seq(S), IsInjective(c), NEW d \in S, d \notin ToSet(c),
         NEW e, e = <<d>> \o c \/ e = Append(c, d)
  PROVE  e \in Seq(S) /\ IsInjective(e) /\ ToSet(e) \subseteq ToSet(c) \cup {d}
<1>0. Len(c) \in Nat /\ DOMAIN c = 1 .. Len(c) OBVIOUS
<1>1. \A k \in DOMAIN c : c[k] # d /\ c[k] \in ToSet(c) BY DEF ToSet
<1>2. CASE e = <<d>> \o c
  <2>1. /\ e \in Seq(S) /\ DOMAIN e = 1 .. Len(c) + 1 /\ e[1] = d
        /\ \A k \in 2 .. Len(c) + 1 : e[k] = c[k - 1]
    BY <1>0, <1>2
  <2>2. \A k \in 2 .. Len(c) + 1 : k - 1 \in DOMAIN c BY <1>0
  <2>3. \A k \in 2 .. Len(c) + 1 : e[k] # d /\ e[k] \in ToSet(c) BY <1>1, <2>1, <2>2
  <2>4. ASSUME NEW k \in DOMAIN e, NEW l \in DOMAIN e, e[k] = e[l] PROVE k = l
    <3>1. CASE k = 1 BY <1>0, <2>1, <2>3, <2>4, <3>1
    <3>2. CASE l = 1 BY <1>0, <2>1, <2>3, <2>4, <3>2
    <3>3. CASE k # 1 /\ l # 1
      <4>1. k - 1 \in DOMAIN c /\ l - 1 \in DOMAIN c /\ c[k - 1] = c[l - 1]
        BY <1>0, <2>1, <2>4, <3>3
      <4>2. k - 1 = l - 1 BY <4>1 DEF IsInjective
      <4>3. QED BY <1>0, <2>1, <4>2
    <3>4. QED BY <3>1, <3>2, <3>3
  <2>5. IsInjective(e) BY <2>4 DEF IsInjective
  <2>6. \A k \in DOMAIN e : e[k] \in ToSet(c) \cup {d} BY <1>0, <2>1, <2>3
  <2>7. ToSet(e) \subseteq ToSet(c) \cup {d} BY <2>6 DEF ToSet
  <2>8. QED BY <2>1, <2>5, <2>7
<1>3. CASE e = Append(c, d)
  <2>1. /\ e \in Seq(S) /\ DOMAIN e = 1 .. Len(c) + 1 /\ e[Len(c) + 1] = d
        /\ \A k \in DOMAIN c : e[k] = c[k]
    BY <1>0, <1>3
  <2>4. ASSUME NEW k \in DOMAIN e, NEW l \in DOMAIN e, e[k] = e[l] PROVE k = l
    <3>1. CASE k = Len(c) + 1 BY <1>0, <1>1, <2>1, <2>4, <3>1
    <3>2. CASE l = Len(c) + 1 BY <1>0, <1>1, <2>1, <2>4, <3>2
    <3>3. CASE k \in DOMAIN c /\ l \in DOMAIN c
      BY <2>1, <2>4, <3>3 DEF IsInjective
    <3>4. QED BY <1>0, <2>1, <3>1, <3>2, <3>3
  <2>5. IsInjective(e) BY <2>4 DEF IsInjective
  <2>6. \A k \in DOMAIN e : e[k] \in ToSet(c) \cup {d} BY <1>0, <1>1, <2>1
  <2>7. ToSet(e) \subseteq ToSet(c) \cup {d} BY <2>6 DEF ToSet
  <2>8. QED BY <2>1, <2>5, <2>7
<1>4. QED BY <1>2, <1>3

\* The smaller of two numbers.
LEMMA MinOfTwo ==
  ASSUME NEW m \in Int, NEW n \in Int
  PROVE  Min({m, n}) \in Int /\ Min({m, n}) <= m /\ Min({m, n}) <= n
<1>1. \E x \in {m, n} : \A y \in {m, n} : x <= y OBVIOUS
<1>2. Min({m, n}) \in {m, n} /\ \A y \in {m, n} : Min({m, n}) <= y BY <1>1 DEF Min
<1>3. QED BY <1>2

\* A page shows documents of the list.
LEMMA PageShowsList ==
  ASSUME inbox \in Seq(Doc \cup Other), NEW p \in Nat \ {0}
  PROVE  Page(p) \in Seq(Doc \cup Other) /\ ToSet(Page(p)) \subseteq ToSet(inbox)
<1> DEFINE m == (p - 1) * PageSize + 1
           q == p * PageSize
           n == Min({q, Len(inbox)})
<1>1. m \in Nat /\ m >= 1 BY ApproveAssumption
<1>2. q \in Int /\ Len(inbox) \in Int BY ApproveAssumption
<1>3. n \in Int /\ n <= Len(inbox)
  <2> HIDE DEF q
  <2> QED BY <1>2, MinOfTwo
<1>4. Page(p) = SubSeq(inbox, m, n) BY DEF Page
<1> HIDE DEF m, n, q
<1>5. /\ Page(p) \in Seq(Doc \cup Other)
      /\ \A k \in 1 .. Len(Page(p)) : \E l \in DOMAIN inbox : Page(p)[k] = inbox[l]
  <2>1. \A k \in m .. n : inbox[k] \in Doc \cup Other BY <1>1, <1>3
  <2>2. /\ Page(p) \in Seq(Doc \cup Other)
        /\ Len(Page(p)) = IF m <= n THEN n - m + 1 ELSE 0
        /\ \A k \in 1 .. n - m + 1 : Page(p)[k] = inbox[m + k - 1]
    BY <1>1, <1>3, <1>4, <2>1, SubSeqProperties
  <2>3. ASSUME NEW k \in 1 .. Len(Page(p))
        PROVE  \E l \in DOMAIN inbox : Page(p)[k] = inbox[l]
    <3>1. m <= n /\ k \in 1 .. n - m + 1 BY <1>1, <1>3, <2>2
    <3>2. m + k - 1 \in DOMAIN inbox BY <1>1, <1>3, <3>1
    <3>3. QED BY <2>2, <3>1, <3>2
  <2>4. QED BY <2>2, <2>3
<1>6. QED BY <1>5 DEF ToSet

\* What was read short is part of what was there.
LEMMA PrefixShowsLess ==
  ASSUME NEW S, NEW c \in Seq(S), NEW e \in Prefixes(c)
  PROVE  e \in Seq(S) /\ ToSet(e) \subseteq ToSet(c)
<1>1. PICK n \in 0 .. Len(c) : e = SubSeq(c, 1, n) BY DEF Prefixes
<1>2. /\ e \in Seq(S) /\ DOMAIN e = 1 .. n /\ n <= Len(c)
      /\ \A k \in 1 .. n : e[k] = c[k]
  BY <1>1
<1>3. QED BY <1>2 DEF ToSet

-----------------------------------------------------------------------------
(* The invariant.                                                           *)

\* What the process is about: a scan serves the step that follows it.
Phase == IF run.pc = "scan" THEN scan.next ELSE run.pc

OnTarget == {"open", "guards", "modal", "confirm", "reopen", "verify"}
Clicked  == {"confirm", "reopen", "verify"}

\* The process holds a document while it works on one, a target to work on, and it is
\* a live one where dry runs never come.
PhaseOK ==
  /\ run.pc = "scan" => scan.next \in {"settle", "open", "verify"} /\ scan.total \in Nat
  /\ Phase \in OnTarget \cup {"settle"} => run.cur \in Doc
  /\ Phase \in OnTarget => run.todo # <<>>
  /\ Phase \in Clicked \cup {"reconcile", "settle"} => run.live

\* A live batch never issues more clicks than it has counted, counts before it clicks,
\* and does not go near a document with the cap spent.
CapOK ==
  run.live =>
    /\ 0 < run.max /\ run.clicks <= run.max /\ issued <= run.clicks
    /\ Phase = "confirm" => issued < run.clicks
    /\ Phase \in {"open", "guards", "modal"} => run.clicks < run.max

\* A document that carries a stamp, one that came after Init or was missed when its
\* baseline was read.
Dated(d) == stamps[d] > 0 /\ d \in backed \cup misread

\* At most one document is at "clicked"; while a live batch settles it is one of those
\* to settle, afterwards there is none until the batch clicks, and then it is that one.
\* The document a live batch checks has no verdict.
DoubtOK ==
  /\ \A d, e \in StrandedDocs : d = e
  /\ Phase \in {"reconcile", "settle"} => StrandedDocs = run.stranded
  /\ run.live /\ Phase \in {"target", "open", "guards", "modal"} => StrandedDocs = {}
  /\ Phase \in Clicked => StrandedDocs \subseteq {run.cur}
  /\ Phase = "confirm" => last[run.cur] = "clicked"
  /\ run.live /\ Phase \in {"open", "guards"} => last[run.cur] = "open"

\* A document the site took a decision on is off the list for good; a stamp more than
\* the baseline was put there since, or missed when the baseline was read; a hit means
\* the click had not gone through.
SiteOK ==
  /\ committed \cap ToSet(inbox) = {}
  /\ run.live /\ Phase \in {"modal", "confirm", "reopen"} /\ stamps[run.cur] > run.base
       => run.cur \in backed \cup misread
  /\ Phase = "verify" /\ run.stamped => Dated(run.cur)
  /\ Phase = "settle" /\ (scan.total > 0 \/ run.cur \in ToSet(scan.shown))
       => run.cur \notin committed

\* One click since STOP was pressed means the batch has no further click before it
\* looks for STOP again.
StopOK ==
  stop /\ late > 0 => late = 1 /\ Phase \in {"off", "queued", "target", "reopen", "verify"}

ApproveInv == /\ ApproveTypeOK /\ PhaseOK /\ CapOK /\ DoubtOK /\ SiteOK
              /\ AuditAgreesWithSite /\ StopOK

-----------------------------------------------------------------------------
(* What several steps share.                                                *)

\* The types of the variables, at hand.
LEMMA Typed ==
  ASSUME ApproveInv
  PROVE  /\ run \in RunRecord /\ last \in [Doc -> Stage] /\ scan \in ScanRecord
         /\ inbox \in Seq(Doc \cup Other) /\ IsInjective(inbox)
         /\ ToSet(inbox) \subseteq Doc \cup Other
         /\ stamps \in [Doc -> Nat] /\ committed \subseteq backed /\ backed \subseteq Doc
         /\ misread \subseteq Doc
         /\ stop \in BOOLEAN /\ issued \in Nat /\ late \in Nat
         /\ NoDoc \notin Doc
<1>1. ToSet(inbox) \subseteq Doc \cup Other BY DEF ApproveInv, ApproveTypeOK, ToSet
<1>2. QED BY <1>1, ApproveAssumption DEF ApproveInv, ApproveTypeOK

\* The blank records have their types.
LEMMA BlankRecords == Off \in RunRecord /\ NoScan \in ScanRecord
BY DEF Off, RunRecord, Pc, NoScan, ScanRecord

\* An audit row of a live batch gives its document a stage, and no other.
LEMMA AuditWrites ==
  ASSUME ApproveInv, NEW d \in Doc, NEW stage \in Stage, Audit(d, stage)
  PROVE  /\ last' \in [Doc -> Stage]
         /\ \A e \in Doc : last'[e] = IF run.live /\ e = d THEN stage ELSE last[e]
BY Typed DEF Audit

\* A document in doubt is one whose last row says so.
LEMMA StrandedMeans ==
  ASSUME NEW d \in Doc
  PROVE  d \in StrandedDocs <=> last[d] = "clicked"
BY DEF StrandedDocs

\* While nothing is written, nothing is in doubt that was not.
LEMMA StrandedKept == UNCHANGED last => StrandedDocs' = StrandedDocs
BY DEF StrandedDocs

\* A batch that is done with its target, in whatever way, goes on with no document of its
\* own in doubt.
LEMMA TargetEnds ==
  ASSUME ApproveInv, run.pc \in OnTarget, NEW stage \in {"failed", "skipped", "confirmed"},
         Audit(run.cur, stage), run' = NextTarget
  PROVE  /\ run' \in RunRecord /\ last' \in [Doc -> Stage]
         /\ Phase' = "target" /\ PhaseOK' /\ DoubtOK'
         /\ run'.live = run.live /\ run'.max = run.max /\ run'.clicks = run.clicks
         /\ \A e \in Doc : last'[e] = last[e] \/ (e = run.cur /\ last'[e] = stage)
<1>1. run \in RunRecord /\ Phase = run.pc /\ run.cur \in Doc /\ run.todo # <<>>
  BY Typed DEF ApproveInv, PhaseOK, Phase, OnTarget
<1>2. /\ last' \in [Doc -> Stage]
      /\ \A e \in Doc : last'[e] = IF run.live /\ e = run.cur THEN stage ELSE last[e]
  BY <1>1, AuditWrites DEF Stage, Verdict
<1>3. Tail(run.todo) \in Seq(Doc) BY <1>1 DEF RunRecord
<1>4. /\ run' \in RunRecord /\ run'.pc = "target"
      /\ run'.live = run.live /\ run'.max = run.max /\ run'.clicks = run.clicks
  BY <1>1, <1>3 DEF NextTarget, RunRecord, Pc
<1>5. Phase' = "target" BY <1>4 DEF Phase
<1>6. PhaseOK' BY <1>4, <1>5 DEF PhaseOK, OnTarget, Clicked
<1>7. DoubtOK'
  <2>1. \A d \in StrandedDocs' : d \in StrandedDocs /\ (run.live => d # run.cur)
    BY <1>2 DEF StrandedDocs
  <2>2. run.live => StrandedDocs \subseteq {run.cur}
    BY <1>1 DEF ApproveInv, DoubtOK, OnTarget, Clicked
  <2>3. \A d, e \in StrandedDocs' : d = e BY <2>1 DEF ApproveInv, DoubtOK
  <2>4. run.live => StrandedDocs' = {} BY <2>1, <2>2
  <2>5. QED BY <1>4, <1>5, <2>3, <2>4 DEF DoubtOK, Clicked
<1>8. QED BY <1>2, <1>4, <1>5, <1>6, <1>7

\* A batch that goes on with its document, and writes nothing, leaves it in doubt or not
\* as it was.
LEMMA Unwritten ==
  ASSUME ApproveInv, UNCHANGED <<last, siteVars, stop, clickVars>>,
         run' \in RunRecord, scan' \in ScanRecord
  PROVE  ApproveTypeOK' /\ StrandedDocs' = StrandedDocs /\ AuditAgreesWithSite'
         /\ (committed \cap ToSet(inbox) = {})'
<1>1. UNCHANGED <<last, inbox, stamps, committed, backed, misread, stop, issued, late>>
  BY DEF siteVars, pageVars, clickVars
<1>2. ApproveTypeOK' BY <1>1 DEF ApproveInv, ApproveTypeOK
<1>3. AuditAgreesWithSite' BY <1>1 DEF ApproveInv, AuditAgreesWithSite
<1>4. (committed \cap ToSet(inbox) = {})' BY <1>1 DEF ApproveInv, SiteOK
<1>5. QED BY <1>1, <1>2, <1>3, <1>4, StrandedKept

-----------------------------------------------------------------------------
(* The steps of the process.                                                *)

\* Reading a page of the list.
LEMMA ScanKeeps == ASSUME ApproveInv, ScanPage PROVE ApproveInv'
<1>1. /\ run \in RunRecord /\ scan \in ScanRecord /\ run.pc = "scan"
      /\ UNCHANGED <<last, siteVars, stop, clickVars>>
      /\ scan.next \in {"settle", "open", "verify"} /\ scan.total \in Nat
      /\ Phase = scan.next
  BY Typed DEF ScanPage, ApproveInv, PhaseOK, Phase
<1> DEFINE seen == ToSet(inbox) \cup ToSet(scan.shown)
<1>2. /\ scan' \in ScanRecord /\ scan'.next = scan.next
      /\ \/ run' = run /\ scan'.total \in Nat
         \/ run' = [run EXCEPT !.pc = scan.next]
      /\ scan'.total > scan.total => run.cur \in seen
      /\ ToSet(scan'.shown) \subseteq seen
  <2>1. CASE ScanGivesUp
    <3>1. PICK total \in {Uncertain, Thrown} : scan' = [scan EXCEPT !.total = total, !.found = 0]
      BY <2>1 DEF ScanGivesUp
    <3>2. scan' \in ScanRecord /\ scan'.next = scan.next /\ scan'.total = total
          /\ scan'.shown = scan.shown
      BY <1>1, <3>1 DEF ScanRecord
    <3>3. ~ (total > scan.total) BY <1>1, <3>1 DEF Uncertain, Thrown
    <3>4. QED BY <2>1, <3>2, <3>3 DEF ScanGivesUp
  <2>2. ASSUME NEW p \in Nat, NEW pages \in Nat,
               NEW rows \in Seq(Doc \cup Other), NEW shown \in Seq(Doc \cup Other),
               ToSet(rows) \subseteq seen, ToSet(shown) \subseteq seen,
               ScanRead(p, pages, rows, shown)
        PROVE  <1>2
    <3> DEFINE hit == IF Contains(rows, run.cur) THEN 1 ELSE 0
    <3>1. /\ scan' = [scan EXCEPT !.page = p, !.pages = pages, !.total = @ + hit,
                                  !.sig = rows, !.shown = shown,
                                  !.found = IF @ = 0 /\ hit = 1 THEN p ELSE @]
          /\ run' = IF p = pages THEN [run EXCEPT !.pc = scan.next] ELSE run
      BY <2>2 DEF ScanRead
    <3>2. hit \in {0, 1} /\ (hit = 1 => run.cur \in ToSet(rows)) BY DEF Contains, ToSet
    <3> HIDE DEF hit
    <3>3. scan.total + hit \in Nat /\ (scan.total + hit > scan.total => hit = 1) BY <1>1, <3>2
    <3>4. /\ scan' \in ScanRecord /\ scan'.next = scan.next
          /\ scan'.total = scan.total + hit /\ scan'.shown = shown
      BY <1>1, <2>2, <3>1, <3>3 DEF ScanRecord
    <3>5. QED BY <2>2, <3>1, <3>2, <3>3, <3>4
  <2>3. Pages(inbox) \in Nat
    <3>1. Len(inbox) \in Nat /\ PageSize \in Nat \ {0} BY Typed, ApproveAssumption
    <3>2. QED BY <3>1 DEF Pages
  <2>4. scan.page \in Nat /\ scan.pages \in Nat /\ scan.shown \in Seq(Doc \cup Other)
    BY <1>1 DEF ScanRecord
  <2>5. \A p \in Nat \ {0} : Page(p) \in Seq(Doc \cup Other) /\ ToSet(Page(p)) \subseteq seen
    BY Typed, PageShowsList
  <2>6. CASE ReadFirstPage
    <3>1. PICK rows \in Prefixes(Page(1)) : ScanRead(1, Pages(inbox), rows, Page(1))
      BY <2>6 DEF ReadFirstPage
    <3>2. rows \in Seq(Doc \cup Other) /\ ToSet(rows) \subseteq ToSet(Page(1))
      BY <2>5, PrefixShowsLess
    <3>3. Page(1) \in Seq(Doc \cup Other) /\ ToSet(Page(1)) \subseteq seen /\ 1 \in Nat
      BY <2>5
    <3>4. ToSet(rows) \subseteq seen BY <3>2, <3>3
    <3> HIDE DEF seen
    <3>5. QED BY <2>2, <2>3, <3>1, <3>2, <3>3, <3>4
  <2>7. CASE ReadLaterPage
    <3>1. PICK rows \in {Page(scan.page + 1), scan.shown} :
            ScanRead(scan.page + 1, scan.pages, rows, rows)
      BY <2>7 DEF ReadLaterPage
    <3>2. rows \in Seq(Doc \cup Other) /\ ToSet(rows) \subseteq seen
      BY <2>4, <2>5, <3>1
    <3>3. scan.page + 1 \in Nat BY <2>4
    <3> HIDE DEF seen
    <3>4. QED BY <2>2, <2>4, <3>1, <3>2, <3>3
  <2>8. QED BY <2>1, <2>6, <2>7 DEF ScanPage
<1>3. /\ run' \in RunRecord /\ Phase' = Phase
      /\ run'.cur = run.cur /\ run'.live = run.live /\ run'.max = run.max
      /\ run'.clicks = run.clicks /\ run'.base = run.base /\ run'.stamped = run.stamped
      /\ run'.todo = run.todo /\ run'.stranded = run.stranded
      /\ run'.pc = "scan" => scan'.total \in Nat
  BY <1>1, <1>2 DEF RunRecord, Phase, Pc
<1>4. /\ ApproveTypeOK' /\ StrandedDocs' = StrandedDocs /\ AuditAgreesWithSite'
      /\ (committed \cap ToSet(inbox) = {})'
  BY <1>1, <1>2, <1>3, Unwritten
<1>5. UNCHANGED <<last, inbox, stamps, committed, backed, misread, stop, issued, late>>
  BY <1>1 DEF siteVars, pageVars, clickVars
<1>6. PhaseOK' BY <1>1, <1>2, <1>3 DEF ApproveInv, PhaseOK
<1>7. CapOK' BY <1>3, <1>5 DEF ApproveInv, CapOK
<1>8. DoubtOK' BY <1>3, <1>4, <1>5 DEF ApproveInv, DoubtOK
<1>9. SiteOK'
  <2>1. Phase = "settle" /\ (scan'.total > 0 \/ run.cur \in ToSet(scan'.shown))
          => run.cur \notin committed
    <3>1. Phase = "settle" /\ run.cur \in seen => run.cur \notin committed
      BY DEF ApproveInv, SiteOK
    <3>2. scan'.total > 0 => scan'.total > scan.total \/ scan.total > 0 BY <1>1
    <3>3. QED BY <1>2, <3>1, <3>2 DEF ApproveInv, SiteOK
  <2>2. QED BY <1>3, <1>4, <1>5, <2>1 DEF ApproveInv, SiteOK, Dated
<1>10. StopOK' BY <1>3, <1>5 DEF ApproveInv, StopOK
<1>11. QED BY <1>4, <1>6, <1>7, <1>8, <1>9, <1>10 DEF ApproveInv

\* A process that is off has nothing to keep but the doubt it leaves.
LEMMA OffKeeps ==
  ASSUME ApproveInv, run' = Off, scan' \in ScanRecord, last' \in [Doc -> Stage],
         \A d \in Doc : last'[d] = last[d] \/ last'[d] = "skipped",
         UNCHANGED <<siteVars, stop, clickVars>>
  PROVE  ApproveInv'
<1>1. /\ Phase' = "off" /\ ~ run'.live /\ run'.pc = "off"
      /\ UNCHANGED <<inbox, stamps, committed, backed, misread, stop, issued, late>>
  BY DEF Phase, Off, siteVars, pageVars, clickVars
<1>2. ApproveTypeOK' BY <1>1, BlankRecords DEF ApproveInv, ApproveTypeOK
<1>3. PhaseOK' /\ CapOK' BY <1>1 DEF PhaseOK, CapOK, OnTarget, Clicked
<1>4. DoubtOK'
  <2>1. \A d \in StrandedDocs' : d \in StrandedDocs BY DEF StrandedDocs
  <2>2. QED BY <1>1, <2>1 DEF ApproveInv, DoubtOK, Clicked
<1>5. SiteOK' BY <1>1 DEF ApproveInv, SiteOK
<1>6. AuditAgreesWithSite' BY <1>1 DEF ApproveInv, AuditAgreesWithSite
<1>7. StopOK' BY <1>1 DEF ApproveInv, StopOK
<1>8. QED BY <1>2, <1>3, <1>4, <1>5, <1>6, <1>7 DEF ApproveInv

\* The process starts: not at all under STOP, and a live one with what is in doubt.
LEMMA BootKeeps == ASSUME ApproveInv, Boot PROVE ApproveInv'
<1>1. /\ run \in RunRecord /\ run.pc = "queued" /\ Phase = "queued"
      /\ UNCHANGED <<last, scan, siteVars, stop, clickVars>>
      /\ UNCHANGED <<inbox, stamps, committed, backed, misread, issued, late>>
      /\ last \in [Doc -> Stage] /\ scan \in ScanRecord
  BY Typed DEF Boot, Phase, siteVars, pageVars, clickVars
<1>2. CASE stop
  BY <1>1, <1>2, OffKeeps DEF Boot
<1>3. CASE ~ stop
  <2>1. /\ run' \in RunRecord /\ run'.live = run.live /\ run'.max = run.max
        /\ run'.clicks = run.clicks
        /\ run.live => run'.pc = "reconcile" /\ run'.stranded = StrandedDocs
        /\ ~ run.live => run'.pc = "target"
    <3>1. StrandedDocs \in SUBSET Doc BY DEF StrandedDocs
    <3>2. CASE run.live BY <1>1, <1>3, <3>1, <3>2 DEF Boot, RunRecord, Pc
    <3>3. CASE ~ run.live BY <1>1, <1>3, <3>3 DEF Boot, RunRecord, Pc
    <3>4. QED BY <3>2, <3>3
  <2>2. Phase' = run'.pc BY <2>1 DEF Phase
  <2>3. /\ ApproveTypeOK' /\ StrandedDocs' = StrandedDocs /\ AuditAgreesWithSite'
        /\ (committed \cap ToSet(inbox) = {})'
    BY <1>1, <2>1, Unwritten
  <2>4. PhaseOK' BY <2>1, <2>2 DEF PhaseOK, OnTarget, Clicked
  <2>5. CapOK' BY <1>1, <2>1, <2>2 DEF ApproveInv, CapOK
  <2>6. DoubtOK' BY <1>1, <2>1, <2>2, <2>3 DEF ApproveInv, DoubtOK, Clicked
  <2>7. SiteOK' BY <2>1, <2>2, <2>3 DEF SiteOK
  <2>8. StopOK' BY <1>1, <1>3 DEF StopOK
  <2>9. QED BY <2>3, <2>4, <2>5, <2>6, <2>7, <2>8 DEF ApproveInv
<1>4. QED BY <1>2, <1>3

\* The next document in doubt is looked for, or the targets come.
LEMMA ReconcileKeeps == ASSUME ApproveInv, ReconcileNext PROVE ApproveInv'
<1>1. /\ run \in RunRecord /\ run.pc = "reconcile" /\ Phase = "reconcile" /\ run.live
      /\ UNCHANGED <<last, siteVars, stop, clickVars>>
      /\ UNCHANGED <<inbox, stamps, committed, backed, misread, issued, late>>
      /\ scan \in ScanRecord /\ StrandedDocs = run.stranded /\ StrandedDocs \subseteq Doc
  BY Typed DEF ReconcileNext, Phase, siteVars, pageVars, clickVars, ApproveInv, PhaseOK, DoubtOK,
               StrandedDocs
<1>2. ~ (stop /\ late > 0) BY <1>1 DEF ApproveInv, StopOK
<1>3. /\ run' \in RunRecord /\ scan' \in ScanRecord
      /\ run'.live /\ run'.max = run.max /\ run'.clicks = run.clicks
      /\ run'.stranded = run.stranded
      /\ \/ run.stranded = {} /\ run'.pc = "target"
         \/ /\ run'.pc = "scan" /\ scan'.next = "settle" /\ scan'.total = 0
            /\ ToSet(scan'.shown) = {} /\ run'.cur \in Doc
  <2>1. CASE run.stranded = {} /\ run' = [run EXCEPT !.pc = "target"] /\ UNCHANGED scan
    BY <1>1, <2>1 DEF RunRecord, Pc
  <2>2. ASSUME NEW d \in run.stranded, StartScan(d, "settle", run) PROVE <1>3
    <3>1. d \in Doc BY <1>1
    <3>2. /\ run' = [run EXCEPT !.pc = "scan", !.cur = d]
          /\ scan' = [NoScan EXCEPT !.next = "settle"]
      BY <2>2 DEF StartScan
    <3>3. /\ scan' \in ScanRecord /\ scan'.next = "settle" /\ scan'.total = 0
          /\ scan'.shown = <<>>
      BY <3>2, BlankRecords DEF NoScan, ScanRecord, Pc
    <3>e. ToSet(scan'.shown) = {} BY <3>3 DEF ToSet
    <3>4. QED BY <1>1, <3>1, <3>2, <3>3, <3>e DEF RunRecord, Pc
  <2>3. QED BY <1>1, <2>1, <2>2 DEF ReconcileNext
<1>4. /\ ApproveTypeOK' /\ StrandedDocs' = StrandedDocs /\ AuditAgreesWithSite'
      /\ (committed \cap ToSet(inbox) = {})'
  BY <1>1, <1>3, Unwritten
<1>5. Phase' \in {"target", "settle"} /\ (Phase' = "target" => run.stranded = {})
  BY <1>3 DEF Phase
<1>6. PhaseOK' BY <1>3 DEF PhaseOK, Phase, OnTarget, Clicked
<1>7. CapOK' BY <1>1, <1>3, <1>5 DEF ApproveInv, CapOK
<1>8. DoubtOK' BY <1>1, <1>3, <1>4, <1>5 DEF ApproveInv, DoubtOK, Clicked
<1>9. SiteOK' BY <1>1, <1>3, <1>4, <1>5 DEF SiteOK, Phase
<1>10. StopOK' BY <1>1, <1>2 DEF StopOK
<1>11. QED BY <1>4, <1>6, <1>7, <1>8, <1>9, <1>10 DEF ApproveInv

\* A document in doubt gets its verdict, and is in doubt no more.
LEMMA SettleKeeps == ASSUME ApproveInv, Settle PROVE ApproveInv'
<1>1. /\ run \in RunRecord /\ run.pc = "settle" /\ Phase = "settle" /\ run.live
      /\ run.cur \in Doc /\ StrandedDocs = run.stranded
      /\ UNCHANGED <<inbox, stamps, committed, backed, misread, stop, issued, late>>
      /\ scan.total \in Nat \cup {Uncertain, Thrown}
      /\ scan.total > 0 => run.cur \notin committed
  BY Typed DEF Settle, Phase, siteVars, pageVars, clickVars, ApproveInv, PhaseOK, DoubtOK, SiteOK,
               ScanRecord
<1>2. PICK v \in ReconcileVerdicts(scan.total) : Audit(run.cur, v)
  BY DEF Settle
<1>3. /\ v \in Verdict \ {"confirmed"}
      /\ v = "reconciled-failed" => scan.total > 0
  <2>1. scan.total = Thrown \/ scan.total = Uncertain \/ scan.total > 0 \/ scan.total = 0
    BY <1>1
  <2>2. QED BY <1>1, <1>2, <2>1 DEF ReconcileVerdicts, Verdict, Thrown, Uncertain
<1>4. /\ last' \in [Doc -> Stage]
      /\ \A e \in Doc : last'[e] = IF e = run.cur THEN v ELSE last[e]
  BY <1>1, <1>2, <1>3, AuditWrites DEF Stage
<1>5. /\ run' \in RunRecord /\ run'.pc = "reconcile" /\ run'.live /\ run'.max = run.max
      /\ run'.clicks = run.clicks /\ run'.stranded = run.stranded \ {run.cur}
  BY <1>1 DEF Settle, RunRecord, Pc
<1>6. Phase' = "reconcile" /\ scan' \in ScanRecord BY <1>5, BlankRecords DEF Settle, Phase
<1>7. ApproveTypeOK' BY <1>1, <1>4, <1>5, <1>6 DEF ApproveInv, ApproveTypeOK
<1>8. PhaseOK' BY <1>5, <1>6 DEF PhaseOK, OnTarget, Clicked
<1>9. CapOK' BY <1>1, <1>5, <1>6 DEF ApproveInv, CapOK
<1>10. DoubtOK'
  <2>1. StrandedDocs' = StrandedDocs \ {run.cur}
    BY <1>1, <1>3, <1>4 DEF StrandedDocs, Verdict
  <2>2. QED BY <1>1, <1>5, <1>6, <2>1 DEF ApproveInv, DoubtOK, Clicked
<1>11. SiteOK' BY <1>1, <1>6 DEF ApproveInv, SiteOK
<1>12. AuditAgreesWithSite' BY <1>1, <1>3, <1>4 DEF ApproveInv, AuditAgreesWithSite
<1>13. StopOK' BY <1>1 DEF ApproveInv, StopOK
<1>14. QED BY <1>7, <1>8, <1>9, <1>10, <1>11, <1>12, <1>13 DEF ApproveInv

\* The next target: skipped, left with the rest under STOP, or looked for.
LEMMA TargetKeeps == ASSUME ApproveInv, Target PROVE ApproveInv'
<1>1. /\ run \in RunRecord /\ run.pc = "target" /\ Phase = "target"
      /\ UNCHANGED <<siteVars, stop, clickVars>>
      /\ UNCHANGED <<inbox, stamps, committed, backed, misread, issued, late>>
      /\ last \in [Doc -> Stage] /\ scan \in ScanRecord
      /\ run.live => StrandedDocs = {}
  BY Typed DEF Target, Phase, siteVars, pageVars, clickVars, ApproveInv, DoubtOK
<1> DEFINE d == Head(run.todo)
<1>2. CASE run.todo = <<>>
  BY <1>1, <1>2, OffKeeps DEF Target
<1>3. CASE run.todo # <<>> /\ CapIsSpent
  <2>1. Audit(d, "skipped") /\ run' = NextTarget /\ UNCHANGED scan
    BY <1>3 DEF Target
  <2>2. d \in Doc /\ Tail(run.todo) \in Seq(Doc) BY <1>1, <1>3 DEF RunRecord
  <2>3. /\ last' \in [Doc -> Stage]
        /\ \A e \in Doc : last'[e] = IF run.live /\ e = d THEN "skipped" ELSE last[e]
    BY <2>1, <2>2, AuditWrites DEF Stage
  <2>4. /\ run' \in RunRecord /\ run'.pc = "target" /\ run'.live = run.live
        /\ run'.max = run.max /\ run'.clicks = run.clicks
    BY <1>1, <2>1, <2>2 DEF NextTarget, RunRecord, Pc
  <2>5. Phase' = "target" BY <2>4 DEF Phase
  <2>6. ApproveTypeOK' BY <1>1, <2>1, <2>3, <2>4 DEF ApproveInv, ApproveTypeOK
  <2>7. PhaseOK' BY <2>4, <2>5 DEF PhaseOK, OnTarget, Clicked
  <2>8. CapOK' BY <1>1, <2>4, <2>5 DEF ApproveInv, CapOK
  <2>9. DoubtOK'
    <3>1. \A e \in StrandedDocs' : e \in StrandedDocs BY <2>3 DEF StrandedDocs
    <3>2. QED BY <1>1, <2>4, <2>5, <3>1 DEF ApproveInv, DoubtOK, Clicked
  <2>10. SiteOK' BY <1>1, <2>5 DEF ApproveInv, SiteOK
  <2>11. AuditAgreesWithSite' BY <1>1, <2>3 DEF ApproveInv, AuditAgreesWithSite
  <2>12. StopOK' BY <1>1, <2>5 DEF ApproveInv, StopOK
  <2>13. QED BY <2>6, <2>7, <2>8, <2>9, <2>10, <2>11, <2>12 DEF ApproveInv
<1>4. CASE run.todo # <<>> /\ ~ CapIsSpent /\ stop
  <2>1. Audit(d, "skipped") /\ run' = Off /\ UNCHANGED scan
    BY <1>4 DEF Target, SeesStop
  <2>2. d \in Doc BY <1>1, <1>4 DEF RunRecord
  <2>3. /\ last' \in [Doc -> Stage]
        /\ \A e \in Doc : last'[e] = last[e] \/ last'[e] = "skipped"
    BY <2>1, <2>2, AuditWrites DEF Stage
  <2>4. QED BY <1>1, <2>1, <2>3, OffKeeps
<1>5. CASE run.todo # <<>> /\ ~ CapIsSpent /\ ~ stop
  <2>1. /\ Audit(d, "open")
        /\ run' = [run EXCEPT !.pc = "scan", !.cur = d]
        /\ scan' = [NoScan EXCEPT !.next = "open"]
    BY <1>5 DEF Target, SeesStop, StartScan
  <2>2. d \in Doc BY <1>1, <1>5 DEF RunRecord
  <2>3. /\ last' \in [Doc -> Stage]
        /\ \A e \in Doc : last'[e] = IF run.live /\ e = d THEN "open" ELSE last[e]
    BY <2>1, <2>2, AuditWrites DEF Stage
  <2>4. /\ run' \in RunRecord /\ run'.pc = "scan" /\ run'.live = run.live
        /\ run'.max = run.max /\ run'.clicks = run.clicks
        /\ run'.todo = run.todo /\ run'.cur = d
    BY <1>1, <2>1, <2>2 DEF RunRecord, Pc
  <2>5. /\ scan' \in ScanRecord /\ scan'.next = "open" /\ scan'.total \in Nat
    BY <2>1, BlankRecords DEF NoScan, ScanRecord, Pc
  <2>6. Phase' = "open" BY <2>4, <2>5 DEF Phase
  <2>7. ApproveTypeOK' BY <1>1, <2>3, <2>4, <2>5 DEF ApproveInv, ApproveTypeOK
  <2>8. PhaseOK' BY <1>5, <2>2, <2>4, <2>5, <2>6 DEF PhaseOK, OnTarget, Clicked
  <2>9. CapOK'
    <3>1. run.live => 0 < run.max /\ run.clicks < run.max
      BY <1>1, <1>5 DEF ApproveInv, CapOK, CapIsSpent, RunRecord
    <3>2. QED BY <1>1, <2>4, <2>6, <3>1 DEF ApproveInv, CapOK
  <2>10. DoubtOK'
    <3>1. \A e \in StrandedDocs' : e \in StrandedDocs BY <2>3 DEF StrandedDocs
    <3>2. run.live => last'[d] = "open" BY <2>2, <2>3
    <3>3. QED BY <1>1, <2>4, <2>6, <3>1, <3>2 DEF ApproveInv, DoubtOK, Clicked
  <2>11. SiteOK' BY <1>1, <2>6 DEF ApproveInv, SiteOK
  <2>12. AuditAgreesWithSite' BY <1>1, <2>3 DEF ApproveInv, AuditAgreesWithSite
  <2>13. StopOK' BY <1>1, <1>5 DEF StopOK
  <2>14. QED BY <2>7, <2>8, <2>9, <2>10, <2>11, <2>12, <2>13 DEF ApproveInv
<1>6. QED BY <1>1, <1>2, <1>3, <1>4, <1>5 DEF ApproveInv, ApproveTypeOK

\* A target that ends without the site having changed.
LEMMA TargetEndsQuietly ==
  ASSUME ApproveInv, run.pc \in OnTarget, NEW stage \in {"failed", "skipped", "confirmed"},
         Audit(run.cur, stage), run' = NextTarget, scan' \in ScanRecord,
         UNCHANGED <<siteVars, stop, clickVars>>,
         stage = "confirmed" => Dated(run.cur),
         ~ (stop /\ late > 0) \/ run.pc \in {"reopen", "verify"}
  PROVE  ApproveInv'
<1>1. /\ run' \in RunRecord /\ last' \in [Doc -> Stage]
      /\ Phase' = "target" /\ PhaseOK' /\ DoubtOK'
      /\ run'.live = run.live /\ run'.max = run.max /\ run'.clicks = run.clicks
      /\ \A e \in Doc : last'[e] = last[e] \/ (e = run.cur /\ last'[e] = stage)
  BY TargetEnds
<1>2. UNCHANGED <<inbox, stamps, committed, backed, misread, stop, issued, late>>
  BY DEF siteVars, pageVars, clickVars
<1>3. ApproveTypeOK' BY <1>1, <1>2 DEF ApproveInv, ApproveTypeOK
<1>4. CapOK' BY <1>1, <1>2 DEF ApproveInv, CapOK
<1>5. SiteOK' BY <1>1, <1>2 DEF ApproveInv, SiteOK
<1>6. AuditAgreesWithSite' BY <1>1, <1>2 DEF ApproveInv, AuditAgreesWithSite, Dated
<1>7. StopOK' BY <1>1, <1>2 DEF ApproveInv, StopOK
<1>8. QED BY <1>1, <1>3, <1>4, <1>5, <1>6, <1>7 DEF ApproveInv

\* A document being worked on, before its click: nothing is past the kill switch.
LEMMA BeforeTheClick ==
  ASSUME ApproveInv, Phase \in {"open", "guards", "modal", "confirm", "reconcile", "settle"}
  PROVE  ~ (stop /\ late > 0)
BY DEF ApproveInv, StopOK

\* The document is opened, or fails.
LEMMA OpenKeeps == ASSUME ApproveInv, Open PROVE ApproveInv'
<1>1. /\ run \in RunRecord /\ run.pc = "open" /\ Phase = "open"
      /\ run.cur \in Doc /\ run.todo # <<>>
      /\ UNCHANGED <<siteVars, stop, clickVars>>
      /\ UNCHANGED <<inbox, stamps, committed, backed, misread, stop, issued, late>>
      /\ scan' \in ScanRecord /\ ~ (stop /\ late > 0)
  BY Typed, BlankRecords, BeforeTheClick
     DEF Open, Phase, siteVars, pageVars, clickVars, ApproveInv, PhaseOK, OnTarget
<1>2. CASE Fail
  BY <1>1, <1>2, TargetEndsQuietly DEF Fail, OnTarget
<1>3. CASE run' = [run EXCEPT !.pc = "guards"] /\ UNCHANGED last
  <2>1. /\ run' \in RunRecord /\ run'.pc = "guards" /\ run'.live = run.live
        /\ run'.max = run.max /\ run'.clicks = run.clicks
        /\ run'.todo = run.todo /\ run'.cur = run.cur
    BY <1>1, <1>3 DEF RunRecord, Pc
  <2>2. Phase' = "guards" BY <2>1 DEF Phase
  <2>3. /\ ApproveTypeOK' /\ StrandedDocs' = StrandedDocs /\ AuditAgreesWithSite'
        /\ (committed \cap ToSet(inbox) = {})'
    BY <1>1, <1>3, <2>1, Unwritten
  <2>4. PhaseOK' BY <1>1, <2>1, <2>2 DEF PhaseOK, Clicked
  <2>5. CapOK' BY <1>1, <2>1, <2>2 DEF ApproveInv, CapOK
  <2>6. DoubtOK' BY <1>1, <1>3, <2>1, <2>2, <2>3 DEF ApproveInv, DoubtOK, Clicked
  <2>7. SiteOK' BY <2>2, <2>3 DEF SiteOK
  <2>8. StopOK' BY <1>1 DEF StopOK
  <2>9. QED BY <2>3, <2>4, <2>5, <2>6, <2>7, <2>8 DEF ApproveInv
<1>4. QED BY <1>2, <1>3 DEF Open

\* The guards let the document through with its stamps counted, fail it or skip it.
LEMMA GuardsKeeps == ASSUME ApproveInv, Guards PROVE ApproveInv'
<1>1. /\ run \in RunRecord /\ run.pc = "guards" /\ Phase = "guards"
      /\ run.cur \in Doc /\ run.todo # <<>> /\ stamps \in [Doc -> Nat]
      /\ UNCHANGED <<pageVars, stop, clickVars, scan>>
      /\ UNCHANGED <<inbox, stamps, committed, backed, stop, issued, late>>
      /\ scan' \in ScanRecord /\ ~ (stop /\ late > 0)
  BY Typed, BeforeTheClick
     DEF Guards, Phase, pageVars, clickVars, ApproveInv, PhaseOK, OnTarget
<1>2. CASE Fail /\ UNCHANGED misread
  BY <1>1, <1>2, TargetEndsQuietly DEF Fail, OnTarget, siteVars
<1>3. CASE Audit(run.cur, "skipped") /\ run' = NextTarget /\ UNCHANGED misread
  BY <1>1, <1>3, TargetEndsQuietly DEF OnTarget, siteVars
<1>4. ASSUME NEW read \in DatedCells(run.cur), UNCHANGED last,
             run' = [run EXCEPT !.pc = "modal", !.base = read],
             misread' = IF ~ run.live THEN misread
                        ELSE IF read < stamps[run.cur] THEN misread \cup {run.cur}
                        ELSE misread \ {run.cur}
      PROVE  ApproveInv'
  <2>0. stamps[run.cur] \in Nat /\ read \in 0 .. stamps[run.cur] /\ read \in Nat
    BY <1>1 DEF DatedCells
  <2>1. /\ run' \in RunRecord /\ run'.pc = "modal" /\ run'.live = run.live
        /\ run'.max = run.max /\ run'.clicks = run.clicks
        /\ run'.todo = run.todo /\ run'.cur = run.cur /\ run'.base = read
    BY <1>1, <1>4, <2>0 DEF RunRecord, Pc
  <2>2. Phase' = "modal" BY <2>1 DEF Phase
  <2>3. misread' \subseteq Doc BY <1>1, <1>4, Typed
  <2>4. ApproveTypeOK' BY <1>1, <1>4, <2>1, <2>3 DEF ApproveInv, ApproveTypeOK
  <2>5. PhaseOK' BY <1>1, <2>1, <2>2 DEF PhaseOK, Clicked
  <2>6. CapOK' BY <1>1, <2>1, <2>2 DEF ApproveInv, CapOK
  <2>7. StrandedDocs' = StrandedDocs BY <1>4, StrandedKept
  <2>8. DoubtOK' BY <1>1, <1>4, <2>1, <2>2, <2>7 DEF ApproveInv, DoubtOK, Clicked
  <2>9. SiteOK'
    <3>1. run.live /\ stamps[run.cur] > read => run.cur \in misread' BY <1>4, <2>0
    <3>2. (committed \cap ToSet(inbox) = {})' BY <1>1 DEF ApproveInv, SiteOK
    <3>3. QED BY <1>1, <2>1, <2>2, <3>1, <3>2 DEF SiteOK
  <2>10. AuditAgreesWithSite'
    <3>1. run.live => last[run.cur] = "open" BY <1>1 DEF ApproveInv, DoubtOK
    <3>2. \A d \in Doc : last[d] = "confirmed" /\ d \in misread => d \in misread'
      BY <1>4, <3>1
    <3>3. QED BY <1>1, <1>4, <3>2 DEF ApproveInv, AuditAgreesWithSite
  <2>11. StopOK' BY <1>1 DEF StopOK
  <2>12. QED BY <2>4, <2>5, <2>6, <2>8, <2>9, <2>10, <2>11 DEF ApproveInv
<1>5. QED BY <1>2, <1>3, <1>4 DEF Guards

\* The decision is made: a live batch has it on file, and counted, before it clicks.
LEMMA ModalKeeps == ASSUME ApproveInv, Modal PROVE ApproveInv'
<1>1. /\ run \in RunRecord /\ run.pc = "modal" /\ Phase = "modal"
      /\ run.cur \in Doc /\ run.todo # <<>> /\ last \in [Doc -> Stage]
      /\ UNCHANGED <<siteVars, stop, clickVars, scan>>
      /\ UNCHANGED <<inbox, stamps, committed, backed, misread, stop, issued, late>>
      /\ scan' \in ScanRecord /\ ~ (stop /\ late > 0)
  BY Typed, BeforeTheClick
     DEF Modal, Phase, siteVars, pageVars, clickVars, ApproveInv, PhaseOK, OnTarget
<1>2. CASE Fail
  BY <1>1, <1>2, TargetEndsQuietly DEF Fail, OnTarget
<1>3. CASE ~ run.live /\ run' = NextTarget /\ UNCHANGED last
  <2>1. Audit(run.cur, "skipped") BY <1>3 DEF Audit
  <2>2. QED BY <1>1, <1>3, <2>1, TargetEndsQuietly DEF OnTarget
<1>4. CASE /\ run.live /\ Audit(run.cur, "clicked")
           /\ run' = [run EXCEPT !.pc = "confirm", !.clicks = @ + 1]
  <2>0. run.clicks + 1 \in Nat BY <1>1 DEF RunRecord
  <2>1. /\ run' \in RunRecord /\ run'.pc = "confirm" /\ run'.live = run.live
        /\ run'.max = run.max /\ run'.clicks = run.clicks + 1
        /\ run'.todo = run.todo /\ run'.cur = run.cur /\ run'.base = run.base
    BY <1>1, <1>4, <2>0 DEF RunRecord, Pc
  <2>2. Phase' = "confirm" BY <2>1 DEF Phase
  <2>3. /\ last' \in [Doc -> Stage]
        /\ \A e \in Doc : last'[e] = IF e = run.cur THEN "clicked" ELSE last[e]
    BY <1>1, <1>4, AuditWrites DEF Stage
  <2>4. ApproveTypeOK' BY <1>1, <2>1, <2>3 DEF ApproveInv, ApproveTypeOK
  <2>5. PhaseOK' BY <1>1, <1>4, <2>1, <2>2 DEF PhaseOK
  <2>6. CapOK'
    <3>1. run.clicks < run.max /\ issued <= run.clicks BY <1>1, <1>4 DEF ApproveInv, CapOK
    <3>2. run.clicks \in Nat /\ run.max \in Nat /\ issued \in Nat
      BY <1>1, Typed DEF RunRecord
    <3>3. QED BY <1>1, <2>1, <2>2, <3>1, <3>2 DEF CapOK
  <2>7. DoubtOK'
    <3>1. StrandedDocs = {} BY <1>1, <1>4 DEF ApproveInv, DoubtOK
    <3>2. StrandedDocs' \subseteq {run.cur} BY <1>1, <2>3, <3>1 DEF StrandedDocs
    <3>3. QED BY <1>1, <1>4, <2>1, <2>2, <2>3, <3>2 DEF DoubtOK
  <2>8. SiteOK' BY <1>1, <2>1, <2>2 DEF ApproveInv, SiteOK
  <2>9. AuditAgreesWithSite' BY <1>1, <2>3 DEF ApproveInv, AuditAgreesWithSite
  <2>10. StopOK' BY <1>1 DEF StopOK
  <2>11. QED BY <2>4, <2>5, <2>6, <2>7, <2>8, <2>9, <2>10 DEF ApproveInv
<1>5. QED BY <1>2, <1>3, <1>4 DEF Modal

\* The site takes a decision on a document that is on its list, once.
LEMMA SiteTakesIt ==
  ASSUME ApproveInv, NEW d \in Doc, SiteAccepts(d) \/ UNCHANGED siteVars
  PROVE  /\ inbox' \in Seq(Doc \cup Other) /\ IsInjective(inbox)'
         /\ stamps' \in [Doc -> Nat]
         /\ (committed \subseteq backed)' /\ (backed \subseteq Doc)'
         /\ (committed \cap ToSet(inbox) = {})'
         /\ backed \subseteq backed' /\ \A e \in committed' : e \in committed \/ e = d
         /\ \A e \in Doc : /\ stamps'[e] # stamps[e] => e \in backed'
                          /\ stamps'[e] >= stamps[e]
         /\ misread' = misread
<1>1. /\ inbox \in Seq(Doc \cup Other) /\ IsInjective(inbox) /\ stamps \in [Doc -> Nat]
      /\ committed \subseteq backed /\ backed \subseteq Doc
      /\ committed \cap ToSet(inbox) = {}
  BY Typed DEF ApproveInv, SiteOK
<1>2. CASE UNCHANGED siteVars BY <1>1, <1>2 DEF siteVars, pageVars, IsInjective, ToSet
<1>3. CASE SiteAccepts(d)
  <2>1. PICK i \in 1 .. Len(inbox) : inbox[i] = d /\ inbox' = RemoveAt(inbox, i)
    BY <1>3 DEF SiteAccepts, Leaves
  <2>2. /\ inbox' \in Seq(Doc \cup Other) /\ IsInjective(inbox)'
        /\ ToSet(inbox)' \subseteq ToSet(inbox) \ {d}
    BY <1>1, <2>1, ListLosesOne
  <2>3. /\ stamps' = [stamps EXCEPT ![d] = @ + 1]
        /\ committed' = committed \cup {d} /\ backed' = backed \cup {d}
        /\ misread' = misread
    BY <1>3 DEF SiteAccepts
  <2>4. QED BY <1>1, <2>2, <2>3
<1>4. QED BY <1>2, <1>3

\* The click, whether the site takes it or not, and whether it throws or not.
LEMMA ConfirmKeeps == ASSUME ApproveInv, Confirm PROVE ApproveInv'
<1>1. /\ run \in RunRecord /\ run.pc = "confirm" /\ Phase = "confirm" /\ run.live
      /\ run.cur \in Doc /\ run.todo # <<>> /\ last \in [Doc -> Stage]
      /\ UNCHANGED <<stop, scan>> /\ scan \in ScanRecord /\ stop \in BOOLEAN
      /\ issued' = issued + 1 /\ issued \in Nat /\ issued < run.clicks
      /\ late' = (IF stop THEN late + 1 ELSE late) /\ late \in Nat
      /\ StrandedDocs \subseteq {run.cur} /\ last[run.cur] = "clicked"
      /\ ~ (stop /\ late > 0)
  BY Typed, BeforeTheClick
     DEF Confirm, Phase, ApproveInv, PhaseOK, CapOK, DoubtOK, OnTarget, Clicked
<1>2. /\ inbox' \in Seq(Doc \cup Other) /\ IsInjective(inbox)'
      /\ stamps' \in [Doc -> Nat]
      /\ (committed \subseteq backed)' /\ (backed \subseteq Doc)'
      /\ (committed \cap ToSet(inbox) = {})'
      /\ backed \subseteq backed' /\ \A e \in committed' : e \in committed \/ e = run.cur
      /\ \A e \in Doc : /\ stamps'[e] # stamps[e] => e \in backed'
                       /\ stamps'[e] >= stamps[e]
      /\ misread' = misread /\ misread \subseteq Doc /\ stamps \in [Doc -> Nat]
  BY <1>1, Typed, SiteTakesIt DEF Confirm
<1>3. issued' \in Nat /\ issued' <= run.clicks /\ late' \in Nat /\ (stop' => late' = 1)
  BY <1>1 DEF RunRecord
<1>4. /\ last' \in [Doc -> Stage]
      /\ \A e \in Doc : last'[e] = last[e] \/ (e = run.cur /\ last'[e] = "failed")
      /\ last'[run.cur] \in {"clicked", "failed"}
      /\ run' \in RunRecord /\ run'.live = run.live /\ run'.max = run.max
      /\ run'.clicks = run.clicks /\ Phase' \in {"target", "reopen"}
      /\ PhaseOK' /\ DoubtOK'
      /\ Phase' = "reopen" => run'.cur = run.cur /\ run'.base = run.base
  <2>1. CASE Fail
    <3>1. /\ run' \in RunRecord /\ last' \in [Doc -> Stage]
          /\ Phase' = "target" /\ PhaseOK' /\ DoubtOK'
          /\ run'.live = run.live /\ run'.max = run.max /\ run'.clicks = run.clicks
          /\ \A e \in Doc : last'[e] = last[e] \/ (e = run.cur /\ last'[e] = "failed")
      BY <1>1, <2>1, TargetEnds DEF Fail, OnTarget
    <3>2. QED BY <1>1, <3>1
  <2>2. CASE run' = [run EXCEPT !.pc = "reopen"] /\ UNCHANGED last
    <3>1. /\ run' \in RunRecord /\ run'.pc = "reopen" /\ run'.live = run.live
          /\ run'.max = run.max /\ run'.clicks = run.clicks
          /\ run'.todo = run.todo /\ run'.cur = run.cur /\ run'.base = run.base
      BY <1>1, <2>2 DEF RunRecord, Pc
    <3>2. Phase' = "reopen" BY <3>1 DEF Phase
    <3>3. PhaseOK' BY <1>1, <3>1, <3>2 DEF PhaseOK
    <3>4. StrandedDocs' = StrandedDocs BY <2>2, StrandedKept
    <3>5. DoubtOK' BY <1>1, <3>1, <3>2, <3>4 DEF ApproveInv, DoubtOK
    <3>6. QED BY <1>1, <2>2, <3>1, <3>2, <3>3, <3>5
  <2>3. QED BY <2>1, <2>2 DEF Confirm
<1>5. ApproveTypeOK' BY <1>1, <1>2, <1>3, <1>4 DEF ApproveTypeOK
<1>6. CapOK' BY <1>1, <1>3, <1>4 DEF ApproveInv, CapOK
<1>7. SiteOK'
  <2>1. stamps[run.cur] > run.base => run.cur \in backed \cup misread
    BY <1>1 DEF ApproveInv, SiteOK
  <2>2. stamps'[run.cur] > run.base => run.cur \in backed' \cup misread' BY <1>1, <1>2, <2>1
  <2>3. QED BY <1>2, <1>4, <2>2 DEF SiteOK
<1>8. AuditAgreesWithSite'
  <2>1. ASSUME NEW d \in Doc
        PROVE  /\ last'[d] = "confirmed" => stamps'[d] > 0 /\ d \in backed' \cup misread'
               /\ last'[d] = "reconciled-failed" => d \notin committed'
    <3>1. CASE d = run.cur BY <1>4, <3>1
    <3>2. CASE d # run.cur
      <4>1. last'[d] = last[d] BY <1>4, <3>2
      <4>2. /\ last[d] = "confirmed" => stamps[d] > 0 /\ d \in backed \cup misread
            /\ last[d] = "reconciled-failed" => d \notin committed
        BY DEF ApproveInv, AuditAgreesWithSite
      <4>3. stamps[d] \in Nat /\ stamps'[d] \in Nat /\ stamps'[d] >= stamps[d] BY <1>2
      <4>4. stamps[d] > 0 => stamps'[d] > 0 BY <4>3
      <4>5. d \notin committed => d \notin committed' BY <1>2, <3>2
      <4>6. d \in backed \cup misread => d \in backed' \cup misread' BY <1>2
      <4>7. QED BY <4>1, <4>2, <4>4, <4>5, <4>6
    <3>3. QED BY <3>1, <3>2
  <2>2. QED BY <2>1 DEF AuditAgreesWithSite
<1>9. StopOK' BY <1>3, <1>4 DEF StopOK
<1>10. QED BY <1>4, <1>5, <1>6, <1>7, <1>8, <1>9 DEF ApproveInv

\* The document is opened again, and its stamps are compared with the baseline.
LEMMA ReopenKeeps == ASSUME ApproveInv, Reopen PROVE ApproveInv'
<1>1. /\ run \in RunRecord /\ run.pc = "reopen" /\ Phase = "reopen"
      /\ run.cur \in Doc /\ run.todo # <<>>
      /\ UNCHANGED <<siteVars, stop, clickVars>>
      /\ UNCHANGED <<inbox, stamps, committed, backed, misread, stop, issued, late>>
      /\ scan \in ScanRecord
  BY Typed DEF Reopen, Phase, siteVars, pageVars, clickVars, ApproveInv, PhaseOK, OnTarget
<1>2. CASE Fail /\ UNCHANGED scan
  BY <1>1, <1>2, TargetEndsQuietly DEF Fail, OnTarget
<1>3. ASSUME NEW read \in DatedCells(run.cur), UNCHANGED last,
             StartScan(run.cur, "verify", [run EXCEPT !.stamped = read > run.base])
      PROVE  ApproveInv'
  <2> DEFINE newer == read > run.base
  <2>1. /\ run' = [[run EXCEPT !.stamped = newer] EXCEPT !.pc = "scan", !.cur = run.cur]
        /\ scan' = [NoScan EXCEPT !.next = "verify"]
    BY <1>3 DEF StartScan
  <2>2. newer \in BOOLEAN OBVIOUS
  <2>3. newer => Dated(run.cur)
    <3>1. stamps[run.cur] \in Nat /\ read \in 0 .. stamps[run.cur] /\ run.base \in Nat /\ run.live
      BY <1>1, Typed DEF DatedCells, RunRecord, ApproveInv, PhaseOK, Clicked
    <3>2. newer => stamps[run.cur] > run.base BY <3>1
    <3>3. QED BY <1>1, <3>1, <3>2 DEF ApproveInv, SiteOK, Dated
  <2> HIDE DEF newer
  <2>4. /\ run' \in RunRecord /\ run'.pc = "scan" /\ run'.live = run.live
        /\ run'.max = run.max /\ run'.clicks = run.clicks
        /\ run'.todo = run.todo /\ run'.cur = run.cur /\ run'.stamped = newer
    BY <1>1, <2>1, <2>2 DEF RunRecord, Pc
  <2>5. /\ scan' \in ScanRecord /\ scan'.next = "verify" /\ scan'.total \in Nat
    BY <2>1, BlankRecords DEF NoScan, ScanRecord, Pc
  <2>6. Phase' = "verify" BY <2>4, <2>5 DEF Phase
  <2>7. /\ ApproveTypeOK' /\ StrandedDocs' = StrandedDocs /\ AuditAgreesWithSite'
        /\ (committed \cap ToSet(inbox) = {})'
    BY <1>1, <1>3, <2>4, <2>5, Unwritten
  <2>8. PhaseOK' BY <1>1, <2>4, <2>5, <2>6 DEF ApproveInv, PhaseOK, Clicked
  <2>9. CapOK' BY <1>1, <2>4, <2>6 DEF ApproveInv, CapOK
  <2>10. DoubtOK' BY <1>1, <2>4, <2>6, <2>7 DEF ApproveInv, DoubtOK, Clicked
  <2>11. SiteOK' BY <1>1, <2>3, <2>4, <2>6, <2>7 DEF SiteOK, Dated
  <2>12. StopOK' BY <1>1, <2>6 DEF ApproveInv, StopOK
  <2>13. QED BY <2>7, <2>8, <2>9, <2>10, <2>11, <2>12 DEF ApproveInv
<1>4. QED BY <1>2, <1>3 DEF Reopen

\* The verdict on a click: confirmed only with a stamp that is new.
LEMMA VerifyKeeps == ASSUME ApproveInv, Verify PROVE ApproveInv'
<1>1. /\ run.pc = "verify" /\ Phase = "verify"
      /\ UNCHANGED <<siteVars, stop, clickVars>> /\ scan' \in ScanRecord
  BY BlankRecords DEF Verify, Phase
<1>2. CASE Completed(run.stamped, scan.total)
  <2>1. Dated(run.cur) BY <1>1, <1>2 DEF ApproveInv, SiteOK, Completed
  <2>2. Audit(run.cur, "confirmed") /\ run' = NextTarget BY <1>2 DEF Verify
  <2>3. QED BY <1>1, <2>1, <2>2, TargetEndsQuietly DEF OnTarget
<1>3. CASE ~ Completed(run.stamped, scan.total)
  <2>1. Audit(run.cur, "failed") /\ run' = NextTarget BY <1>3 DEF Verify, Fail
  <2>2. QED BY <1>1, <2>1, TargetEndsQuietly DEF OnTarget
<1>4. QED BY <1>2, <1>3

-----------------------------------------------------------------------------
(* The steps of everybody else.                                             *)

\* A batch is queued: its cap is at least one click, and none is issued yet.
LEMMA EnqueueKeeps == ASSUME ApproveInv, Enqueue PROVE ApproveInv'
<1>1. /\ run.pc = "off" /\ issued' = 0
      /\ UNCHANGED <<last, scan, inbox, stamps, committed, backed, misread>>
      /\ stop \in BOOLEAN /\ late \in Nat
  BY Typed DEF Enqueue, siteVars, pageVars
<1>p. PICK targets \in Batch, live \in BOOLEAN, clear \in BOOLEAN :
        \E max \in 1 .. Len(targets) :
          /\ run' = [Off EXCEPT !.pc = "queued", !.live = live, !.todo = targets,
                                !.max = IF live THEN max ELSE 0]
          /\ stop' = (stop /\ ~ clear)
          /\ late' = IF clear THEN 0 ELSE late
  BY DEF Enqueue
<1>2. PICK max \in 1 .. Len(targets) :
        /\ run' = [Off EXCEPT !.pc = "queued", !.live = live, !.todo = targets,
                              !.max = IF live THEN max ELSE 0]
        /\ stop' = (stop /\ ~ clear)
        /\ late' = IF clear THEN 0 ELSE late
  BY <1>p
<1>3. targets \in Seq(Doc) /\ max \in Nat /\ max > 0 BY ApproveAssumption
<1>4. /\ run' \in RunRecord /\ run'.pc = "queued" /\ run'.clicks = 0
      /\ run'.live = live /\ (live => run'.max = max)
  BY <1>2, <1>3, BlankRecords DEF Off, RunRecord, Pc
<1>5. Phase' = "queued" BY <1>4 DEF Phase
<1>6. stop' \in BOOLEAN /\ late' \in Nat /\ (stop' => stop /\ late' = late) BY <1>1, <1>2
<1>7. ApproveTypeOK' BY <1>1, <1>4, <1>6 DEF ApproveInv, ApproveTypeOK
<1>8. PhaseOK' BY <1>4, <1>5 DEF PhaseOK, OnTarget, Clicked
<1>9. CapOK' BY <1>1, <1>3, <1>4, <1>5 DEF CapOK
<1>10. StrandedDocs' = StrandedDocs BY <1>1, StrandedKept
<1>11. DoubtOK' BY <1>4, <1>5, <1>10 DEF ApproveInv, DoubtOK, Clicked
<1>12. SiteOK' BY <1>1, <1>5 DEF ApproveInv, SiteOK
<1>13. AuditAgreesWithSite' BY <1>1 DEF ApproveInv, AuditAgreesWithSite
<1>14. StopOK' BY <1>5, <1>6 DEF ApproveInv, StopOK
<1>15. QED BY <1>7, <1>8, <1>9, <1>11, <1>12, <1>13, <1>14 DEF ApproveInv

\* STOP is pressed or cleared.
LEMMA StopMoves == ASSUME ApproveInv, PressStop \/ ClearStop PROVE ApproveInv'
<1>0. stop \in BOOLEAN /\ late \in Nat BY Typed
<1>1. /\ UNCHANGED <<last, scan, inbox, stamps, committed, backed, misread, run, issued>>
      /\ stop' \in BOOLEAN /\ late' \in Nat
      /\ stop' => late' = 0 \/ (stop /\ late' = late)
  <2>1. CASE PressStop BY <1>0, <2>1 DEF PressStop, siteVars, pageVars
  <2>2. CASE ClearStop BY <1>0, <2>2 DEF ClearStop, siteVars, pageVars
  <2>3. QED BY <2>1, <2>2
<1>2. Phase' = Phase BY <1>1 DEF Phase
<1>3. ApproveTypeOK' BY <1>1 DEF ApproveInv, ApproveTypeOK
<1>4. PhaseOK' /\ CapOK' BY <1>1, <1>2 DEF ApproveInv, PhaseOK, CapOK
<1>5. StrandedDocs' = StrandedDocs BY <1>1, StrandedKept
<1>6. DoubtOK' BY <1>1, <1>2, <1>5 DEF ApproveInv, DoubtOK
<1>7. SiteOK' /\ AuditAgreesWithSite'
  BY <1>1, <1>2 DEF ApproveInv, SiteOK, AuditAgreesWithSite, Dated
<1>8. StopOK' BY <1>1, <1>2 DEF ApproveInv, StopOK
<1>9. QED BY <1>3, <1>4, <1>6, <1>7, <1>8 DEF ApproveInv

\* Other people move the list and stamp documents; they never undo a decision.
LEMMA MovesKeep == ASSUME ApproveInv, SiteMoves PROVE ApproveInv'
<1>1. /\ UNCHANGED <<last, stop, run, scan, issued, late>>
      /\ inbox \in Seq(Doc \cup Other) /\ IsInjective(inbox) /\ stamps \in [Doc -> Nat]
      /\ committed \subseteq backed /\ backed \subseteq Doc
      /\ committed \cap ToSet(inbox) = {} /\ run \in RunRecord
  BY Typed DEF SiteMoves, clickVars, ApproveInv, SiteOK
<1>2. /\ inbox' \in Seq(Doc \cup Other) /\ IsInjective(inbox)'
      /\ stamps' \in [Doc -> Nat]
      /\ (committed \subseteq backed)' /\ (backed \subseteq Doc)'
      /\ (committed \cap ToSet(inbox) = {})' /\ committed' = committed
      /\ backed \subseteq backed' /\ misread' = misread
      /\ \A e \in Doc : /\ stamps'[e] # stamps[e] => e \in backed'
                       /\ stamps'[e] >= stamps[e]
  <2>1. ASSUME NEW d, Leaves(d)
        PROVE  /\ inbox' \in Seq(Doc \cup Other) /\ IsInjective(inbox)'
               /\ ToSet(inbox)' \subseteq ToSet(inbox)
    <3>1. PICK i \in 1 .. Len(inbox) : inbox' = RemoveAt(inbox, i) BY <2>1 DEF Leaves
    <3>2. QED BY <1>1, <3>1, ListLosesOne
  <2>2. ASSUME NEW d \in Doc, OtherStamps(d) PROVE <1>2
    <3>1. /\ stamps' = [stamps EXCEPT ![d] = @ + 1] /\ backed' = backed \cup {d}
          /\ committed' = committed /\ misread' = misread /\ (inbox' = inbox \/ Leaves(d))
      BY <2>2 DEF OtherStamps
    <3>2. CASE inbox' = inbox BY <1>1, <3>1, <3>2 DEF IsInjective, ToSet
    <3>3. CASE Leaves(d) BY <1>1, <2>1, <3>1, <3>3
    <3>4. QED BY <3>1, <3>2, <3>3
  <2>3. ASSUME NEW d \in Doc \cup Other, Withdrawn(d) PROVE <1>2
    <3>1. Leaves(d) /\ UNCHANGED <<stamps, committed, backed, misread>> BY <2>3 DEF Withdrawn
    <3>2. QED BY <1>1, <2>1, <3>1
  <2>4. ASSUME NEW d \in Other, Arrives(d) PROVE <1>2
    <3>1. /\ d \notin ToSet(inbox) /\ UNCHANGED <<stamps, committed, backed, misread>>
          /\ inbox' = <<d>> \o inbox \/ inbox' = Append(inbox, d)
      <4>1. DOMAIN inbox = 1 .. Len(inbox) BY <1>1
      <4>2. QED BY <2>4, <4>1 DEF Arrives, Contains, ToSet
    <3>2. /\ inbox' \in Seq(Doc \cup Other) /\ IsInjective(inbox')
          /\ ToSet(inbox') \subseteq ToSet(inbox) \cup {d}
      <4> DEFINE S == Doc \cup Other
                 c == inbox
                 e == inbox'
      <4>1. c \in Seq(S) /\ IsInjective(c) /\ d \in S /\ d \notin ToSet(c) BY <1>1, <3>1
      <4>2. e = <<d>> \o c \/ e = Append(c, d) BY <3>1
      <4> HIDE DEF S, c, e
      <4>3. e \in Seq(S) /\ IsInjective(e) /\ ToSet(e) \subseteq ToSet(c) \cup {d}
        BY <4>1, <4>2, ListGainsOne, Zenon
      <4>4. QED BY <4>3 DEF S, c, e
    <3>3. d \notin committed BY <1>1, ApproveAssumption
    <3>4. IsInjective(inbox)' /\ ToSet(inbox)' = ToSet(inbox') BY <3>2 DEF IsInjective, ToSet
    <3>5. QED BY <1>1, <3>1, <3>2, <3>3, <3>4
  <2>5. QED BY <2>2, <2>3, <2>4 DEF SiteMoves
<1>3. Phase' = Phase BY <1>1 DEF Phase
<1>4. ApproveTypeOK' BY <1>1, <1>2 DEF ApproveInv, ApproveTypeOK
<1>5. PhaseOK' /\ CapOK' BY <1>1, <1>3 DEF ApproveInv, PhaseOK, CapOK
<1>6. StrandedDocs' = StrandedDocs BY <1>1, StrandedKept
<1>7. DoubtOK' BY <1>1, <1>3, <1>6 DEF ApproveInv, DoubtOK
<1>8. SiteOK'
  <2>1. Phase \in {"modal", "confirm", "reopen"} => run.cur \in Doc
    BY DEF ApproveInv, PhaseOK, OnTarget
  <2>2. run.live /\ Phase \in {"modal", "confirm", "reopen"} /\ stamps'[run.cur] > run.base
          => run.cur \in backed' \cup misread'
    BY <1>2, <2>1 DEF ApproveInv, SiteOK
  <2>c. Phase = "verify" => run.cur \in Doc BY DEF ApproveInv, PhaseOK, OnTarget
  <2>v. Phase = "verify" /\ run.stamped => Dated(run.cur)'
    BY <1>1, <1>2, <2>c DEF ApproveInv, SiteOK, Dated
  <2>3. QED BY <1>1, <1>2, <1>3, <2>2, <2>v DEF ApproveInv, SiteOK
<1>9. AuditAgreesWithSite' BY <1>1, <1>2 DEF ApproveInv, AuditAgreesWithSite
<1>10. StopOK' BY <1>1, <1>3 DEF ApproveInv, StopOK
<1>11. QED BY <1>4, <1>5, <1>7, <1>8, <1>9, <1>10 DEF ApproveInv

-----------------------------------------------------------------------------
(* The theorems.                                                            *)

\* The process is off, nothing is on file and nothing was clicked.
LEMMA ApproveInitOK == ApproveInit => ApproveInv
<1> SUFFICES ASSUME ApproveInit PROVE ApproveInv OBVIOUS
<1>1. PICK start \in SUBSET Other : inbox \in SetToSeqs(Doc \cup start) BY DEF ApproveInit
<1>2. IsFiniteSet(Doc \cup start)
  BY ApproveAssumption, FS_Subset
<1>3. Cardinality(Doc \cup start) \in Nat BY <1>2, FS_CardinalityType
<1>4. /\ inbox \in [1 .. Cardinality(Doc \cup start) -> Doc \cup start]
      /\ \A i, j \in 1 .. Cardinality(Doc \cup start) : i # j => inbox[i] # inbox[j]
  BY <1>1 DEF SetToSeqs
<1>5. inbox \in Seq(Doc \cup Other)
  <2>1. \A n \in Nat : [1 .. n -> Doc \cup start] \subseteq Seq(Doc \cup start)
    BY SeqDef
  <2>2. inbox \in Seq(Doc \cup start) BY <1>3, <1>4, <2>1
  <2>3. QED BY <2>2
<1>6. IsInjective(inbox) BY <1>4 DEF IsInjective
<1>7. /\ run = Off /\ scan = NoScan /\ stop = FALSE /\ issued = 0 /\ late = 0
      /\ committed = {} /\ backed = {} /\ misread = {}
      /\ last \in [Doc -> Stage] /\ stamps \in [Doc -> Nat]
      /\ \A d \in Doc : last[d] = "none"
  BY DEF ApproveInit, Stage
<1>8. Phase = "off" /\ ~ run.live /\ run.pc = "off" BY <1>7 DEF Phase, Off
<1>9. StrandedDocs = {} BY <1>7 DEF StrandedDocs
<1>10. ApproveTypeOK BY <1>5, <1>6, <1>7, BlankRecords DEF ApproveTypeOK
<1>11. PhaseOK /\ CapOK BY <1>8 DEF PhaseOK, CapOK, OnTarget, Clicked
<1>12. DoubtOK BY <1>8, <1>9 DEF DoubtOK, Clicked
<1>13. SiteOK /\ AuditAgreesWithSite /\ StopOK
  BY <1>7, <1>8 DEF SiteOK, AuditAgreesWithSite, StopOK
<1>14. QED BY <1>10, <1>11, <1>12, <1>13 DEF ApproveInv

\* Every step keeps the invariant.
LEMMA ApproveStepOK == ApproveInv /\ [ApproveNext]_vars => ApproveInv'
<1> SUFFICES ASSUME ApproveInv, [ApproveNext]_vars PROVE ApproveInv' OBVIOUS
<1>1. CASE RunStep
  BY <1>1, BootKeeps, ReconcileKeeps, SettleKeeps, TargetKeeps, ScanKeeps, OpenKeeps,
     GuardsKeeps, ModalKeeps, ConfirmKeeps, ReopenKeeps, VerifyKeeps DEF RunStep
<1>2. CASE Killed
  BY <1>2, Typed, BlankRecords, OffKeeps DEF Killed
<1>3. CASE UNCHANGED vars
  BY <1>3 DEF vars, ApproveInv, ApproveTypeOK, PhaseOK, CapOK, DoubtOK, SiteOK,
              AuditAgreesWithSite, StopOK, Phase, StrandedDocs, Dated, ToSet, IsInjective
<1>4. QED
  BY <1>1, <1>2, <1>3, EnqueueKeeps, StopMoves, MovesKeep DEF ApproveNext

\* The invariant holds in every state.
THEOREM ApproveInvariant == ApproveSpec => []ApproveInv
BY ApproveInitOK, ApproveStepOK, PTL DEF ApproveSpec

\* The cap binds the clicks that cannot be taken back, however they ended, and at most
\* one document is ever left in doubt, however often the process is killed.
THEOREM BatchBounded == ApproveSpec => []BatchIsBounded
<1>1. ApproveInv => BatchIsBounded
  <2> SUFFICES ASSUME ApproveInv PROVE BatchIsBounded OBVIOUS
  <2>1. CapBindsClicks
    <3>1. run.live => run.max \in Nat /\ run.clicks \in Nat /\ issued \in Nat
      BY Typed DEF RunRecord
    <3>2. QED BY <3>1 DEF ApproveInv, CapOK, CapBindsClicks
  <2>2. OneStrandedDoc
    <3>1. CASE StrandedDocs = {}
      BY <3>1, FS_EmptySet DEF OneStrandedDoc
    <3>2. CASE StrandedDocs # {}
      <4>1. PICK d \in StrandedDocs : TRUE BY <3>2
      <4>2. StrandedDocs = {d} BY DEF ApproveInv, DoubtOK
      <4>3. QED BY <4>2, FS_Singleton DEF OneStrandedDoc
    <3>3. QED BY <3>1, <3>2
  <2>3. QED BY <2>1, <2>2 DEF ApproveInv, BatchIsBounded
<1>2. QED BY <1>1, ApproveInvariant, PTL

\* What the audit file says the site did, it did: a confirmed document carries a stamp of
\* today, put there by somebody unless the one look before the click read the page short;
\* and none is said not to have gone through that our click committed.
THEOREM AuditIsTrue == ApproveSpec => []AuditAgreesWithSite
<1>1. ApproveInv => AuditAgreesWithSite BY DEF ApproveInv
<1>2. QED BY <1>1, ApproveInvariant, PTL

\* After STOP is pressed only the document in hand is still clicked.
THEOREM KillSwitch == ApproveSpec => []KillSwitchHolds
<1>1. ApproveInv => KillSwitchHolds
  BY Typed DEF ApproveInv, StopOK, KillSwitchHolds
<1>2. QED BY <1>1, ApproveInvariant, PTL
=============================================================================
