------------------------ MODULE ServerRequestsProofs -------------------------
(***************************************************************************)
(* What the server keeps, proved for every set of files, tenants, steps,   *)
(* posts, scopes and documents: the artifact table, the edits of a flow,   *)
(* the deletion of a tenant's data, and the records of a system.  Last,    *)
(* all parts of ServerRequests side by side.                               *)
(***************************************************************************)
EXTENDS ServerRequests, RequestGateProofs, SecretMigrationProofs, FiniteSetTheorems

-----------------------------------------------------------------------------
(* The artifact table.                                                      *)

\* What was deleted has a row, and that row is a tombstone.
TableInv == TableTypeOK /\ \A f \in deleted : art[f].state = "tombstone"

\* A deletion marks its files, and no other row.
LEMMA TombstoneMarks ==
  ASSUME TableInv, NEW S \in SUBSET ArtifactFile, Tombstone(S), UNCHANGED busy
  PROVE  TableInv'
<1>1. art \in [ArtifactFile -> ArtifactRow] /\ busy \subseteq Reader /\ deleted \subseteq ArtifactFile
  BY DEF TableInv, TableTypeOK
<1>2. /\ art' = [f \in ArtifactFile |->
                  IF f \in S THEN [art[f] EXCEPT !.state = "tombstone"] ELSE art[f]]
      /\ deleted' = deleted \cup S
  BY DEF Tombstone
<1>3. \A f \in ArtifactFile :
        /\ art'[f] \in ArtifactRow
        /\ f \in S => art'[f].state = "tombstone"
        /\ f \notin S => art'[f] = art[f]
  <2> TAKE f \in ArtifactFile
  <2>1. art[f] \in ArtifactRow BY <1>1
  <2>2. CASE f \in S BY <1>2, <2>1, <2>2 DEF ArtifactRow
  <2>3. CASE f \notin S BY <1>2, <2>1, <2>3
  <2>4. QED BY <2>2, <2>3
<1>4. TableTypeOK'
  <2>1. art' = [f \in ArtifactFile |-> art'[f]] BY <1>2
  <2>2. art' \in [ArtifactFile -> ArtifactRow] BY <1>3, <2>1
  <2>3. QED BY <1>1, <1>2, <2>2 DEF TableTypeOK
<1>5. \A f \in deleted' : art'[f].state = "tombstone"
  BY <1>1, <1>2, <1>3 DEF TableInv
<1>6. QED BY <1>4, <1>5 DEF TableInv

\* Every operation keeps the invariant: a tombstone that a run saves again stays one.
LEMMA TableStep == TableInv /\ [TableNext]_tableVars => TableInv'
<1> SUFFICES ASSUME TableInv, [TableNext]_tableVars PROVE TableInv'
  OBVIOUS
<1>t. art \in [ArtifactFile -> ArtifactRow] /\ busy \subseteq Reader /\ deleted \subseteq ArtifactFile
  BY DEF TableInv, TableTypeOK
<1>1. ASSUME NEW f \in ArtifactFile, NEW held \in BOOLEAN, SaveArtifact(f, held) PROVE TableInv'
  <2>1. art' = [art EXCEPT ![f] = Upserted(art[f], held)] /\ UNCHANGED <<busy, deleted>>
    BY <1>1 DEF SaveArtifact
  <2>2. Upserted(art[f], held) \in ArtifactRow
        /\ (art[f].state = "tombstone" => Upserted(art[f], held).state = "tombstone")
    BY <1>t DEF Upserted, ArtifactRow
  <2>3. TableTypeOK' BY <1>t, <2>1, <2>2 DEF TableTypeOK
  <2>4. \A g \in deleted : art'[g].state = "tombstone"
    BY <1>t, <2>1, <2>2 DEF TableInv
  <2>5. QED BY <2>1, <2>3, <2>4 DEF TableInv
<1>2. ASSUME NEW t \in Reader, NEW f \in ArtifactFile, TombstoneArtifact(t, f) PROVE TableInv'
  BY <1>2, TombstoneMarks DEF TombstoneArtifact
<1>3. ASSUME NEW t \in Reader, TombstoneTenant(t) PROVE TableInv'
  BY <1>3, TombstoneMarks DEF TombstoneTenant, LiveRows
<1>4. ASSUME NEW t \in Reader, JobsMove(t) PROVE TableInv'
  BY <1>4, <1>t DEF JobsMove, TableInv, TableTypeOK
<1>5. CASE UNCHANGED tableVars
  BY <1>5, <1>t DEF tableVars, TableInv, TableTypeOK
<1>6. QED BY <1>1, <1>2, <1>3, <1>4, <1>5 DEF TableNext

\* In every behaviour of the artifact table the types hold, and what was deleted is
\* served to nobody.
THEOREM TableSound == TableSpec => [](TableTypeOK /\ DeletedIsNotServed)
<1>1. TableInit => TableInv
  BY DEF TableInit, TableInv, TableTypeOK, ArtifactRow
<1>2. TableInv => TableTypeOK /\ DeletedIsNotServed
  <2> SUFFICES ASSUME TableInv, NEW f \in deleted, NEW t \in Reader, NEW external \in BOOLEAN
               PROVE  ~ Served(t, f, external)
    BY DEF TableInv, DeletedIsNotServed
  <2>1. f \in ArtifactFile /\ art[f].state = "tombstone"
    BY DEF TableInv, TableTypeOK
  <2>2. f \in Rows(RunOfFile[f]) BY <2>1 DEF Rows
  <2>3. QED BY <2>1, <2>2 DEF Served
<1>3. QED BY <1>1, <1>2, TableStep, PTL DEF TableSpec

-----------------------------------------------------------------------------
(* The files of a flow.                                                     *)

Opened == [pc: {"read", "write", "orphan"}, wish: Wish, steps: [Step -> StepKind],
           vals: SUBSET Field]
PostRecord == {NoPost} \cup [pc: {"wait"}, wish: Wish] \cup Opened

\* The chain is a queue of the posts that are there, without repetition.
ChainOK ==
  /\ chain \in Seq(Post) /\ IsInjective(chain)
  /\ Range(chain) = {p \in Post : post[p].pc # "none"}

FilesTypes ==
  /\ steps \in [Step -> StepKind] /\ vals \subseteq Field /\ torn \subseteq File
  /\ said \subseteq Wish
  /\ post \in [Post -> PostRecord]
  /\ verify \in {NoVerify} \cup [on: {TRUE}, steps: [Step -> StepKind]]

\* What an edit was answered to have done is so in these steps and values.
Holds(w, st, vs) ==
  /\ w.edit = "save" => w.on \in vs
  /\ w.edit = "convert" => st[w.on] = "record"
  /\ w.edit = "resolve" => st[w.on] # "review"

\* A post that has read a file is the one that runs; what it read has every edit that
\* was answered, and is what its own edit asks for.
ReadIsCurrent(p) ==
  /\ post[p].pc \in {"read", "write", "orphan"} => Running(p)
  /\ post[p].pc \in {"read", "write"} =>
       /\ \A w \in said : Holds(w, post[p].steps, post[p].vals)
       /\ post[p].wish.edit = "resolve" => post[p].steps[post[p].wish.on] = "review"
       /\ post[p].wish.edit = "convert" => post[p].steps[post[p].wish.on] \in {"review", "find"}

\* A file that is torn is being written, or no edit of it is claimed.
TornIsKnown(f) ==
  \/ \E p \in Post : post[p].pc = "write" /\ FileOf(post[p].wish) = f
  \/ \A w \in said : FileOf(w) # f

FilesInv ==
  /\ FilesTypes /\ ChainOK
  /\ \A w \in said : Holds(w, steps, vals)
  /\ \A p \in Post : ReadIsCurrent(p)
  /\ \A f \in torn : TornIsKnown(f)

\* The invariant implies what the runs check.
LEMMA FilesInvHolds == FilesInv => FilesTypeOK /\ EditsSurvive
<1> SUFFICES ASSUME FilesInv PROVE FilesTypeOK /\ EditsSurvive
  OBVIOUS
<1>1. FilesTypeOK BY DEF FilesInv, FilesTypes, ChainOK, FilesTypeOK
<1>2. EditsSurvive
  <2> SUFFICES ASSUME NEW w \in said
               PROVE  \/ w.edit = "save" /\ w.on \in vals
                      \/ w.edit = "convert" /\ steps[w.on] = "record"
                      \/ w.edit = "resolve" /\ steps[w.on] # "review"
    BY DEF EditsSurvive
  <2>1. w.edit \in {"save", "convert", "resolve"}
    BY DEF FilesInv, FilesTypes, Wish
  <2>2. QED BY <2>1 DEF FilesInv, Holds
<1>3. QED BY <1>1, <1>2

\* The invariant holds at the start.
LEMMA FilesInitOK == FilesInit => FilesInv
<1> SUFFICES ASSUME FilesInit PROVE FilesInv
  OBVIOUS
<1>1. FilesTypes BY DEF FilesInit, FilesTypes, PostRecord, StepKind
<1>2. ChainOK
  <2>1. chain = <<>> /\ chain \in Seq(Post) BY DEF FilesInit
  <2>2. \A p \in Post : post[p].pc = "none" BY DEF FilesInit, NoPost
  <2>3. QED BY <2>1, <2>2 DEF ChainOK, IsInjective, Range
<1>3. \A p \in Post : ReadIsCurrent(p) BY DEF FilesInit, ReadIsCurrent, NoPost
<1>4. QED BY <1>1, <1>2, <1>3 DEF FilesInit, FilesInv

\* A post that joins the chain is its last.
LEMMA AppendToChain ==
  ASSUME NEW c \in Seq(Post), IsInjective(c), NEW p \in Post, p \notin Range(c)
  PROVE  /\ Append(c, p) \in Seq(Post) /\ IsInjective(Append(c, p))
         /\ Range(Append(c, p)) = Range(c) \cup {p}
         /\ c # <<>> => Append(c, p) # <<>> /\ Head(Append(c, p)) = Head(c)
<1> DEFINE d == Append(c, p)
<1>1. /\ d \in Seq(Post) /\ Len(d) = Len(c) + 1 /\ Len(c) \in Nat
      /\ DOMAIN c = 1 .. Len(c) /\ DOMAIN d = 1 .. Len(c) + 1
      /\ \A i \in 1 .. Len(c) : d[i] = c[i]
      /\ d[Len(c) + 1] = p
  OBVIOUS
<1>2. IsInjective(d)
  <2> HIDE DEF d
  <2> SUFFICES ASSUME NEW i \in DOMAIN d, NEW j \in DOMAIN d, d[i] = d[j] PROVE i = j
    BY DEF IsInjective
  <2>1. \A k \in 1 .. Len(c) : d[k] # p BY <1>1 DEF Range
  <2>2. CASE i \in 1 .. Len(c) /\ j \in 1 .. Len(c)
    BY <1>1, <2>2 DEF IsInjective
  <2>3. CASE i = Len(c) + 1 BY <1>1, <2>1, <2>3
  <2>4. CASE j = Len(c) + 1 BY <1>1, <2>1, <2>4
  <2>5. QED BY <1>1, <2>2, <2>3, <2>4
<1>3. Range(d) = Range(c) \cup {p}
  <2> HIDE DEF d
  <2>1. Range(d) \subseteq Range(c) \cup {p} BY <1>1 DEF Range
  <2>2. Range(c) \cup {p} \subseteq Range(d) BY <1>1 DEF Range
  <2>3. QED BY <2>1, <2>2
<1>4. c # <<>> => d # <<>> /\ Head(d) = Head(c)
  BY <1>1
<1>5. QED BY <1>1, <1>2, <1>3, <1>4

\* The chain without its first.
LEMMA TailOfChain ==
  ASSUME NEW c \in Seq(Post), IsInjective(c), c # <<>>
  PROVE  /\ Tail(c) \in Seq(Post) /\ IsInjective(Tail(c))
         /\ Range(Tail(c)) = Range(c) \ {Head(c)}
<1> DEFINE d == Tail(c)
<1>1. /\ d \in Seq(Post) /\ Len(c) \in Nat \ {0} /\ Len(d) = Len(c) - 1
      /\ DOMAIN c = 1 .. Len(c) /\ DOMAIN d = 1 .. Len(c) - 1
      /\ \A i \in 1 .. Len(c) - 1 : d[i] = c[i + 1]
      /\ Head(c) = c[1]
  OBVIOUS
<1>2. \A i \in DOMAIN c, j \in DOMAIN c : c[i] = c[j] => i = j
  BY DEF IsInjective
<1> HIDE DEF d
<1>3. IsInjective(d)
  <2> SUFFICES ASSUME NEW i \in DOMAIN d, NEW j \in DOMAIN d, d[i] = d[j] PROVE i = j
    BY DEF IsInjective
  <2>1. i + 1 \in DOMAIN c /\ j + 1 \in DOMAIN c /\ c[i + 1] = c[j + 1] BY <1>1
  <2>2. QED BY <1>1, <1>2, <2>1
<1>4. Range(d) \subseteq Range(c) \ {Head(c)}
  <2> SUFFICES ASSUME NEW i \in DOMAIN d PROVE d[i] \in Range(c) /\ d[i] # Head(c)
    BY DEF Range
  <2>1. i + 1 \in DOMAIN c /\ d[i] = c[i + 1] /\ i + 1 # 1 /\ 1 \in DOMAIN c BY <1>1
  <2>2. QED BY <1>1, <1>2, <2>1 DEF Range
<1>5. Range(c) \ {Head(c)} \subseteq Range(d)
  <2> SUFFICES ASSUME NEW i \in DOMAIN c, c[i] # Head(c) PROVE c[i] \in Range(d)
    BY DEF Range
  <2>1. i - 1 \in DOMAIN d /\ d[i - 1] = c[i] BY <1>1
  <2>2. QED BY <2>1 DEF Range
<1>6. QED BY <1>1, <1>3, <1>4, <1>5 DEF d

\* When the running post leaves, those that remain are in the chain and have read
\* nothing.
LEMMA LeaveKeepsChain ==
  ASSUME FilesInv, NEW p \in Post, Running(p), Leave(p)
  PROVE  /\ ChainOK' /\ post' \in [Post -> PostRecord]
         /\ \A q \in Post : post'[q].pc \in {"none", "wait"}
<1>1. chain \in Seq(Post) /\ IsInjective(chain) /\ chain # <<>> /\ p = Head(chain)
      /\ Range(chain) = {q \in Post : post[q].pc # "none"}
      /\ post \in [Post -> PostRecord]
  BY DEF FilesInv, FilesTypes, ChainOK, Running
<1>2. chain' = Tail(chain) /\ post' = [post EXCEPT ![p] = NoPost]
  BY DEF Leave
<1>3. \A q \in Post : post'[q] = IF q = p THEN NoPost ELSE post[q]
  BY <1>1, <1>2
<1>4. \A q \in Post : q # p => post[q].pc \in {"none", "wait"}
  <2> SUFFICES ASSUME NEW q \in Post, q # p PROVE post[q].pc \in {"none", "wait"}
    OBVIOUS
  <2>1. post[q].pc \notin {"read", "write", "orphan"}
    BY <1>1 DEF FilesInv, ReadIsCurrent, Running
  <2>2. post[q] \in PostRecord BY <1>1
  <2>3. QED BY <2>1, <2>2 DEF PostRecord, Opened, NoPost
<1>5. NoPost \in PostRecord /\ NoPost.pc = "none" BY DEF PostRecord, NoPost
<1>6. Range(chain') = {q \in Post : post'[q].pc # "none"}
  <2>1. Range(chain') = Range(chain) \ {p} BY <1>1, <1>2, TailOfChain
  <2>2. QED BY <1>1, <1>3, <1>5, <2>1
<1>7. ChainOK' BY <1>1, <1>2, <1>6, TailOfChain DEF ChainOK
<1>8. post' \in [Post -> PostRecord] BY <1>1, <1>2, <1>5
<1>9. QED BY <1>3, <1>4, <1>5, <1>7, <1>8

\* A step that opens no file and claims nothing new keeps the invariant: the chain and
\* the posts, then, are all there is to look at.
LEMMA QuietKeeps ==
  ASSUME FilesInv, UNCHANGED <<steps, vals, torn, verify, said>>,
         ChainOK', post' \in [Post -> PostRecord],
         \A q \in Post : ReadIsCurrent(q)', \A f \in torn : TornIsKnown(f)'
  PROVE  FilesInv'
<1>1. FilesTypes' BY DEF FilesInv, FilesTypes
<1>2. \A w \in said' : Holds(w, steps', vals') BY DEF FilesInv, Holds
<1>3. QED BY <1>1, <1>2 DEF FilesInv

\* Every step keeps the invariant.
LEMMA FilesStep == FilesInv /\ [FilesNext]_fileVars => FilesInv'
<1> SUFFICES ASSUME FilesInv, [FilesNext]_fileVars PROVE FilesInv'
  OBVIOUS
<1>t. FilesTypes /\ ChainOK /\ \A w \in said : Holds(w, steps, vals)
  BY DEF FilesInv
<1>r. ASSUME NEW p \in Post, post[p].pc \notin {"none", "wait"}
      PROVE  post[p] \in Opened /\ Running(p)
  <2>1. post[p] \in PostRecord BY <1>t DEF FilesTypes
  <2>2. post[p] \in Opened BY <1>r, <2>1 DEF PostRecord, NoPost
  <2>3. QED BY <2>2 DEF FilesInv, ReadIsCurrent, Opened
<1>1. ASSUME NEW p \in Post, NEW w \in Wish, Arrive(p, w) PROVE FilesInv'
  <2> DEFINE new == [pc |-> "wait", wish |-> w]
  <2>1. /\ post[p].pc = "none" /\ post' = [post EXCEPT ![p] = new] /\ chain' = Append(chain, p)
        /\ UNCHANGED <<steps, vals, torn, verify, said>>
    BY <1>1 DEF Arrive, NoPost
  <2>2. new \in PostRecord /\ new.pc = "wait" BY DEF PostRecord
  <2>3. /\ post' \in [Post -> PostRecord] /\ post'[p].pc = "wait"
        /\ \A q \in Post : q # p => post'[q] = post[q]
    <3> HIDE DEF new
    <3> QED BY <1>t, <2>1, <2>2 DEF FilesTypes
  <2>4. p \notin Range(chain) /\ Range(chain) = {q \in Post : post[q].pc # "none"}
    BY <1>t, <2>1 DEF ChainOK
  <2>5. /\ chain' \in Seq(Post) /\ IsInjective(chain') /\ Range(chain') = Range(chain) \cup {p}
        /\ chain # <<>> => chain' # <<>> /\ Head(chain') = Head(chain)
    BY <1>t, <2>1, <2>4, AppendToChain DEF ChainOK
  <2>6. ChainOK' BY <2>3, <2>4, <2>5 DEF ChainOK
  <2>7. \A q \in Post : Running(q) => Running(q)'
    BY <2>5 DEF Running
  <2>8. ASSUME NEW q \in Post PROVE ReadIsCurrent(q)'
    <3>1. CASE q = p BY <2>3, <3>1 DEF ReadIsCurrent
    <3>2. CASE q # p
      BY <2>1, <2>3, <2>7, <3>2 DEF FilesInv, ReadIsCurrent, Holds
    <3>3. QED BY <3>1, <3>2
  <2>9. \A f \in torn : TornIsKnown(f)'
    BY <2>1, <2>3 DEF FilesInv, TornIsKnown
  <2>10. QED BY <2>1, <2>3, <2>6, <2>8, <2>9, QuietKeeps
<1>2. ASSUME NEW p \in Post, Read(p) PROVE FilesInv'
  <2> DEFINE w == post[p].wish
             opened == [pc |-> "read", wish |-> w, steps |-> steps, vals |-> Fields]
  <2>1. Running(p) /\ post[p].pc = "wait" /\ UNCHANGED <<steps, vals, torn, verify, said>>
    BY <1>2 DEF Read
  <2>2. w \in Wish /\ post \in [Post -> PostRecord]
    BY <1>t, <2>1 DEF FilesTypes, PostRecord, NoPost, Opened
  <2>3. \A q \in Post : post[q].pc # "write"
    BY <1>r, <2>1 DEF Running
  <2>4. \A f \in torn : \A v \in said : FileOf(v) # f
    BY <2>3 DEF FilesInv, TornIsKnown
  <2>5. \A f \in torn : TornIsKnown(f)'
    BY <2>1, <2>4 DEF TornIsKnown
  <2>6. CASE Editable(w) /\ post' = [post EXCEPT ![p] = opened] /\ UNCHANGED chain
    <3>1. post' = [post EXCEPT ![p] = opened] /\ UNCHANGED chain
      BY <2>6
    <3>2. opened \in PostRecord
      BY <1>t, <2>2 DEF FilesTypes, Fields, PostRecord, Opened
    <3>3. /\ post' \in [Post -> PostRecord] /\ post'[p] = opened
          /\ \A q \in Post : q # p => post'[q] = post[q]
      <4> HIDE DEF opened
      <4> QED BY <2>2, <3>1, <3>2
    <3>4. ChainOK' BY <1>t, <2>1, <3>1, <3>3 DEF ChainOK
    <3>5. \A v \in said : Holds(v, steps, Fields)
      <4> SUFFICES ASSUME NEW v \in said PROVE v.edit = "save" => v.on \in Fields
        BY <1>t DEF Holds
      <4>1. QED BY <1>t, <2>4 DEF Holds, Fields, FileOf
    <3>6. /\ w.edit = "resolve" => steps[w.on] = "review"
          /\ w.edit = "convert" => steps[w.on] \in {"review", "find"}
      BY <2>6 DEF Editable, Editables
    <3>7. ASSUME NEW q \in Post PROVE ReadIsCurrent(q)'
      <4>1. CASE q = p
        <5>1. /\ post'[q].pc = "read" /\ post'[q].wish = w /\ post'[q].steps = steps
              /\ post'[q].vals = Fields
          BY <3>3, <4>1
        <5>2. Running(q)' BY <2>1, <3>1, <4>1 DEF Running
        <5> HIDE DEF w
        <5>3. QED BY <2>1, <3>5, <3>6, <5>1, <5>2 DEF ReadIsCurrent, Holds
      <4>2. CASE q # p
        BY <2>1, <3>1, <3>3, <4>2 DEF FilesInv, ReadIsCurrent, Holds, Running
      <4>3. QED BY <4>1, <4>2
    <3>8. QED BY <2>1, <2>5, <3>3, <3>4, <3>7, QuietKeeps
  <2>7. CASE Leave(p)
    <3>1. Leave(p) BY <2>7
    <3>2. /\ ChainOK' /\ post' \in [Post -> PostRecord]
          /\ \A q \in Post : post'[q].pc \in {"none", "wait"}
      BY <2>1, <3>1, LeaveKeepsChain
    <3>3. \A q \in Post : ReadIsCurrent(q)' BY <3>2 DEF ReadIsCurrent
    <3>4. QED BY <2>1, <2>5, <3>2, <3>3, QuietKeeps
  <2>8. QED BY <1>2, <2>6, <2>7 DEF Read
<1>3. ASSUME NEW p \in Post, WriteBegins(p) PROVE FilesInv'
  <2> DEFINE f == FileOf(post[p].wish)
  <2>1. /\ Running(p) /\ post[p].pc = "read" /\ torn' = torn \cup {f}
        /\ post' = [post EXCEPT ![p].pc = "write"]
        /\ UNCHANGED <<steps, vals, chain, verify, said>>
    BY <1>3 DEF WriteBegins
  <2>2. post[p] \in Opened BY <1>r, <2>1
  <2>3. /\ post' \in [Post -> PostRecord] /\ post'[p].pc = "write"
        /\ post'[p].wish = post[p].wish /\ post'[p].steps = post[p].steps
        /\ post'[p].vals = post[p].vals
        /\ \A q \in Post : q # p => post'[q] = post[q]
    <3>1. [post[p] EXCEPT !.pc = "write"] \in PostRecord
      BY <2>2 DEF PostRecord, Opened
    <3>2. QED BY <1>t, <2>1, <2>2, <3>1 DEF FilesTypes, Opened
  <2>4. f \in File BY DEF FileOf, File
  <2>5. FilesTypes' BY <1>t, <2>1, <2>3, <2>4 DEF FilesTypes
  <2>6. ChainOK' BY <1>t, <2>1, <2>3 DEF ChainOK
  <2>7. \A q \in Post : ReadIsCurrent(q)'
    BY <2>1, <2>3 DEF FilesInv, ReadIsCurrent, Holds, Running
  <2>8. \A g \in torn' : TornIsKnown(g)'
    <3> SUFFICES ASSUME NEW g \in torn' PROVE TornIsKnown(g)'
      OBVIOUS
    <3>1. CASE g = f BY <2>3, <3>1 DEF TornIsKnown, FileOf
    <3>2. CASE g # f
      <4>1. TornIsKnown(g) BY <2>1, <3>2 DEF FilesInv
      <4>2. QED BY <2>1, <2>3, <4>1 DEF TornIsKnown, FileOf
    <3>3. QED BY <3>1, <3>2
  <2>9. QED BY <1>t, <2>1, <2>5, <2>6, <2>7, <2>8 DEF FilesInv, Holds
<1>4. ASSUME NEW p \in Post, WriteEnds(p) PROVE FilesInv'
  <2> DEFINE w == post[p].wish
  <2>1. Running(p) /\ post[p].pc = "write" /\ Leave(p) /\ UNCHANGED verify
        /\ torn' = torn \ {FileOf(w)} /\ said' = said \cup {w}
    BY <1>4 DEF WriteEnds
  <2>2. post[p] \in Opened /\ w \in Wish
    BY <1>r, <2>1 DEF Opened
  <2>3. /\ \A v \in said : Holds(v, post[p].steps, post[p].vals)
        /\ w.edit = "resolve" => post[p].steps[w.on] = "review"
        /\ w.edit = "convert" => post[p].steps[w.on] \in {"review", "find"}
    BY <2>1 DEF FilesInv, ReadIsCurrent
  <2>4. /\ ChainOK' /\ post' \in [Post -> PostRecord]
        /\ \A q \in Post : post'[q].pc \in {"none", "wait"}
    BY <2>1, LeaveKeepsChain
  <2>5. /\ steps' \in [Step -> StepKind] /\ vals' \subseteq Field
        /\ \A v \in said' : Holds(v, steps', vals')
    <3>1. CASE w.edit = "save"
      <4>1. vals' = post[p].vals \cup {w.on} /\ UNCHANGED steps
        BY <1>4, <3>1 DEF WriteEnds, Merged
      <4>2. w.on \in Field BY <2>2, <3>1 DEF Wish
      <4>3. QED BY <1>t, <2>1, <2>2, <2>3, <3>1, <4>1, <4>2 DEF FilesTypes, Opened, Holds
    <3>2. CASE w.edit \in {"resolve", "convert"}
      <4>1. steps' = Edited(p) /\ UNCHANGED vals
        BY <1>4, <3>2 DEF WriteEnds
      <4>2. w.on \in Step /\ post[p].steps \in [Step -> StepKind] BY <2>2, <3>2 DEF Wish, Opened
      <4> DEFINE made == IF w.edit = "resolve" THEN "find" ELSE "record"
      <4>3. steps' = [post[p].steps EXCEPT ![w.on] = made]
        BY <4>1 DEF Edited
      <4>4. made \in StepKind /\ made # "review" BY DEF StepKind
      <4>5. steps' \in [Step -> StepKind] /\ steps'[w.on] = made
            /\ \A x \in Step : x # w.on => steps'[x] = post[p].steps[x]
        <5> HIDE DEF made, w
        <5> QED BY <4>2, <4>3, <4>4
      <4>6. Holds(w, steps', vals')
        BY <3>2, <4>4, <4>5 DEF Holds
      <4>7. ASSUME NEW v \in said PROVE Holds(v, steps', vals')
        <5>1. v.edit = "save" => v.on \in vals' BY <1>t, <4>1 DEF Holds
        <5>2. v.edit \in {"convert", "resolve"} => v.on \in Step
          BY <1>t DEF FilesTypes, Wish
        <5>3. Holds(v, post[p].steps, post[p].vals) BY <2>3
        <5>4. CASE v.on = w.on
          BY <2>3, <3>2, <4>5, <5>1, <5>3, <5>4 DEF Holds
        <5>5. CASE v.on # w.on
          BY <4>5, <5>1, <5>2, <5>3, <5>5 DEF Holds
        <5>6. QED BY <5>4, <5>5
      <4>8. QED BY <1>t, <2>1, <4>1, <4>5, <4>6, <4>7 DEF FilesTypes
    <3>3. QED BY <2>2, <3>1, <3>2 DEF Wish
  <2>6. FilesTypes' BY <1>t, <2>1, <2>2, <2>4, <2>5 DEF FilesTypes
  <2>7. \A q \in Post : ReadIsCurrent(q)' BY <2>4 DEF ReadIsCurrent
  <2>8. ASSUME NEW g \in torn' PROVE TornIsKnown(g)'
    <3>1. g \in torn /\ g # FileOf(w) BY <2>1
    <3>2. \A q \in Post : post[q].pc = "write" => FileOf(post[q].wish) # g
      BY <1>r, <2>1, <3>1 DEF Running
    <3>3. \A v \in said : FileOf(v) # g
      BY <3>1, <3>2 DEF FilesInv, TornIsKnown
    <3>4. QED BY <2>1, <3>1, <3>3 DEF TornIsKnown
  <2>9. QED BY <2>4, <2>5, <2>6, <2>7, <2>8 DEF FilesInv
<1>5. ASSUME NEW p \in Post, WriteIsLost(p) PROVE FilesInv'
  <2>1. Running(p) /\ post[p].pc = "orphan" /\ Leave(p)
        /\ UNCHANGED <<steps, vals, torn, verify, said>>
    BY <1>5 DEF WriteIsLost
  <2>2. /\ ChainOK' /\ post' \in [Post -> PostRecord]
        /\ \A q \in Post : post'[q].pc \in {"none", "wait"}
    BY <2>1, LeaveKeepsChain
  <2>3. \A q \in Post : ReadIsCurrent(q)' BY <2>2 DEF ReadIsCurrent
  <2>4. \A q \in Post : post[q].pc # "write" BY <1>r, <2>1 DEF Running
  <2>5. \A f \in torn : TornIsKnown(f)' BY <2>1, <2>4 DEF FilesInv, TornIsKnown
  <2>6. QED BY <2>1, <2>2, <2>3, <2>5, QuietKeeps
<1>6. CASE VerifyReads
  <2>1. verify' \in {NoVerify} \cup [on: {TRUE}, steps: [Step -> StepKind]]
        /\ UNCHANGED <<steps, vals, torn, chain, post, said>>
    BY <1>6, <1>t DEF VerifyReads, FilesTypes
  <2>2. FilesTypes' /\ ChainOK' BY <1>t, <2>1 DEF FilesTypes, ChainOK
  <2>3. \A q \in Post : ReadIsCurrent(q)' BY <2>1 DEF FilesInv, ReadIsCurrent, Running, Holds
  <2>4. \A f \in torn : TornIsKnown(f)' BY <2>1 DEF FilesInv, TornIsKnown
  <2>5. QED BY <1>t, <2>1, <2>2, <2>3, <2>4 DEF FilesInv, Holds
<1>7. CASE VerifyEnds
  <2>1. verify.on /\ verify' = NoVerify /\ UNCHANGED <<vals, chain>>
    BY <1>7 DEF VerifyEnds
  <2>2. verify.steps \in [Step -> StepKind]
    <3>1. NoVerify.on = FALSE BY DEF NoVerify
    <3>2. verify # NoVerify BY <2>1, <3>1
    <3>3. QED BY <1>t, <3>2 DEF FilesTypes
  <2>3. ASSUME NEW s \in Step,
               steps' \in {verify.steps, [verify.steps EXCEPT ![s] = "review"]},
               torn' = torn \ {"flow"},
               post' = [p \in Post |->
                 IF post[p].pc = "write" /\ FileOf(post[p].wish) = "flow"
                 THEN [post[p] EXCEPT !.pc = "orphan"] ELSE post[p]],
               said' = {w \in said : FileOf(w) = "flow" =>
                           steps'[w.on] # "review" /\ steps[w.on] = verify.steps[w.on]}
        PROVE  FilesInv'
    <3>1. /\ steps' \in [Step -> StepKind] /\ said' \subseteq said
          /\ \A x \in Step : steps'[x] # "review" => steps'[x] = verify.steps[x]
      BY <2>2, <2>3 DEF StepKind
    <3>2. ASSUME NEW q \in Post
          PROVE  /\ post'[q] \in PostRecord
                 /\ post'[q].pc = "none" <=> post[q].pc = "none"
                 /\ post'[q].pc \in {"read", "write"} => post'[q] = post[q]
                 /\ post'[q].pc = "orphan" => post[q].pc \in {"write", "orphan"}
                 /\ post[q].pc = "write" /\ FileOf(post[q].wish) # "flow" => post'[q] = post[q]
      <4>1. CASE post[q].pc = "write" /\ FileOf(post[q].wish) = "flow"
        <5>1. post[q] \in Opened BY <1>r, <4>1
        <5>2. post'[q] = [post[q] EXCEPT !.pc = "orphan"] BY <2>3, <4>1
        <5>3. post'[q] \in Opened /\ post'[q].pc = "orphan" BY <5>1, <5>2 DEF Opened
        <5>4. QED BY <4>1, <5>3 DEF PostRecord
      <4>2. CASE ~ (post[q].pc = "write" /\ FileOf(post[q].wish) = "flow")
        BY <1>t, <2>3, <4>2 DEF FilesTypes
      <4>3. QED BY <4>1, <4>2
    <3>3. post' \in [Post -> PostRecord]
      <4>1. post' = [q \in Post |-> post'[q]] BY <2>3
      <4>2. QED BY <3>2, <4>1
    <3>4. FilesTypes'
      BY <1>t, <2>1, <2>3, <3>1, <3>3 DEF FilesTypes
    <3>5. ChainOK' BY <1>t, <2>1, <3>2 DEF ChainOK
    <3>6. ASSUME NEW w \in said' PROVE Holds(w, steps', vals')
      <4>1. w \in said /\ w \in Wish /\ Holds(w, steps, vals)
        BY <1>t, <3>1 DEF FilesTypes
      <4>2. CASE w.edit = "save" BY <2>1, <4>1, <4>2 DEF Holds
      <4>3. CASE w.edit # "save"
        <5>1. FileOf(w) = "flow" /\ w.on \in Step BY <4>1, <4>3 DEF FileOf, Wish
        <5>2. steps'[w.on] # "review" /\ steps[w.on] = verify.steps[w.on]
          BY <2>3, <5>1
        <5>3. steps'[w.on] = steps[w.on] BY <3>1, <5>1, <5>2
        <5>4. QED BY <4>1, <4>3, <5>2, <5>3 DEF Holds
      <4>4. QED BY <4>2, <4>3
    <3>7. ASSUME NEW q \in Post PROVE ReadIsCurrent(q)'
      <4>1. Running(q)' <=> Running(q) BY <2>1 DEF Running
      <4>2. post'[q].pc \in {"read", "write", "orphan"} => Running(q)'
        BY <3>2, <4>1 DEF FilesInv, ReadIsCurrent
      <4>3. CASE post'[q].pc \in {"read", "write"}
        <5>1. post'[q] = post[q] /\ post[q].pc \in {"read", "write"} BY <3>2, <4>3
        <5>2. QED BY <3>1, <4>2, <5>1 DEF FilesInv, ReadIsCurrent, Holds
      <4>4. QED BY <4>2, <4>3 DEF ReadIsCurrent
    <3>8. ASSUME NEW g \in torn' PROVE TornIsKnown(g)'
      <4>1. g \in torn /\ g # "flow" BY <2>3
      <4>2. TornIsKnown(g) BY <4>1 DEF FilesInv
      <4>3. CASE \E p \in Post : post[p].pc = "write" /\ FileOf(post[p].wish) = g
        BY <3>2, <4>1, <4>3 DEF TornIsKnown
      <4>4. CASE \A w \in said : FileOf(w) # g
        BY <3>1, <4>4 DEF TornIsKnown
      <4>5. QED BY <4>2, <4>3, <4>4 DEF TornIsKnown
    <3>9. QED BY <3>4, <3>5, <3>6, <3>7, <3>8 DEF FilesInv
  <2>4. CASE UNCHANGED <<steps, torn, post, said>>
    <3>1. FilesTypes' /\ ChainOK' BY <1>t, <2>1, <2>4 DEF FilesTypes, ChainOK
    <3>2. \A q \in Post : ReadIsCurrent(q)'
      BY <2>1, <2>4 DEF FilesInv, ReadIsCurrent, Running, Holds
    <3>3. \A f \in torn : TornIsKnown(f)' BY <2>4 DEF FilesInv, TornIsKnown
    <3>4. QED BY <1>t, <2>1, <2>4, <3>1, <3>2, <3>3 DEF FilesInv, Holds
  <2>5. QED BY <1>7, <2>3, <2>4 DEF VerifyEnds
<1>8. CASE ServerDies
  <2>1. /\ chain' = <<>> /\ post' = [p \in Post |-> NoPost]
        /\ said' = {w \in said : FileOf(w) \notin torn}
        /\ UNCHANGED <<steps, vals, torn, verify>>
    BY <1>8 DEF ServerDies
  <2>2. FilesTypes' BY <1>t, <2>1 DEF FilesTypes, PostRecord
  <2>3. \A q \in Post : post'[q].pc = "none" BY <2>1 DEF NoPost
  <2>4. ChainOK'
    <3>1. chain' \in Seq(Post) /\ DOMAIN chain' = {} BY <2>1
    <3>2. QED BY <2>3, <3>1 DEF ChainOK, IsInjective, Range
  <2>5. \A q \in Post : ReadIsCurrent(q)' BY <2>3 DEF ReadIsCurrent
  <2>6. \A f \in torn' : TornIsKnown(f)' BY <2>1 DEF TornIsKnown
  <2>7. QED BY <1>t, <2>1, <2>2, <2>4, <2>5, <2>6 DEF FilesInv, Holds
<1>9. CASE UNCHANGED fileVars
  <2>1. UNCHANGED <<steps, vals, torn, chain, post, verify, said>> BY <1>9 DEF fileVars
  <2>2. FilesTypes' /\ ChainOK' BY <1>t, <2>1 DEF FilesTypes, ChainOK
  <2>3. \A q \in Post : ReadIsCurrent(q)' BY <2>1 DEF FilesInv, ReadIsCurrent, Running, Holds
  <2>4. \A f \in torn : TornIsKnown(f)' BY <2>1 DEF FilesInv, TornIsKnown
  <2>5. QED BY <1>t, <2>1, <2>2, <2>3, <2>4 DEF FilesInv, Holds
<1>10. QED
  BY <1>1, <1>2, <1>3, <1>4, <1>5, <1>6, <1>7, <1>8, <1>9 DEF FilesNext

\* Whatever edits, verify runs and server deaths there are, what an edit was answered to
\* have done is there, and the types hold.
THEOREM FilesSound == FilesSpec => [](FilesTypeOK /\ EditsSurvive)
BY FilesInitOK, FilesStep, FilesInvHolds, PTL DEF FilesSpec

-----------------------------------------------------------------------------
(* The deletion of a tenant's data.                                         *)

ExecField == {"pc", "copy", "named", "had", "todo", "done", "failed", "undoFailed", "result"}

\* An execution keeps its fields; one that is under way has a result to be.
ExecOK(x) ==
  /\ x = [f \in ExecField |-> x[f]]
  /\ x.pc \in {"idle", "clean", "undo", "end"}
  /\ x.copy \in Record /\ x.had \subseteq Artifact /\ x.undoFailed \in BOOLEAN
  /\ (x.pc = "clean") = (x.todo # {} /\ x.failed = {})
  /\ x.pc = "idle" => x.result = "none"
  /\ x.pc # "idle" => x.result \in AttemptStatus

DeletionTypes ==
  /\ rec \in Record /\ hash \in 0 .. MaxHash /\ adapter \in Adapter /\ bytes \subseteq Artifact
  /\ overlap \in BOOLEAN /\ begun \in 0 .. MaxBegun
  /\ ex = [e \in Executor |-> ex[e]]
  /\ \A e \in Executor : ExecOK(ex[e])

\* An approval that a record carries was handed out for the record's scope and tenant.
ApprovalIsIssued(r) ==
  r.approval.allowed =>
    \E i \in issued : i.approval = r.approval /\ i.scope = r.scope /\ i.tenant = r.tenant

ToDelete(s) == {a \in s.arts : NeedsBytes(s, a)}
Removed(x)  == {a \in x.done : NeedsBytes(x.copy.scope, a)}

\* How the bytes stand to those an execution found, when it is alone.
Accounts(x, b) ==
  /\ x.pc = "clean" =>
       /\ x.result = "completed" /\ x.copy.scope.arts \subseteq x.todo \cup x.done
       /\ b = x.had \ Removed(x)
  /\ x.pc = "undo" =>
       /\ x.result = "partial-failure"
       /\ ~ x.undoFailed => b \cup x.failed = (x.had \ Removed(x)) \cup x.failed
  /\ x.pc = "end" =>
       /\ x.result = "completed" => ToDelete(x.copy.scope) \cap b = {}
       /\ x.result = "partial-failure" /\ ~ x.undoFailed =>
            b \cup x.failed = x.had \cup x.failed

\* What a tombstone says is gone was gone before the execution began, which restores
\* only what it found.
TombstoneBefore(x) ==
  /\ bytes \subseteq x.had
  /\ x.copy.tombstone => ToDelete(x.copy.scope) \cap x.had = {}
  /\ rec.tombstone => ToDelete(rec.scope) \cap x.had = {}

Active(e) == ex[e].pc # "idle"

AloneOK ==
  /\ \A d \in Executor, e \in Executor : Active(d) /\ Active(e) => d = e
  /\ \A e \in Executor : Active(e) => Accounts(ex[e], bytes) /\ TombstoneBefore(ex[e])
  /\ rec.tombstone => ToDelete(rec.scope) \cap bytes = {}

DeletionInv ==
  /\ DeletionTypes
  /\ ApprovalIsIssued(rec) /\ \A e \in Executor : ApprovalIsIssued(ex[e].copy)
  /\ DeletesWhatWasNamed
  /\ ~ overlap => AloneOK

\* The invariant implies what the runs check.
LEMMA DeletionInvHolds == DeletionInv => DeletionTypeOK /\ DeletionIsHonest
<1> SUFFICES ASSUME DeletionInv PROVE DeletionTypeOK /\ DeletionIsHonest
  OBVIOUS
<1>1. DeletionTypeOK
  BY DEF DeletionInv, DeletionTypes, ExecOK, DeletionTypeOK, AttemptStatus
<1>2. EndsAllOrNothing
  BY DEF DeletionInv, AloneOK, Active, Accounts, ToDelete, EndsAllOrNothing
<1>3. TombstoneIsTrue
  BY DEF DeletionInv, AloneOK, ToDelete, TombstoneIsTrue
<1>4. QED BY <1>1, <1>2, <1>3 DEF DeletionInv, DeletionIsHonest

\* A record that does not exist is one, and has nothing.
LEMMA NoRecordOK == NoRecord \in Record /\ ~ NoRecord.approval.allowed /\ ~ NoRecord.tombstone
BY DEF NoRecord, NoApproval, NoScope, Record, RequestStatus, AttemptStatus

\* An executor at rest.
LEMMA RestOK == ExecOK(Rest) /\ Rest.pc = "idle" /\ Rest.todo = {} /\ Rest.copy = NoRecord
BY NoRecordOK DEF Rest, ExecOK, ExecField

\* The invariant holds at the start.
LEMMA DeletionInitOK == DeletionInit => DeletionInv
<1> SUFFICES ASSUME DeletionInit PROVE DeletionInv
  OBVIOUS
<1>1. \A e \in Executor : ex[e] = Rest BY DEF DeletionInit
<1>2. DeletionTypes
  <2>1. 0 \in 0 .. MaxHash /\ 0 \in 0 .. MaxBegun BY DeletionAssumption
  <2>2. ex = [e \in Executor |-> ex[e]] BY DEF DeletionInit
  <2>3. QED BY <1>1, <2>1, <2>2, NoRecordOK, RestOK DEF DeletionInit, DeletionTypes
<1>3. ApprovalIsIssued(rec) /\ \A e \in Executor : ApprovalIsIssued(ex[e].copy)
  BY <1>1, NoRecordOK, RestOK DEF DeletionInit, ApprovalIsIssued
<1>4. DeletesWhatWasNamed BY <1>1, RestOK DEF DeletesWhatWasNamed
<1>5. AloneOK BY <1>1, NoRecordOK, RestOK DEF AloneOK, Active, DeletionInit
<1>6. QED BY <1>2, <1>3, <1>4, <1>5 DEF DeletionInv

\* A step that only replaces the stored record, by one that is in order, and hands out
\* approvals, keeps the invariant.
LEMMA RecordMoves ==
  ASSUME DeletionInv, UNCHANGED <<ex, adapter, bytes, overlap, begun>>,
         rec' \in Record, hash' \in 0 .. MaxHash, issued \subseteq issued',
         ApprovalIsIssued(rec)',
         rec'.tombstone => rec.tombstone /\ rec'.scope = rec.scope
  PROVE  DeletionInv'
<1>1. DeletionTypes'
  BY DEF DeletionInv, DeletionTypes, ExecOK
<1>2. \A e \in Executor : ApprovalIsIssued(ex[e].copy)'
  BY DEF DeletionInv, ApprovalIsIssued
<1>3. DeletesWhatWasNamed'
  BY DEF DeletionInv, DeletesWhatWasNamed, ApprovalCovers
<1>4. ~ overlap => AloneOK'
  <2> SUFFICES ASSUME ~ overlap PROVE AloneOK'
    OBVIOUS
  <2>1. AloneOK BY DEF DeletionInv
  <2>2. \A e \in Executor : Accounts(ex[e], bytes) => Accounts(ex[e], bytes)'
    BY DEF Accounts, Removed, ToDelete, NeedsBytes
  <2>3. \A e \in Executor : TombstoneBefore(ex[e]) => TombstoneBefore(ex[e])'
    BY DEF TombstoneBefore, ToDelete, NeedsBytes
  <2>4. QED BY <2>1, <2>2, <2>3 DEF AloneOK, Active, ToDelete, NeedsBytes
<1>5. QED BY <1>1, <1>2, <1>3, <1>4 DEF DeletionInv

\* Dry runs, approvals and refusals.
LEMMA RequestStep ==
  ASSUME DeletionInv, NEW t \in Tenant,
         \/ \E s \in Scope : DryRun(t, s)
         \/ \E ok \in BOOLEAN : Approve(t, ok)
         \/ \E h \in 0 .. hash : Refuse(t, h)
  PROVE  DeletionInv'
<1>t. rec \in Record /\ hash \in 0 .. MaxHash /\ MaxHash \in Nat
  BY DeletionAssumption DEF DeletionInv, DeletionTypes
<1>1. ASSUME NEW s \in Scope, DryRun(t, s) PROVE DeletionInv'
  <2>1. /\ hash' = hash + 1 /\ hash < MaxHash
        /\ UNCHANGED <<ex, adapter, bytes, issued, overlap, begun>>
    BY <1>1 DEF DryRun
  <2>2. hash' \in 0 .. MaxHash /\ hash' \in Nat BY <1>t, <2>1
  <2> DEFINE b == PreflightBlocks(s, t)
             st == IF b THEN "blocked" ELSE "dry-run-ready"
  <2>3. b \in BOOLEAN BY DEF PreflightBlocks
  <2>4. rec' = [NoRecord EXCEPT !.status = st, !.tenant = t, !.scope = s, !.dry = hash',
                                !.blocked = b]
    BY <1>1 DEF DryRun
  <2>5. st \in RequestStatus BY DEF RequestStatus
  <2>6. rec' \in Record /\ ~ rec'.approval.allowed /\ ~ rec'.tombstone
    <3> HIDE DEF b, st
    <3> QED BY <2>2, <2>3, <2>4, <2>5, NoRecordOK DEF Record
  <2>7. QED BY <2>1, <2>2, <2>6, RecordMoves DEF ApprovalIsIssued
<1>2. ASSUME NEW ok \in BOOLEAN, Approve(t, ok) PROVE DeletionInv'
  <2> DEFINE a == ApprovalFor(rec, ok, hash')
             st == IF a.allowed THEN "approved" ELSE "approval-blocked"
             i == [approval |-> a, scope |-> rec.scope, tenant |-> t]
  <2>1. /\ hash' = hash + 1 /\ hash < MaxHash /\ rec.tenant = t
        /\ UNCHANGED <<ex, adapter, bytes, overlap, begun>>
        /\ rec' = [rec EXCEPT !.approval = a, !.status = st] /\ issued' = issued \cup {i}
    BY <1>2 DEF Approve, Found
  <2>2. hash' \in 0 .. MaxHash /\ hash' \in Nat BY <1>t, <2>1
  <2>3. a \in [hash: Nat, dry: Nat, allowed: BOOLEAN]
    BY <1>t, <2>2 DEF ApprovalFor, Record
  <2>4. st \in RequestStatus BY DEF RequestStatus
  <2>5. /\ rec' \in Record /\ rec'.approval = a /\ rec'.scope = rec.scope /\ rec'.tenant = t
        /\ rec'.tombstone = rec.tombstone
    <3> HIDE DEF a, st
    <3> QED BY <1>t, <2>1, <2>3, <2>4 DEF Record
  <2>6. ApprovalIsIssued(rec)'
    <3>1. i \in issued' /\ i.approval = a /\ i.scope = rec.scope /\ i.tenant = t BY <2>1
    <3> HIDE DEF a, i
    <3>2. QED BY <2>5, <3>1 DEF ApprovalIsIssued
  <2>7. QED BY <2>1, <2>2, <2>5, <2>6, RecordMoves
<1>3. ASSUME NEW h \in 0 .. hash, Refuse(t, h) PROVE DeletionInv'
  <2>1. /\ rec' = [rec EXCEPT !.status = "blocked", !.tried = rec.tried \cup {"blocked"}]
        /\ UNCHANGED <<hash, ex, adapter, bytes, issued, overlap, begun>>
    BY <1>3 DEF Refuse
  <2>2. /\ rec' \in Record /\ rec'.approval = rec.approval /\ rec'.scope = rec.scope
        /\ rec'.tenant = rec.tenant /\ rec'.tombstone = rec.tombstone
    BY <1>t, <2>1 DEF Record, RequestStatus, AttemptStatus
  <2>3. ApprovalIsIssued(rec)' BY <2>1, <2>2 DEF DeletionInv, ApprovalIsIssued
  <2>4. QED BY <1>t, <2>1, <2>2, <2>3, RecordMoves
<1>4. QED BY <1>1, <1>2, <1>3

\* When one executor moves, the others are as they were.
LEMMA OneExecutes ==
  ASSUME DeletionInv, NEW e \in Executor, NEW x, ExecOK(x), ex' = [ex EXCEPT ![e] = x]
  PROVE  /\ ex' = [d \in Executor |-> ex'[d]] /\ ex'[e] = x
         /\ \A d \in Executor : d # e => ex'[d] = ex[d]
         /\ \A d \in Executor : ExecOK(ex'[d])
<1>1. ex = [d \in Executor |-> ex[d]] /\ \A d \in Executor : ExecOK(ex[d])
  BY DEF DeletionInv, DeletionTypes
<1>2. ex' = [d \in Executor |-> IF d = e THEN x ELSE ex[d]]
  BY <1>1
<1>3. QED BY <1>1, <1>2

\* An execution begins: it has what was approved of the scope in the record, and finds
\* the bytes as they are.
LEMMA BeginStep ==
  ASSUME DeletionInv, NEW e \in Executor, NEW t \in Tenant, NEW h \in 0 .. hash, Begin(e, t, h)
  PROVE  DeletionInv'
<1> DEFINE s == rec.scope
           blocks == PreflightBlocks(s, t) \/ TargetsBlock(s)
           x == [Rest EXCEPT
                  !.pc     = IF blocks THEN "end" ELSE AfterClean(s.arts),
                  !.copy   = rec,
                  !.named  = h,
                  !.had    = bytes,
                  !.todo   = IF blocks THEN {} ELSE s.arts,
                  !.result = IF blocks THEN "blocked" ELSE "completed"]
<1>1. /\ ex[e].pc = "idle" /\ begun < MaxBegun /\ begun' = begun + 1
      /\ rec.tenant = t /\ rec.approval.allowed /\ h = rec.approval.hash
      /\ ex' = [ex EXCEPT ![e] = x]
      /\ overlap' = (overlap \/ \E d \in Executor \ {e} : ex[d].pc # "idle")
      /\ UNCHANGED <<rec, hash, adapter, bytes, issued>>
  BY DEF Begin, Executable, Found, ApprovalVerified
<1>2. /\ x.pc = (IF blocks THEN "end" ELSE AfterClean(s.arts))
      /\ x.copy = rec /\ x.named = h /\ x.had = bytes
      /\ x.todo = (IF blocks THEN {} ELSE s.arts) /\ x.done = {} /\ x.failed = {}
      /\ x.undoFailed = FALSE /\ x.result = (IF blocks THEN "blocked" ELSE "completed")
      /\ x = [f \in ExecField |-> x[f]]
  BY DEF Rest, ExecField
<1>t. rec \in Record /\ bytes \subseteq Artifact /\ begun \in 0 .. MaxBegun /\ MaxBegun \in Nat
  BY DeletionAssumption DEF DeletionInv, DeletionTypes
<1> HIDE DEF x
<1>3. ExecOK(x) /\ x.pc \in {"clean", "end"}
  BY <1>2, <1>t DEF ExecOK, AfterClean, AttemptStatus
<1>4. /\ ex' = [d \in Executor |-> ex'[d]] /\ ex'[e] = x
      /\ \A d \in Executor : d # e => ex'[d] = ex[d]
      /\ \A d \in Executor : ExecOK(ex'[d])
  BY <1>1, <1>3, OneExecutes
<1>5. begun' \in 0 .. MaxBegun BY <1>1, <1>t
<1>6. overlap' \in BOOLEAN
  BY <1>1 DEF DeletionInv, DeletionTypes
<1>7. DeletionTypes'
  BY <1>1, <1>4, <1>5, <1>6 DEF DeletionInv, DeletionTypes, ExecOK
<1>8. ApprovalIsIssued(rec)' /\ \A d \in Executor : ApprovalIsIssued(ex[d].copy)'
  BY <1>1, <1>2, <1>4 DEF DeletionInv, ApprovalIsIssued
<1>9. ASSUME NEW a \in x.todo PROVE ApprovalCovers(x.named, a)
  <2>1. ~ blocks /\ a \in s.arts BY <1>2, <1>9
  <2>2. OwnerOf[a] = t BY <2>1 DEF PreflightBlocks, ArtifactBlocked
  <2>3. PICK i \in issued : i.approval = rec.approval /\ i.scope = rec.scope /\ i.tenant = rec.tenant
    BY <1>1 DEF DeletionInv, ApprovalIsIssued
  <2>4. QED BY <1>1, <1>2, <2>1, <2>2, <2>3 DEF ApprovalCovers
<1>10. DeletesWhatWasNamed'
  <2> SUFFICES ASSUME NEW d \in Executor, NEW a \in ex'[d].todo
               PROVE  ApprovalCovers(ex[d].named, a)'
    BY DEF DeletesWhatWasNamed
  <2>1. CASE d = e BY <1>1, <1>4, <1>9, <2>1 DEF ApprovalCovers
  <2>2. CASE d # e
    BY <1>1, <1>4, <2>2 DEF DeletionInv, DeletesWhatWasNamed, ApprovalCovers
  <2>3. QED BY <2>1, <2>2
<1>11. ASSUME ~ overlap' PROVE AloneOK'
  <2>1. ~ overlap /\ \A d \in Executor : d # e => ex[d].pc = "idle"
    BY <1>1, <1>11
  <2>2. AloneOK BY <2>1 DEF DeletionInv
  <2>3. \A d \in Executor : Active(d)' => d = e
    BY <1>4, <2>1 DEF Active
  <2>4. Accounts(x, bytes)
    <3>1. x.pc = "end" => x.result = "blocked" \/ s.arts = {}
      BY <1>2 DEF AfterClean
    <3>2. x.pc = "clean" => x.result = "completed" /\ x.todo = s.arts
      BY <1>2
    <3>3. Removed(x) = {} BY <1>2 DEF Removed
    <3>4. QED BY <1>2, <1>3, <3>1, <3>2, <3>3 DEF Accounts, ToDelete
  <2>5. TombstoneBefore(x)
    BY <1>2, <2>2 DEF AloneOK, TombstoneBefore
  <2>6. Accounts(ex[e], bytes)' /\ TombstoneBefore(ex[e])'
    BY <1>1, <1>4, <2>4, <2>5 DEF Accounts, TombstoneBefore, Removed, ToDelete, NeedsBytes
  <2>7. (rec.tombstone => ToDelete(rec.scope) \cap bytes = {})'
    BY <1>1, <2>2 DEF AloneOK, ToDelete, NeedsBytes
  <2>8. QED BY <2>3, <2>6, <2>7 DEF AloneOK
<1>12. QED BY <1>7, <1>8, <1>10, <1>11 DEF DeletionInv

\* An execution goes on: it keeps its copy and what it was named, has no more to do than
\* it had, and answers for the bytes if it is alone.
LEMMA ExecutionMoves ==
  ASSUME DeletionInv, NEW e \in Executor, NEW x, ex[e].pc # "idle",
         ex' = [ex EXCEPT ![e] = x],
         ExecOK(x), x.copy = ex[e].copy, x.named = ex[e].named, x.had = ex[e].had,
         x.todo \subseteq ex[e].todo, bytes' \subseteq Artifact,
         UNCHANGED <<rec, hash, adapter, issued, overlap, begun>>,
         ~ overlap => Accounts(x, bytes') /\ bytes' \subseteq x.had
  PROVE  DeletionInv'
<1>1. /\ ex' = [d \in Executor |-> ex'[d]] /\ ex'[e] = x
      /\ \A d \in Executor : d # e => ex'[d] = ex[d]
      /\ \A d \in Executor : ExecOK(ex'[d])
  BY OneExecutes
<1>2. DeletionTypes'
  BY <1>1 DEF DeletionInv, DeletionTypes, ExecOK
<1>3. ApprovalIsIssued(rec)' /\ \A d \in Executor : ApprovalIsIssued(ex[d].copy)'
  BY <1>1 DEF DeletionInv, ApprovalIsIssued
<1>4. DeletesWhatWasNamed'
  <2> SUFFICES ASSUME NEW d \in Executor, NEW a \in ex'[d].todo
               PROVE  ApprovalCovers(ex[d].named, a)'
    BY DEF DeletesWhatWasNamed
  <2>1. a \in ex[d].todo /\ ex'[d].named = ex[d].named
    BY <1>1
  <2>2. QED BY <2>1 DEF DeletionInv, DeletesWhatWasNamed, ApprovalCovers
<1>5. ASSUME ~ overlap PROVE AloneOK'
  <2>1. AloneOK BY <1>5 DEF DeletionInv
  <2>2. \A d \in Executor : Active(d) => d = e
    BY <2>1 DEF AloneOK, Active
  <2>3. \A d \in Executor : Active(d)' => d = e
    BY <1>1, <2>2 DEF Active
  <2>4. TombstoneBefore(ex[e]) BY <2>1 DEF AloneOK, Active
  <2>5. TombstoneBefore(ex[e])'
    BY <1>1, <1>5, <2>4 DEF TombstoneBefore, ToDelete, NeedsBytes
  <2>6. Accounts(ex[e], bytes)' BY <1>1, <1>5 DEF Accounts, Removed, ToDelete, NeedsBytes
  <2>7. (rec.tombstone => ToDelete(rec.scope) \cap bytes = {})'
    BY <2>5 DEF TombstoneBefore
  <2>8. QED BY <2>3, <2>5, <2>6, <2>7 DEF AloneOK
<1>6. QED BY <1>2, <1>3, <1>4, <1>5 DEF DeletionInv

\* The cleanup of a target: done, or failed and what was done is to be undone.
LEMMA CleanStep ==
  ASSUME DeletionInv, NEW e \in Executor, CleanTarget(e)
  PROVE  DeletionInv'
<1> DEFINE y == ex[e]
           a == Min(y.todo)
           cleaned == [y EXCEPT !.todo = y.todo \ {a}, !.done = y.done \cup {a},
                                !.pc = AfterClean(y.todo \ {a})]
           failed == [y EXCEPT !.failed = {a}, !.result = "partial-failure",
                               !.pc = AfterUndo(y.done)]
<1>1. /\ y.pc = "clean" /\ UNCHANGED <<rec, hash, adapter, issued, overlap, begun>>
      /\ ExecOK(y) /\ bytes \subseteq Artifact /\ ex = [d \in Executor |-> ex[d]]
  BY DEF CleanTarget, DeletionInv, DeletionTypes
<1>2. ~ overlap => Accounts(y, bytes) /\ bytes \subseteq y.had
  BY <1>1 DEF DeletionInv, AloneOK, Active, TombstoneBefore
<1>3. \/ ex' = [ex EXCEPT ![e] = cleaned] /\ bytes' = bytes /\ ~ NeedsBytes(y.copy.scope, a)
      \/ ex' = [ex EXCEPT ![e] = cleaned] /\ bytes' = bytes \ {a} /\ NeedsBytes(y.copy.scope, a)
      \/ ex' = [ex EXCEPT ![e] = failed] /\ bytes' \in {bytes, bytes \ {a}}
  <2>1. Cleaned(e, a) => ex' = [ex EXCEPT ![e] = cleaned]
    BY <1>1 DEF Cleaned
  <2>2. ex' = [ex EXCEPT ![e].failed = {a}, ![e].result = "partial-failure",
                         ![e].pc = AfterUndo(y.done)]
        => ex' = [ex EXCEPT ![e] = failed]
    BY <1>1
  <2>3. QED BY <2>1, <2>2 DEF CleanTarget
<1>4. /\ y = [f \in ExecField |-> y[f]] /\ y.pc = "clean" /\ y.todo # {} /\ y.failed = {}
      /\ y.result \in AttemptStatus
  BY <1>1 DEF ExecOK
<1> HIDE DEF a
<1>5. CASE ex' = [ex EXCEPT ![e] = cleaned] /\ bytes' \in {bytes, bytes \ {a}}
           /\ (bytes' = bytes <=> a \notin bytes \/ ~ NeedsBytes(y.copy.scope, a))
  <2> DEFINE x == cleaned
  <2>1. /\ x.pc = AfterClean(y.todo \ {a}) /\ x.copy = y.copy /\ x.named = y.named
        /\ x.had = y.had /\ x.todo = y.todo \ {a} /\ x.done = y.done \cup {a}
        /\ x.failed = {} /\ x.undoFailed = y.undoFailed /\ x.result = y.result
        /\ x = [f \in ExecField |-> x[f]]
    BY <1>4 DEF ExecField
  <2> HIDE DEF x
  <2>2. ex' = [ex EXCEPT ![e] = x] BY <1>5 DEF x
  <2>3. ExecOK(x) BY <1>1, <2>1 DEF ExecOK, AfterClean
  <2>4. ASSUME ~ overlap PROVE Accounts(x, bytes') /\ bytes' \subseteq x.had
    <3>1. /\ y.result = "completed" /\ y.copy.scope.arts \subseteq y.todo \cup y.done
          /\ bytes = y.had \ Removed(y)
      BY <1>2, <1>4, <2>4 DEF Accounts
    <3>2. bytes' = x.had \ Removed(x)
      BY <1>5, <2>1, <3>1 DEF Removed
    <3>3. x.copy.scope.arts \subseteq x.todo \cup x.done
      BY <2>1, <3>1
    <3>4. x.todo = {} => ToDelete(x.copy.scope) \cap bytes' = {}
      BY <3>2, <3>3 DEF ToDelete, Removed
    <3>5. x.pc \in {"clean", "end"} /\ (x.pc = "end" => x.todo = {})
      BY <2>1 DEF AfterClean
    <3>6. QED BY <2>1, <3>1, <3>2, <3>3, <3>4, <3>5 DEF Accounts, Removed, ToDelete, NeedsBytes
  <2>5. QED BY <1>1, <1>5, <2>1, <2>2, <2>3, <2>4, ExecutionMoves
<1>6. CASE ex' = [ex EXCEPT ![e] = failed] /\ bytes' \in {bytes, bytes \ {a}}
  <2> DEFINE x == failed
  <2>1. /\ x.pc = AfterUndo(y.done) /\ x.copy = y.copy /\ x.named = y.named
        /\ x.had = y.had /\ x.todo = y.todo /\ x.done = y.done
        /\ x.failed = {a} /\ x.undoFailed = y.undoFailed /\ x.result = "partial-failure"
        /\ x = [f \in ExecField |-> x[f]]
    BY <1>4 DEF ExecField
  <2> HIDE DEF x
  <2>2. ex' = [ex EXCEPT ![e] = x] BY <1>6 DEF x
  <2>3. ExecOK(x) BY <1>1, <2>1 DEF ExecOK, AfterUndo, AttemptStatus
  <2>4. ASSUME ~ overlap PROVE Accounts(x, bytes') /\ bytes' \subseteq x.had
    <3>1. bytes = y.had \ Removed(y) /\ bytes \subseteq y.had
      BY <1>2, <1>4, <2>4 DEF Accounts
    <3>2. bytes' \cup x.failed = (x.had \ Removed(x)) \cup x.failed
      BY <1>6, <2>1, <3>1 DEF Removed
    <3>3. x.pc \in {"undo", "end"} /\ (x.pc = "end" => Removed(x) = {})
      BY <2>1 DEF AfterUndo, Removed
    <3>4. QED BY <1>6, <2>1, <3>1, <3>2, <3>3 DEF Accounts, Removed, ToDelete, NeedsBytes
  <2>5. QED BY <1>1, <1>6, <2>1, <2>2, <2>3, <2>4, ExecutionMoves
<1>7. QED BY <1>3, <1>5, <1>6

\* A target is restored, or the adapter says it is not.
LEMMA UndoStep ==
  ASSUME DeletionInv, NEW e \in Executor, UndoTarget(e)
  PROVE  DeletionInv'
<1> DEFINE y == ex[e]
           a == Max(y.done)
           back == IF NeedsBytes(y.copy.scope, a) /\ a \in y.had THEN bytes \cup {a} ELSE bytes
           undone(fail) == [y EXCEPT !.done = y.done \ {a}, !.undoFailed = fail,
                                     !.pc = AfterUndo(y.done \ {a})]
<1>1. /\ y.pc = "undo" /\ UNCHANGED <<rec, hash, adapter, issued, overlap, begun>>
      /\ ExecOK(y) /\ bytes \subseteq Artifact /\ ex = [d \in Executor |-> ex[d]]
  BY DEF UndoTarget, DeletionInv, DeletionTypes
<1>2. ~ overlap => Accounts(y, bytes) /\ bytes \subseteq y.had
  BY <1>1 DEF DeletionInv, AloneOK, Active, TombstoneBefore
<1>3. /\ y = [f \in ExecField |-> y[f]] /\ y.undoFailed \in BOOLEAN /\ y.had \subseteq Artifact
      /\ y.result \in AttemptStatus
  BY <1>1 DEF ExecOK
<1>4. \E fail \in BOOLEAN :
        /\ ex' = [ex EXCEPT ![e] = undone(fail)] /\ bytes' \in {bytes, back}
        /\ ~ fail => bytes' = back /\ ~ y.undoFailed
  <2>1. ASSUME NEW ok \in BOOLEAN, Undone(e, a, ok)
        PROVE  ex' = [ex EXCEPT ![e] = undone(y.undoFailed \/ ~ ok)]
    <3> DEFINE fail == y.undoFailed \/ ~ ok
    <3>1. ex' = [ex EXCEPT ![e].done = y.done \ {a}, ![e].undoFailed = fail,
                           ![e].pc = AfterUndo(y.done \ {a})]
      BY <2>1 DEF Undone
    <3> HIDE DEF fail, a
    <3>2. ex' = [ex EXCEPT ![e] = undone(fail)] BY <1>1, <3>1
    <3>3. QED BY <3>2 DEF fail
  <2>2. CASE Undone(e, a, TRUE) /\ bytes' = back
    <3>1. ex' = [ex EXCEPT ![e] = undone(y.undoFailed \/ ~ TRUE)] BY <2>1, <2>2
    <3>2. (y.undoFailed \/ ~ TRUE) = y.undoFailed BY <1>3
    <3>3. ex' = [ex EXCEPT ![e] = undone(y.undoFailed)]
      <4> HIDE DEF undone
      <4> QED BY <3>1, <3>2
    <3>4. QED BY <1>3, <2>2, <3>3
  <2>3. CASE Undone(e, a, FALSE) /\ bytes' \in {bytes, back}
    <3>1. ex' = [ex EXCEPT ![e] = undone(y.undoFailed \/ ~ FALSE)] BY <2>1, <2>3
    <3>2. (y.undoFailed \/ ~ FALSE) = TRUE OBVIOUS
    <3>3. ex' = [ex EXCEPT ![e] = undone(TRUE)]
      <4> HIDE DEF undone
      <4> QED BY <3>1, <3>2
    <3>4. QED BY <2>3, <3>3
  <2>4. QED BY <2>2, <2>3 DEF UndoTarget
<1>5. PICK fail \in BOOLEAN :
        /\ ex' = [ex EXCEPT ![e] = undone(fail)] /\ bytes' \in {bytes, back}
        /\ ~ fail => bytes' = back /\ ~ y.undoFailed
  BY <1>4
<1> DEFINE x == undone(fail)
<1>6. /\ x.pc = AfterUndo(y.done \ {a}) /\ x.copy = y.copy /\ x.named = y.named
      /\ x.had = y.had /\ x.todo = y.todo /\ x.done = y.done \ {a}
      /\ x.failed = y.failed /\ x.undoFailed = fail /\ x.result = y.result
      /\ x = [f \in ExecField |-> x[f]]
  <2> HIDE DEF a
  <2> QED BY <1>3 DEF ExecField
<1>7. ex' = [ex EXCEPT ![e] = x] BY <1>5
<1>8. bytes' \subseteq Artifact BY <1>1, <1>3, <1>5
<1> HIDE DEF x, a
<1>9. ExecOK(x) BY <1>1, <1>6 DEF ExecOK, AfterUndo
<1>10. ASSUME ~ overlap PROVE Accounts(x, bytes') /\ bytes' \subseteq x.had
  <2>1. /\ y.result = "partial-failure" /\ bytes \subseteq y.had
        /\ ~ y.undoFailed => bytes \cup y.failed = (y.had \ Removed(y)) \cup y.failed
    BY <1>1, <1>2, <1>10 DEF Accounts
  <2>2. bytes' \subseteq x.had BY <1>5, <1>6, <2>1
  <2>3. ASSUME ~ fail PROVE bytes' \cup x.failed = (x.had \ Removed(x)) \cup x.failed
    <3>1. bytes \cup y.failed = (y.had \ Removed(y)) \cup y.failed /\ bytes' = back
      BY <1>5, <2>1, <2>3
    <3>2. QED BY <1>6, <3>1 DEF Removed
  <2>4. x.pc \in {"undo", "end"} /\ (x.pc = "end" => Removed(x) = {})
    BY <1>6 DEF AfterUndo, Removed
  <2>5. QED BY <1>6, <2>1, <2>2, <2>3, <2>4 DEF Accounts, Removed, ToDelete, NeedsBytes
<1>11. QED BY <1>1, <1>6, <1>7, <1>8, <1>9, <1>10, ExecutionMoves

\* An execution ends: its copy, with what became of it, is the record again.
LEMMA FinishStep ==
  ASSUME DeletionInv, NEW e \in Executor, Finish(e)
  PROVE  DeletionInv'
<1> DEFINE y == ex[e]
           b == y.copy.tombstone \/ y.result = "completed"
           r == [y.copy EXCEPT !.status = y.result, !.tried = y.copy.tried \cup {y.result},
                               !.tombstone = b]
<1>1. /\ y.pc = "end" /\ rec' = r /\ ex' = [ex EXCEPT ![e] = Rest]
      /\ UNCHANGED <<hash, adapter, bytes, issued, overlap, begun>>
  BY DEF Finish, Outcome
<1>2. ExecOK(y) /\ y.result \in AttemptStatus /\ y.copy \in Record
  BY <1>1 DEF DeletionInv, DeletionTypes, ExecOK
<1>3. b \in BOOLEAN BY <1>2 DEF Record
<1>4. /\ rec' \in Record /\ rec'.approval = y.copy.approval /\ rec'.scope = y.copy.scope
      /\ rec'.tenant = y.copy.tenant /\ rec'.tombstone = b
  <2> HIDE DEF b, y
  <2> QED BY <1>1, <1>2, <1>3 DEF Record, RequestStatus, AttemptStatus
<1>5. /\ ex' = [d \in Executor |-> ex'[d]] /\ ex'[e] = Rest
      /\ \A d \in Executor : d # e => ex'[d] = ex[d]
      /\ \A d \in Executor : ExecOK(ex'[d])
  BY <1>1, RestOK, OneExecutes
<1>6. DeletionTypes'
  BY <1>1, <1>4, <1>5 DEF DeletionInv, DeletionTypes, ExecOK
<1>7. ApprovalIsIssued(rec)' BY <1>1, <1>4 DEF DeletionInv, ApprovalIsIssued
<1>8. \A d \in Executor : ApprovalIsIssued(ex[d].copy)'
  BY <1>1, <1>5, RestOK, NoRecordOK DEF DeletionInv, ApprovalIsIssued
<1>9. DeletesWhatWasNamed'
  <2> SUFFICES ASSUME NEW d \in Executor, NEW a \in ex'[d].todo
               PROVE  ApprovalCovers(ex[d].named, a)'
    BY DEF DeletesWhatWasNamed
  <2>1. d # e BY <1>5, RestOK
  <2>2. QED BY <1>1, <1>5, <2>1 DEF DeletionInv, DeletesWhatWasNamed, ApprovalCovers
<1>10. ASSUME ~ overlap PROVE AloneOK'
  <2>1. AloneOK BY <1>10 DEF DeletionInv
  <2>2. \A d \in Executor : ~ Active(d)'
    BY <1>1, <1>5, <2>1, RestOK DEF AloneOK, Active
  <2>3. Accounts(y, bytes) /\ TombstoneBefore(y) BY <1>1, <2>1 DEF AloneOK, Active
  <2>4. b => ToDelete(y.copy.scope) \cap bytes = {}
    BY <1>1, <2>3 DEF Accounts, TombstoneBefore
  <2>5. (rec.tombstone => ToDelete(rec.scope) \cap bytes = {})'
    <3> HIDE DEF b, y
    <3> QED BY <1>1, <1>4, <2>4 DEF ToDelete, NeedsBytes
  <2>6. QED BY <2>2, <2>5 DEF AloneOK
<1>11. QED BY <1>1, <1>6, <1>7, <1>8, <1>9, <1>10 DEF DeletionInv

\* Every step keeps the invariant.
LEMMA DeletionStep == DeletionInv /\ [DeletionNext]_deletionVars => DeletionInv'
<1> SUFFICES ASSUME DeletionInv, [DeletionNext]_deletionVars PROVE DeletionInv'
  OBVIOUS
<1>1. ASSUME NEW t \in Tenant, DeletionRequest(t) PROVE DeletionInv'
  <2>1. ASSUME NEW e \in Executor, NEW h \in 0 .. hash, Begin(e, t, h) \/ Retry(e, t, h)
        PROVE  DeletionInv'
    BY <2>1, BeginStep DEF Retry
  <2>2. QED BY <1>1, <2>1, RequestStep DEF DeletionRequest
<1>2. ASSUME NEW e \in Executor, CleanTarget(e) \/ UndoTarget(e) \/ Finish(e) PROVE DeletionInv'
  BY <1>2, CleanStep, UndoStep, FinishStep
<1>3. CASE UNCHANGED deletionVars
  <2>1. UNCHANGED <<rec, hash, ex, adapter, bytes, issued, overlap, begun>>
    BY <1>3 DEF deletionVars
  <2>2. rec \in Record /\ hash \in 0 .. MaxHash /\ ApprovalIsIssued(rec)
    BY DEF DeletionInv, DeletionTypes
  <2>3. ApprovalIsIssued(rec)' BY <2>1, <2>2 DEF ApprovalIsIssued
  <2>4. QED BY <2>1, <2>2, <2>3, RecordMoves
<1>4. QED BY <1>1, <1>2, <1>3 DEF DeletionNext

\* Whatever is dry-run, approved and executed at once: the types hold, a deletion removes
\* what its caller was approved to remove, all of it or nothing, and says so.
THEOREM DeletionSound == DeletionSpec => [](DeletionTypeOK /\ DeletionIsHonest)
BY DeletionInitOK, DeletionStep, DeletionInvHolds, PTL DEF DeletionSpec

-----------------------------------------------------------------------------
(* The records of a system.                                                 *)

\* What division leaves.
LEMMA Divided ==
  ASSUME NEW a \in Nat, NEW b \in Nat \ {0}
  PROVE  a \div b \in Nat /\ b * (a \div b) <= a /\ a < b * ((a \div b) + 1)
OBVIOUS

\* Of two products with the same factor the larger has the larger other factor.
LEMMA Factors ==
  ASSUME NEW b \in Nat \ {0}, NEW m \in Nat, NEW n \in Nat, b * m < b * n
  PROVE  m < n
<1>1. SUFFICES ASSUME n <= m PROVE FALSE OBVIOUS
<1>2. PICK k \in Nat : m = n + k BY <1>1
<1>3. b * m = b * n + b * k BY <1>2
<1>4. b * k \in Nat /\ b * n \in Nat OBVIOUS
<1>5. QED BY <1>3, <1>4

\* The pages of a list show what is on it, and nothing else.
LEMMA PagesCover ==
  ASSUME listed \in Seq(Document)
  PROVE  /\ PageCount \in Nat \ {0}
         /\ \A p : PageRows(p) \subseteq Document
         /\ UNION {PageRows(p) : p \in 1 .. PageCount} = ToSet(listed)
<1> DEFINE b == PageSize
           n == Len(listed)
           page(i) == ((i - 1) \div b) + 1
<1>1. b \in Nat \ {0} /\ n \in Nat /\ DOMAIN listed = 1 .. n
  BY RecordSyncAssumption
<1>2. listed # <<>> => n # 0 OBVIOUS
<1>3. PageCount \in Nat \ {0} /\ \A i \in 1 .. n : page(i) \in 1 .. PageCount
  <2>1. CASE listed = <<>> BY <2>1 DEF PageCount
  <2>2. CASE listed # <<>>
    <3> DEFINE c == (n + b - 1) \div b
    <3>1. PageCount = c BY <2>2 DEF PageCount
    <3>2. n + b - 1 \in Nat /\ n >= 1 BY <1>1, <1>2, <2>2
    <3>3. c \in Nat /\ n + b - 1 < b * (c + 1) BY <1>1, <3>2, Divided
    <3>4. b * (c + 1) = b * c + b BY <1>1, <3>3
    <3>5. n - 1 < b * c BY <1>1, <3>2, <3>3, <3>4
    <3>6. ASSUME NEW i \in 1 .. n PROVE (i - 1) \div b \in Nat /\ (i - 1) \div b < c
      <4> DEFINE q == (i - 1) \div b
      <4>1. i - 1 \in Nat BY <1>1
      <4>2. q \in Nat /\ b * q <= i - 1 BY <1>1, <4>1, Divided
      <4>3. b * q < b * c
        <5> HIDE DEF b, q, c, n
        <5>1. i - 1 <= n - 1 BY <1>1
        <5>2. b * q \in Nat /\ b * c \in Nat BY <1>1, <3>3, <4>2
        <5>3. QED BY <1>1, <3>5, <4>1, <4>2, <5>1, <5>2
      <4>4. q < c
        <5> HIDE DEF b, q, c, n
        <5> QED BY <1>1, <3>3, <4>2, <4>3, Factors
      <4>5. QED BY <4>2, <4>4
    <3>7. c # 0 BY <1>1, <3>2, <3>3, <3>6
    <3> HIDE DEF c, b, n
    <3>8. QED BY <1>1, <3>1, <3>3, <3>6, <3>7
  <2>3. QED BY <2>1, <2>2
<1>4. \A p : PageRows(p) \subseteq Document
  BY <1>1 DEF PageRows
<1>5. ASSUME NEW i \in 1 .. n PROVE listed[i] \in PageRows(page(i))
  <2>1. (i - 1) \div b \in Nat BY <1>1, Divided
  <2>2. (i - 1) \div b = page(i) - 1 BY <2>1
  <2>3. QED BY <1>1, <2>2 DEF PageRows
<1>6. ToSet(listed) \subseteq UNION {PageRows(p) : p \in 1 .. PageCount}
  <2> HIDE DEF page, b, n
  <2> QED BY <1>1, <1>3, <1>5 DEF ToSet
<1>7. UNION {PageRows(p) : p \in 1 .. PageCount} \subseteq ToSet(listed)
  BY DEF PageRows, ToSet
<1>8. QED BY <1>3, <1>4, <1>6, <1>7

\* Two lists make one.
LEMMA Joined ==
  ASSUME NEW S, NEW a \in Seq(S), NEW z \in Seq(S)
  PROVE  a \o z \in Seq(S) /\ Len(a \o z) = Len(a) + Len(z)
OBVIOUS

\* A list with one document more at its head, or with one document less.
LEMMA ListChanges ==
  ASSUME NEW c \in Seq(Document), IsInjective(c)
  PROVE  /\ \A d \in Document : d \notin ToSet(c) =>
              <<d>> \o c \in Seq(Document) /\ IsInjective(<<d>> \o c)
         /\ \A i \in DOMAIN c : RemoveAt(c, i) \in Seq(Document) /\ IsInjective(RemoveAt(c, i))
<1>1. Len(c) \in Nat /\ DOMAIN c = 1 .. Len(c) OBVIOUS
<1>2. ASSUME NEW d \in Document, d \notin ToSet(c)
      PROVE  <<d>> \o c \in Seq(Document) /\ IsInjective(<<d>> \o c)
  <2> DEFINE e == <<d>> \o c
  <2>1. /\ e \in Seq(Document) /\ DOMAIN e = 1 .. Len(c) + 1 /\ e[1] = d
        /\ \A k \in 2 .. Len(c) + 1 : e[k] = c[k - 1]
    BY <1>1
  <2> HIDE DEF e
  <2>2. \A k \in 2 .. Len(c) + 1 : e[k] # d BY <1>1, <1>2, <2>1 DEF ToSet
  <2>3. ASSUME NEW k \in DOMAIN e, NEW l \in DOMAIN e, e[k] = e[l] PROVE k = l
    <3>1. CASE k = 1 BY <1>1, <2>1, <2>2, <2>3, <3>1
    <3>2. CASE l = 1 BY <1>1, <2>1, <2>2, <2>3, <3>2
    <3>3. CASE k # 1 /\ l # 1
      <4>1. k - 1 \in DOMAIN c /\ l - 1 \in DOMAIN c /\ c[k - 1] = c[l - 1]
        BY <1>1, <2>1, <2>3, <3>3
      <4>2. k - 1 = l - 1 BY <4>1 DEF IsInjective
      <4>3. QED BY <1>1, <2>1, <4>2
    <3>4. QED BY <3>1, <3>2, <3>3
  <2>4. IsInjective(e) BY <2>3 DEF IsInjective
  <2>5. QED BY <2>1, <2>4 DEF e
<1>3. ASSUME NEW i \in DOMAIN c
      PROVE  RemoveAt(c, i) \in Seq(Document) /\ IsInjective(RemoveAt(c, i))
  <2> DEFINE e == RemoveAt(c, i)
             was(k) == IF k < i THEN k ELSE k + 1
  <2>1. /\ e \in Seq(Document) /\ DOMAIN e = 1 .. Len(c) - 1
        /\ \A k \in 1 .. Len(c) - 1 : e[k] = c[was(k)]
    <3> DEFINE a == SubSeq(c, 1, i - 1)
               z == SubSeq(c, i + 1, Len(c))
    <3>1. /\ a \in Seq(Document) /\ Len(a) = i - 1 /\ \A k \in 1 .. i - 1 : a[k] = c[k]
      BY <1>1
    <3>2. /\ z \in Seq(Document) /\ Len(z) = Len(c) - i
          /\ \A k \in 1 .. Len(c) - i : z[k] = c[i + k]
      BY <1>1
    <3>3. e = a \o z BY DEF RemoveAt
    <3> HIDE DEF a, z, e
    <3>4. e \in Seq(Document) /\ Len(e) = Len(c) - 1
      <4>1. e \in Seq(Document) /\ Len(e) = Len(a) + Len(z) BY <3>1, <3>2, <3>3, Joined, Zenon
      <4>2. (i - 1) + (Len(c) - i) = Len(c) - 1 BY <1>1
      <4>3. QED BY <3>1, <3>2, <4>1, <4>2
    <3>5. \A k \in 1 .. Len(c) - 1 : e[k] = IF k <= Len(a) THEN a[k] ELSE z[k - Len(a)]
      BY <1>1, <3>1, <3>2, <3>3, <3>4
    <3>6. ASSUME NEW k \in 1 .. Len(c) - 1 PROVE e[k] = c[was(k)]
      <4>1. CASE k < i BY <1>1, <3>1, <3>5, <4>1
      <4>2. CASE k >= i
        <5>1. k - (i - 1) \in 1 .. Len(c) - i /\ i + (k - (i - 1)) = k + 1 BY <1>1, <4>2
        <5>2. e[k] = z[k - (i - 1)] BY <1>1, <3>1, <3>5, <4>2
        <5>3. QED BY <1>1, <3>2, <4>2, <5>1, <5>2
      <4>3. QED BY <1>1, <4>1, <4>2
    <3>7. QED BY <1>1, <3>4, <3>6
  <2> HIDE DEF e
  <2>2. ASSUME NEW k \in DOMAIN e, NEW l \in DOMAIN e, e[k] = e[l] PROVE k = l
    <3>1. was(k) \in DOMAIN c /\ was(l) \in DOMAIN c /\ c[was(k)] = c[was(l)]
      BY <1>1, <2>1, <2>2
    <3>2. was(k) = was(l)
      <4> HIDE DEF was
      <4> QED BY <3>1 DEF IsInjective
    <3>3. QED BY <1>1, <2>1, <3>2
  <2>3. IsInjective(e) BY <2>2 DEF IsInjective
  <2>4. QED BY <2>1, <2>3 DEF e
<1>4. QED BY <1>2, <1>3

\* The documents can be listed.
LEMMA DocumentsListed ==
  SetToSeq(Document) \in Seq(Document) /\ IsInjective(SetToSeq(Document))
<1> DEFINE n == Cardinality(Document)
<1>1. n \in Nat /\ \E f \in [1 .. n -> Document] : IsInjective(f)
  BY RecordSyncAssumption, FS_CountingElements, FS_CardinalityType, FS_NatBijection
     DEF ExistsBijection, Bijection, Injection
<1>2. SetToSeq(Document) \in [1 .. n -> Document] /\ IsInjective(SetToSeq(Document))
  BY <1>1 DEF SetToSeq
<1>3. [1 .. n -> Document] \subseteq Seq(Document)
  BY <1>1
<1>4. QED BY <1>2, <1>3

\* The pages a run reads of the list.
PagesToRead == IF PageCount < MaxPages THEN PageCount ELSE MaxPages

\* A row that holds nothing but its own document's.
Kept(d) == [title : {Nobody, d}, detail : {Nobody, d}, summary : {Nobody, d}, stored : BOOLEAN]

RunFields == {"pc", "kind", "page", "target", "phase", "prevSig", "prevRead", "saw", "empty",
              "reads", "total", "got", "todo", "items", "moved"}

\* A page being read: what was read last is what the page's phase can show, so a page
\* that settles is the one asked for.
Settling ==
  /\ run.kind = "sync" /\ run.page \in 1 .. MaxPages /\ Len(run.got) = run.page - 1
  /\ run.target \subseteq Document /\ run.empty \in Nat
  /\ run.phase = "old" => run.prevRead \in {run.prevSig, NoSig}
  /\ run.phase = "blank" => run.prevRead \in {{}, NoSig}
  /\ run.page > 1 => run.total \in run.page .. MaxPages

RunFits ==
  /\ DOMAIN run = RunFields
  /\ run.pc \in {"idle", "queued", "settle", "aggregate", "open", "store", "mirror"}
  /\ run.moved \in BOOLEAN /\ run.reads \in 0 .. MaxReads
  /\ run.got \in Seq(SUBSET Document)
  /\ DOMAIN run.items \subseteq Document
  /\ \A d \in DOMAIN run.items : run.items[d] \in Kept(d)
  /\ run.pc = "settle" => Settling
  /\ run.pc = "queued" => run.got = <<>>
  /\ run.pc = "aggregate" => run.kind = "sync" /\ Len(run.got) <= MaxPages
  /\ run.pc = "open" => run.kind = "enrich" /\ run.todo \subseteq Document

Gathered == \A i \in DOMAIN run.got : run.got[i] = PageRows(i)

\* While the list stands still, what a run has read is the list's first pages.
RunKnows ==
  ~run.moved =>
    /\ run.pc = "settle" => /\ run.target = PageRows(run.page) /\ Gathered
                            /\ run.page > 1 => run.total = PagesToRead
    /\ run.pc = "aggregate" => Len(run.got) = PagesToRead /\ Gathered
    /\ run.pc \in {"store", "mirror"} /\ run.kind = "sync" /\ PageCount <= MaxPages
         => DOMAIN run.items = ToSet(listed)

TablesKept == \A d \in Document : rows[d] \in Kept(d) /\ approvals[d] \in Kept(d)
ListIsOne  == listed \in Seq(Document) /\ IsInjective(listed)

SyncInv ==
  /\ system \in Form \cup {NoSystem}
  /\ TablesKept
  /\ ListIsOne
  /\ RunFits
  /\ RunKnows

\* An idle run, and one that was just queued.
LEMMA RunStarts ==
  /\ run' = Idle => RunFits' /\ RunKnows'
  /\ \A kind : run' = [Idle EXCEPT !.pc = "queued", !.kind = kind] => RunFits' /\ RunKnows'
<1>1. MaxReads \in Nat BY RecordSyncAssumption
<1>2. DOMAIN Idle = RunFields BY DEF Idle, RunFields
<1>3. DOMAIN Idle.items = {} /\ Idle.got \in Seq(SUBSET Document) /\ 0 \in 0 .. MaxReads
  BY <1>1 DEF Idle
<1>4. ASSUME run' = Idle PROVE RunFits' /\ RunKnows'
  BY <1>2, <1>3, <1>4 DEF Idle, RunFits, RunKnows
<1>5. ASSUME NEW kind, run' = [Idle EXCEPT !.pc = "queued", !.kind = kind]
      PROVE  RunFits' /\ RunKnows'
  <2>1. DOMAIN run' = RunFields /\ run'.pc = "queued" BY <1>2, <1>5 DEF RunFields
  <2>2. /\ run'.items = Idle.items /\ run'.got = Idle.got /\ run'.moved = Idle.moved
        /\ run'.reads = Idle.reads
    BY <1>2, <1>5 DEF RunFields
  <2>3. QED BY <1>3, <2>1, <2>2 DEF Idle, RunFits, RunKnows
<1>6. QED BY <1>4, <1>5

\* What a run shows of a list that stays, it shows of the same pages.
LEMMA SamePages ==
  ASSUME listed' = listed
  PROVE  PageCount' = PageCount /\ PagesToRead' = PagesToRead /\ \A p : PageRows(p)' = PageRows(p)
BY DEF PageCount, PagesToRead, PageRows

\* A page taken for settled is the page that was asked for: what is left of the page
\* before, a blank page and half a page never are (waitListSettled).
LEMMA SettledIsTarget ==
  ASSUME RunFits, run.pc = "settle", NEW phase, NEW piece,
         Renders(run, phase, piece), Settled(run, Shown(run, phase, piece))
  PROVE  Shown(run, phase, piece) = run.target
<1> DEFINE sig == Shown(run, phase, piece)
<1>1. Settling BY DEF RunFits
<1>2. EmptyReads \in Nat BY RecordSyncAssumption
<1>3. phase \in {"old", "blank", "part", "full"}
  <2>1. CASE run.phase = "old" BY <2>1 DEF Renders
  <2>2. CASE run.phase = "blank"
    <3>1. phase \in {"blank", "part", "full"} BY <2>2, Zenon DEF Renders
    <3>2. QED BY <3>1
  <2>3. CASE run.phase # "old" /\ run.phase # "blank" BY <2>3 DEF Renders
  <2>4. QED BY <2>1, <2>2, <2>3
<1>4. CASE phase = "old"
  <2>1. sig = run.prevSig BY <1>4, Zenon DEF Shown
  <2>2. QED BY <2>1 DEF Settled, Changed
<1>5. CASE phase = "blank"
  <2>1. sig = {} BY <1>5 DEF Shown
  <2>2. run.target # {} => run.empty + 1 < EmptyReads BY <1>5, Zenon DEF Renders
  <2>3. run.empty + 1 >= EmptyReads BY <2>1, Zenon DEF Settled
  <2>4. QED BY <1>1, <1>2, <2>1, <2>2, <2>3 DEF Settling
<1>6. CASE phase = "part"
  <2>1. sig = piece BY <1>6 DEF Shown
  <2>2. piece # {} /\ piece \subseteq run.target BY <1>6, Zenon DEF Renders
  <2>3. run.prevRead = piece /\ piece # run.prevSig BY <2>1, <2>2 DEF Settled, Changed
  <2>4. piece # NoSig BY <1>1, <2>2, RecordSyncAssumption DEF Settling, NoSig
  <2>5. run.phase \in {"old", "blank"} BY <1>6 DEF Renders
  <2>6. QED BY <1>1, <2>2, <2>3, <2>4, <2>5 DEF Settling
<1>7. CASE phase = "full" BY <1>7 DEF Shown
<1>8. QED BY <1>3, <1>4, <1>5, <1>6, <1>7


\* A row of either table holds its own document's after an upsert of its own item.
LEMMA UpsertKeeps ==
  ASSUME NEW d, NEW row \in Kept(d), NEW item \in Kept(d)
  PROVE  /\ Upsert(row, item) \in Kept(d)
         /\ \A f \in {"title", "detail", "summary"} :
              row[f] # Nobody => Upsert(row, item)[f] # Nobody
BY DEF Kept, Upsert, KeepOr

\* So does either table, after an upsert of the run's items.
LEMMA TablesUpserted ==
  ASSUME SyncInv
  PROVE  \A d \in Document : /\ UpsertAll(rows, run.items)[d] \in Kept(d)
                             /\ UpsertAll(approvals, run.items)[d] \in Kept(d)
BY UpsertKeeps DEF SyncInv, TablesKept, RunFits, UpsertAll

\* The steps that only move the run keep the rest.
LEMMA OnlyTheRun ==
  ASSUME SyncInv, UNCHANGED <<system, rows, approvals, listed>>
  PROVE  (system \in Form \cup {NoSystem})' /\ TablesKept' /\ ListIsOne'
BY DEF SyncInv, TablesKept, ListIsOne

\* The steps that leave the run and the list alone.
LEMMA RestKept ==
  ASSUME SyncInv, UNCHANGED <<listed, run>>
  PROVE  ListIsOne' /\ RunFits' /\ RunKnows'
<1>1. ListIsOne' BY DEF SyncInv, ListIsOne
<1>2. RunFits' BY DEF SyncInv, RunFits, Settling
<1>3. RunKnows' BY SamePages DEF SyncInv, RunKnows, Gathered
<1>4. QED BY <1>1, <1>2, <1>3

\* The next page of a run, or its first.
LEMMA PageShown ==
  ASSUME NEW r, NEW p, p \in 1 .. MaxPages, listed \in Seq(Document),
         DOMAIN r = RunFields, r.kind = "sync", r.moved \in BOOLEAN,
         r.got \in Seq(SUBSET Document), Len(r.got) = p - 1,
         DOMAIN r.items \subseteq Document, \A d \in DOMAIN r.items : r.items[d] \in Kept(d),
         p > 1 => r.total \in p .. MaxPages,
         ~r.moved => /\ \A i \in DOMAIN r.got : r.got[i] = PageRows(i)
                     /\ p > 1 => r.total = PagesToRead,
         run' = ShowPage(r, p), UNCHANGED listed
  PROVE  RunFits' /\ RunKnows'
<1>1. MaxReads \in Nat /\ 0 \in 0 .. MaxReads BY RecordSyncAssumption
<1>2. DOMAIN run' = RunFields BY DEF ShowPage
<1>3. /\ run'.pc = "settle" /\ run'.page = p /\ run'.target = PageRows(p)
      /\ run'.phase = IF p = 1 THEN "blank" ELSE "old"
      /\ run'.prevRead = NoSig /\ run'.empty = 0 /\ run'.reads = 0
  BY DEF ShowPage, RunFields
<1>4. /\ run'.kind = r.kind /\ run'.moved = r.moved /\ run'.got = r.got
      /\ run'.items = r.items /\ run'.total = r.total
  BY DEF ShowPage, RunFields
<1>5. PageRows(p) \subseteq Document BY PagesCover
<1>6. Settling' BY <1>3, <1>4, <1>5 DEF Settling
<1>7. RunFits' BY <1>1, <1>2, <1>3, <1>4, <1>6 DEF RunFits
<1>8. PagesToRead' = PagesToRead /\ \A q : PageRows(q)' = PageRows(q) BY SamePages
<1>9. RunKnows' BY <1>3, <1>4, <1>8 DEF RunKnows, Gathered
<1>10. QED BY <1>7, <1>9

\* The run starts to read the list, or the details.
LEMMA StartRunKeeps ==
  ASSUME SyncInv, StartRun PROVE SyncInv'
<1>1. UNCHANGED <<system, rows, approvals, listed>> /\ run.pc = "queued" BY DEF StartRun
<1>2. CASE run.kind = "sync" /\ run' = ShowPage(run, 1)
  <2>1. 1 \in 1 .. MaxPages /\ Len(run.got) = 1 - 1 /\ DOMAIN run.got = {}
    <3>1. run.got = <<>> BY <1>1 DEF SyncInv, RunFits
    <3>2. QED BY <3>1, RecordSyncAssumption
  <2>2. RunFits' /\ RunKnows'
    BY <1>1, <1>2, <2>1, PageShown DEF SyncInv, RunFits, ListIsOne
  <2>3. QED BY <1>1, <2>2, OnlyTheRun DEF SyncInv
<1>3. CASE run' = Idle BY <1>1, <1>3, OnlyTheRun, RunStarts DEF SyncInv
<1>4. CASE /\ run.kind = "enrich"
           /\ run' = [run EXCEPT !.pc = "open", !.todo = WithoutSummary]
  <2>1. /\ DOMAIN run' = RunFields /\ run'.pc = "open" /\ run'.kind = "enrich"
        /\ run'.todo = WithoutSummary /\ run'.items = run.items /\ run'.got = run.got
        /\ run'.reads = run.reads /\ run'.moved = run.moved
    BY <1>4 DEF SyncInv, RunFits, RunFields
  <2>2. WithoutSummary \subseteq Document BY DEF WithoutSummary
  <2>3. RunFits' BY <2>1, <2>2 DEF SyncInv, RunFits
  <2>4. RunKnows' BY <2>1 DEF RunKnows
  <2>5. QED BY <1>1, <2>3, <2>4, OnlyTheRun DEF SyncInv
<1>5. QED BY <1>2, <1>3, <1>4 DEF StartRun

\* A read of the page on screen: not settled yet, a page more, or the whole list.
LEMMA ReadListKeeps ==
  ASSUME SyncInv, NEW phase, NEW piece, ReadList(phase, piece) PROVE SyncInv'
<1> DEFINE sig == Shown(run, phase, piece)
<1>1. /\ UNCHANGED <<system, rows, approvals, listed>> /\ run.pc = "settle"
      /\ run.reads < MaxReads /\ Renders(run, phase, piece)
      /\ run' = IF Settled(run, sig) THEN AfterPage(run, sig) ELSE ReadOnce(run, phase, sig)
  BY DEF ReadList
<1>2. Settling /\ RunFits /\ RunKnows /\ listed \in Seq(Document)
  BY <1>1 DEF SyncInv, RunFits, ListIsOne
<1>3. {MaxReads, MaxPages} \subseteq Nat \ {0} BY RecordSyncAssumption
<1>4. CASE ~Settled(run, sig)
  <2>1. run' = ReadOnce(run, phase, sig) BY <1>1, <1>4
  <2>2. /\ DOMAIN run' = RunFields /\ run'.phase = phase /\ run'.reads = run.reads + 1
        /\ run'.prevRead = sig /\ run'.empty = IF sig = {} THEN run.empty + 1 ELSE 0
    BY <1>2, <2>1 DEF ReadOnce, RunFits, RunFields
  <2>3. /\ run'.pc = "settle" /\ run'.kind = run.kind /\ run'.page = run.page
        /\ run'.target = run.target /\ run'.prevSig = run.prevSig /\ run'.total = run.total
        /\ run'.got = run.got /\ run'.items = run.items /\ run'.moved = run.moved
    BY <1>1, <1>2, <2>1 DEF ReadOnce, RunFits, RunFields
  <2>4. phase = "old" => sig = run.prevSig BY Zenon DEF Shown
  <2>5. phase = "blank" => sig = {} BY DEF Shown
  <2>6. Settling' BY <1>2, <2>2, <2>3, <2>4, <2>5 DEF Settling
  <2>7. run'.reads \in 0 .. MaxReads BY <1>1, <1>2, <1>3, <2>2 DEF RunFits
  <2>8. RunFits' BY <1>2, <2>2, <2>3, <2>6, <2>7 DEF RunFits
  <2>9. RunKnows' BY <1>1, <1>2, <2>3, SamePages DEF RunKnows, Gathered
  <2>10. QED BY <1>1, <2>8, <2>9, OnlyTheRun DEF SyncInv
<1>5. CASE Settled(run, sig)
  <2> DEFINE got   == Append(run.got, sig)
             total == IF run.page = 1 THEN PagesToRead ELSE run.total
             next  == [run EXCEPT !.got = got, !.prevSig = sig, !.total = total]
  <2>1. sig = run.target /\ sig \subseteq Document
    BY <1>1, <1>2, <1>5, SettledIsTarget DEF Settling
  <2>2. run' = IF run.page < total THEN ShowPage(next, run.page + 1)
               ELSE [run EXCEPT !.got = got, !.pc = "aggregate"]
    BY <1>1, <1>5 DEF AfterPage, PagesToRead
  <2>3. PagesToRead \in 1 .. MaxPages BY <1>2, <1>3, PagesCover DEF PagesToRead
  <2>4. total \in run.page .. MaxPages /\ run.page \in 1 .. MaxPages
    BY <1>2, <1>3, <2>3 DEF Settling
  <2>5. /\ got \in Seq(SUBSET Document) /\ Len(got) = run.page
        /\ DOMAIN got = DOMAIN run.got \cup {run.page} /\ got[run.page] = sig
        /\ \A i \in DOMAIN run.got : got[i] = run.got[i]
    BY <1>2, <1>3, <2>1 DEF RunFits, Settling
  <2> HIDE DEF got, sig
  <2>6. ~run.moved => /\ \A i \in DOMAIN got : got[i] = PageRows(i)
                      /\ total = PagesToRead
    BY <1>1, <1>2, <2>1, <2>4, <2>5 DEF RunKnows, Gathered
  <2> HIDE DEF total
  <2>7. CASE run.page < total
    <3>1. /\ DOMAIN next = RunFields /\ next.got = got /\ next.total = total
          /\ next.kind = run.kind /\ next.moved = run.moved /\ next.items = run.items
      BY <1>2 DEF RunFits, RunFields
    <3>2. run.page + 1 \in 1 .. MaxPages /\ total \in run.page + 1 .. MaxPages
          /\ Len(next.got) = (run.page + 1) - 1
      BY <1>3, <2>4, <2>5, <2>7, <3>1
    <3>3. run' = ShowPage(next, run.page + 1) BY <2>2, <2>7
    <3> HIDE DEF next
    <3>4. RunFits' /\ RunKnows'
      BY <1>1, <1>2, <2>5, <2>6, <3>1, <3>2, <3>3, PageShown DEF RunFits, Settling
    <3>5. QED BY <1>1, <3>4, OnlyTheRun DEF SyncInv
  <2>8. CASE ~(run.page < total)
    <3>1. run' = [run EXCEPT !.got = got, !.pc = "aggregate"] BY <2>2, <2>8
    <3>2. /\ DOMAIN run' = RunFields /\ run'.got = got /\ run'.pc = "aggregate"
          /\ run'.kind = run.kind /\ run'.moved = run.moved /\ run'.items = run.items
          /\ run'.reads = run.reads
      BY <1>2, <3>1 DEF RunFits, RunFields
    <3>3. run.page = total BY <1>3, <2>4, <2>8
    <3>4. run.kind = "sync" /\ Len(got) <= MaxPages BY <1>2, <1>3, <2>4, <2>5 DEF Settling
    <3>5. RunFits' BY <1>2, <2>5, <3>2, <3>4 DEF RunFits
    <3>6. RunKnows' BY <1>1, <2>5, <2>6, <3>2, <3>3, SamePages DEF RunKnows, Gathered
    <3>7. QED BY <1>1, <3>5, <3>6, OnlyTheRun DEF SyncInv
  <2>9. QED BY <2>7, <2>8
<1>6. QED BY <1>4, <1>5

\* A read that fails tells nothing.
LEMMA ReadFailsKeeps ==
  ASSUME SyncInv, NEW phase, NEW piece, ReadFails(phase, piece) PROVE SyncInv'
<1>1. /\ UNCHANGED <<system, rows, approvals, listed>> /\ run.pc = "settle"
      /\ run.reads < MaxReads /\ run' = FailedRead(run, phase)
  BY DEF ReadFails
<1>2. Settling /\ RunFits /\ RunKnows BY <1>1 DEF SyncInv, RunFits
<1>3. MaxReads \in Nat BY RecordSyncAssumption
<1>4. /\ DOMAIN run' = RunFields /\ run'.reads = run.reads + 1
      /\ run'.prevRead = NoSig /\ run'.empty = 0
  BY <1>1, <1>2 DEF FailedRead, RunFits, RunFields
<1>5. /\ run'.pc = "settle" /\ run'.kind = run.kind /\ run'.page = run.page
      /\ run'.target = run.target /\ run'.prevSig = run.prevSig /\ run'.total = run.total
      /\ run'.got = run.got /\ run'.items = run.items /\ run'.moved = run.moved
  BY <1>1, <1>2 DEF FailedRead, RunFits, RunFields
<1>6. Settling' BY <1>2, <1>4, <1>5 DEF Settling
<1>7. run'.reads \in 0 .. MaxReads BY <1>1, <1>2, <1>3, <1>4 DEF RunFits
<1>8. RunFits' BY <1>2, <1>4, <1>5, <1>6, <1>7 DEF RunFits
<1>9. RunKnows' BY <1>1, <1>2, <1>5, SamePages DEF RunKnows, Gathered
<1>10. QED BY <1>1, <1>8, <1>9, OnlyTheRun DEF SyncInv

\* The pages become the items: every document of the list, if the pages are the list's.
LEMMA AggregateKeeps ==
  ASSUME SyncInv, NEW untitled, Aggregate(untitled) PROVE SyncInv'
<1> DEFINE all == UNION ToSet(run.got)
           items == [d \in all |-> [Blank EXCEPT !.title = IF d \in untitled THEN Nobody ELSE d]]
<1>1. /\ UNCHANGED <<system, rows, approvals, listed>> /\ run.pc = "aggregate"
      /\ run' = [run EXCEPT !.pc = "store", !.items = items]
  BY DEF Aggregate
<1>2. RunFits /\ RunKnows /\ listed \in Seq(Document) BY DEF SyncInv, ListIsOne
<1>3. DOMAIN items = all /\ all \subseteq Document
  BY <1>2 DEF RunFits, ToSet
<1>4. \A d \in all : items[d] \in Kept(d) BY DEF Blank, Kept
<1>5. ~run.moved /\ PageCount <= MaxPages => all = ToSet(listed)
  <2>1. SUFFICES ASSUME ~run.moved, PageCount <= MaxPages PROVE all = ToSet(listed)
    OBVIOUS
  <2>2. PageCount \in Nat /\ MaxPages \in Nat BY <1>2, PagesCover, RecordSyncAssumption
  <2>3. PagesToRead = PageCount BY <2>1, <2>2 DEF PagesToRead
  <2>4. DOMAIN run.got = 1 .. PageCount /\ \A i \in 1 .. PageCount : run.got[i] = PageRows(i)
    BY <1>1, <1>2, <2>1, <2>3 DEF RunKnows, Gathered, RunFits
  <2>5. all = UNION {PageRows(p) : p \in 1 .. PageCount} BY <2>4 DEF ToSet
  <2>6. QED BY <1>2, <2>5, PagesCover
<1> HIDE DEF all, items
<1>6. /\ DOMAIN run' = RunFields /\ run'.pc = "store" /\ run'.items = items
      /\ run'.kind = run.kind /\ run'.moved = run.moved /\ run'.got = run.got
      /\ run'.reads = run.reads
  BY <1>1, <1>2 DEF RunFits, RunFields
<1>7. RunFits' BY <1>2, <1>3, <1>4, <1>6 DEF RunFits
<1>8. RunKnows' BY <1>1, <1>3, <1>5, <1>6, SamePages DEF RunKnows
<1>9. QED BY <1>1, <1>7, <1>8, OnlyTheRun DEF SyncInv

\* A detail is its own document's or none, and a summary is made of the detail.
LEMMA EnrichKeeps ==
  ASSUME SyncInv,
         \/ \E k \in Document, shown \in Document \cup {Nobody} : EnrichOne(k, shown)
         \/ \E answered \in SUBSET Document : Summarize(answered)
  PROVE  SyncInv'
<1>1. RunFits BY DEF SyncInv
<1>2. ASSUME NEW k \in Document, NEW shown \in Document \cup {Nobody}, EnrichOne(k, shown)
      PROVE  SyncInv'
  <2> DEFINE r == Detailed(run, k, shown)
             items == [d \in DOMAIN run.items \cup {k} |->
                         IF d = k THEN [Blank EXCEPT !.detail = shown] ELSE run.items[d]]
  <2>1. /\ UNCHANGED <<system, rows, approvals, listed>> /\ run.pc = "open"
        /\ run' = [r EXCEPT !.todo = @ \ {k}]
    BY <1>2 DEF EnrichOne
  <2>2. r = IF shown = k THEN [run EXCEPT !.items = items] ELSE run
    BY DEF Detailed, Identified
  <2>3. \A d \in DOMAIN items : d \in Document /\ (shown = k => items[d] \in Kept(d))
    BY <1>1 DEF RunFits, Blank, Kept
  <2> HIDE DEF items
  <2>4. /\ DOMAIN r = RunFields /\ r.pc = "open" /\ r.kind = run.kind /\ r.got = run.got
        /\ r.moved = run.moved /\ r.reads = run.reads /\ r.todo = run.todo
        /\ DOMAIN r.items \subseteq Document /\ \A d \in DOMAIN r.items : r.items[d] \in Kept(d)
    BY <1>1, <2>1, <2>2, <2>3 DEF RunFits, RunFields
  <2> HIDE DEF r
  <2>5. /\ DOMAIN run' = RunFields /\ run'.pc = "open" /\ run'.kind = run.kind
        /\ run'.got = run.got /\ run'.moved = run.moved /\ run'.reads = run.reads
        /\ run'.todo = run.todo \ {k} /\ run'.items = r.items
    BY <2>1, <2>4 DEF RunFields
  <2>6. RunFits' BY <1>1, <2>1, <2>4, <2>5 DEF RunFits
  <2>7. RunKnows' BY <2>5 DEF RunKnows
  <2>8. QED BY <2>1, <2>6, <2>7, OnlyTheRun DEF SyncInv
<1>3. ASSUME NEW answered \in SUBSET Document, Summarize(answered) PROVE SyncInv'
  <2> DEFINE items == [d \in DOMAIN run.items |->
                         IF d \in answered
                           THEN [run.items[d] EXCEPT !.summary = run.items[d].detail]
                           ELSE run.items[d]]
  <2>1. /\ UNCHANGED <<system, rows, approvals, listed>> /\ run.pc = "open"
        /\ run' = [run EXCEPT !.pc = "store", !.items = items]
    BY <1>3 DEF Summarize
  <2>2. DOMAIN items \subseteq Document /\ \A d \in DOMAIN items : items[d] \in Kept(d)
    BY <1>1 DEF RunFits, Kept
  <2> HIDE DEF items
  <2>3. /\ DOMAIN run' = RunFields /\ run'.pc = "store" /\ run'.kind = "enrich"
        /\ run'.got = run.got /\ run'.moved = run.moved /\ run'.reads = run.reads
        /\ run'.items = items
    BY <1>1, <2>1 DEF RunFits, RunFields
  <2>4. RunFits' BY <1>1, <2>2, <2>3 DEF RunFits
  <2>5. RunKnows' BY <2>3 DEF RunKnows
  <2>6. QED BY <2>1, <2>4, <2>5, OnlyTheRun DEF SyncInv
<1>4. QED BY <1>2, <1>3

\* The two transactions of a store.
LEMMA StoreKeeps ==
  ASSUME SyncInv, Store \/ Mirror PROVE SyncInv'
<1>1. RunFits /\ RunKnows BY DEF SyncInv
<1>2. CASE Store
  <2>1. /\ UNCHANGED <<system, approvals, listed>> /\ run.pc = "store"
        /\ rows' = UpsertAll(rows, run.items) /\ run' = [run EXCEPT !.pc = "mirror"]
    BY <1>2 DEF Store
  <2>2. TablesKept' BY <2>1, TablesUpserted DEF TablesKept, SyncInv
  <2>3. /\ DOMAIN run' = RunFields /\ run'.pc = "mirror" /\ run'.kind = run.kind
        /\ run'.got = run.got /\ run'.moved = run.moved /\ run'.reads = run.reads
        /\ run'.items = run.items
    BY <1>1, <2>1 DEF RunFits, RunFields
  <2>4. RunFits' BY <1>1, <2>3 DEF RunFits
  <2>5. RunKnows' BY <1>1, <2>1, <2>3, SamePages DEF RunKnows
  <2>6. QED BY <2>1, <2>2, <2>4, <2>5 DEF SyncInv, ListIsOne
<1>3. CASE Mirror
  <2>1. /\ UNCHANGED <<system, rows, listed>> /\ run' = Idle
        /\ approvals' = UpsertAll(approvals, run.items)
    BY <1>3 DEF Mirror
  <2>2. TablesKept' BY <2>1, TablesUpserted DEF TablesKept, SyncInv
  <2>3. QED BY <2>1, <2>2, RunStarts DEF SyncInv, ListIsOne
<1>4. QED BY <1>2, <1>3

\* The list changes under the run, which is marked.
LEMMA ListMovesKeeps ==
  ASSUME SyncInv, NEW d \in Document, DocumentArrives(d) \/ DocumentLeaves(d) PROVE SyncInv'
<1>1. UNCHANGED <<system, rows, approvals>> /\ Moved
  BY DEF DocumentArrives, DocumentLeaves
<1>2. ListIsOne'
  <2>1. CASE DocumentArrives(d) BY <2>1, ListChanges DEF DocumentArrives, ListIsOne, SyncInv
  <2>2. CASE DocumentLeaves(d)
    <3>1. PICK i \in DOMAIN listed : listed' = RemoveAt(listed, i) BY <2>2 DEF DocumentLeaves
    <3>2. QED BY <3>1, ListChanges DEF ListIsOne, SyncInv
  <2>3. QED BY <2>1, <2>2
<1>3. RunFits BY DEF SyncInv
<1>4. /\ DOMAIN run' = RunFields /\ run'.moved = (run.moved \/ run.pc # "idle")
      /\ \A f \in RunFields \ {"moved"} : run'[f] = run[f]
  BY <1>1, <1>3 DEF Moved, RunFits, RunFields
<1>5. /\ run'.pc = run.pc /\ run'.kind = run.kind /\ run'.page = run.page
      /\ run'.target = run.target /\ run'.phase = run.phase /\ run'.prevSig = run.prevSig
      /\ run'.prevRead = run.prevRead /\ run'.empty = run.empty /\ run'.reads = run.reads
      /\ run'.total = run.total /\ run'.got = run.got /\ run'.todo = run.todo
      /\ run'.items = run.items
  BY <1>4 DEF RunFields
<1>6. run'.moved \in BOOLEAN BY <1>3, <1>4 DEF RunFits
<1>7. run.pc = "settle" => Settling' BY <1>3, <1>5 DEF RunFits, Settling
<1>8. RunFits' BY <1>3, <1>4, <1>5, <1>6, <1>7 DEF RunFits
<1>9. RunKnows' BY <1>4, <1>5 DEF RunKnows
<1>10. QED BY <1>1, <1>2, <1>8, <1>9 DEF SyncInv, TablesKept

\* Initially, and along every step.
THEOREM SyncInvariant == SyncSpec => []SyncInv
<1>1. SyncInit => SyncInv
  <2>1. SUFFICES ASSUME SyncInit PROVE SyncInv OBVIOUS
  <2>2. TablesKept BY <2>1 DEF SyncInit, TablesKept, Kept, NoRow
  <2>3. ListIsOne BY <2>1, DocumentsListed DEF SyncInit, ListIsOne
  <2>4. run = Idle BY <2>1 DEF SyncInit
  <2>5. MaxReads \in Nat BY RecordSyncAssumption
  <2>6. DOMAIN run = RunFields BY <2>4 DEF Idle, RunFields
  <2>7. DOMAIN run.items = {} /\ run.got \in Seq(SUBSET Document) /\ 0 \in 0 .. MaxReads
    BY <2>4, <2>5 DEF Idle
  <2>8. RunFits /\ RunKnows BY <2>4, <2>6, <2>7 DEF Idle, RunFits, RunKnows
  <2>9. QED BY <2>1, <2>2, <2>3, <2>8 DEF SyncInit, SyncInv
<1>2. SyncInv /\ [SyncNext]_syncVars => SyncInv'
  <2>1. SUFFICES ASSUME SyncInv, [SyncNext]_syncVars PROVE SyncInv' OBVIOUS
  <2>2. ASSUME NEW form \in Form, SaveSystem(form) PROVE SyncInv'
    <3>1. /\ form.shape \in Shape /\ form.egress \in BOOLEAN /\ form.target \in BOOLEAN
          /\ system.egress \in BOOLEAN /\ system.target \in BOOLEAN
          /\ system # NoSystem => system.shape \in Shape
      <4>1. /\ form.shape \in Shape /\ form.egress \in BOOLEAN /\ form.target \in BOOLEAN
        BY DEF Form
      <4>2. CASE system \in Form BY <4>1, <4>2 DEF Form
      <4>3. CASE system = NoSystem
        <5>1. system.egress = FALSE /\ system.target = FALSE BY <4>3 DEF NoSystem
        <5>2. QED BY <4>1, <4>3, <5>1
      <4>4. QED BY <2>1, <4>2, <4>3 DEF SyncInv
    <3>2. (system.target \/ form.target) \in BOOLEAN BY Zenon
    <3>3. Saved(system, form) \in Form BY <3>1, <3>2 DEF Saved, Form
    <3>4. system' \in Form BY <2>2, <3>3 DEF SaveSystem
    <3>5. UNCHANGED <<rows, approvals, listed, run>> BY <2>2 DEF SaveSystem
    <3>6. QED BY <2>1, <3>4, <3>5, RestKept DEF SyncInv, TablesKept
  <2>3. CASE RemoveSystem
    <3>1. /\ system' = NoSystem /\ rows' = [d \in Document |-> NoRow]
          /\ UNCHANGED <<approvals, listed, run>>
      BY <2>3 DEF RemoveSystem
    <3>2. TablesKept' BY <2>1, <3>1 DEF SyncInv, TablesKept, Kept, NoRow
    <3>3. QED BY <2>1, <3>1, <3>2, RestKept DEF SyncInv
  <2>4. ASSUME NEW kind, PostRun(kind) PROVE SyncInv'
    BY <2>1, <2>4, RunStarts, OnlyTheRun DEF PostRun, SyncInv
  <2>5. CASE RunEndsEarly BY <2>1, <2>5, RunStarts, OnlyTheRun DEF RunEndsEarly, SyncInv
  <2>6. CASE UNCHANGED syncVars
    BY <2>1, <2>6, RestKept, OnlyTheRun DEF syncVars, SyncInv
  <2>7. QED
    BY <2>1, <2>2, <2>3, <2>4, <2>5, <2>6, StartRunKeeps, ReadListKeeps, ReadFailsKeeps,
       AggregateKeeps, EnrichKeeps, StoreKeeps, ListMovesKeeps DEF SyncNext
<1>3. QED BY <1>1, <1>2, PTL DEF SyncSpec

\* What a run stores is the site's, whatever the site shows between two reads and however
\* often the list moves: a sync that saw the list stand still stores every document on it,
\* and no row holds another document's detail (waitListSettled, extract-detail).
THEOREM SyncSound == SyncSpec => [](SyncTypeOK /\ SyncIsTrue)
<1>1. SyncInv => SyncTypeOK
  <2>1. SUFFICES ASSUME SyncInv PROVE SyncTypeOK OBVIOUS
  <2>2. \A d \in Document : {rows[d], approvals[d]} \subseteq RowOf(d)
    BY <2>1 DEF SyncInv, TablesKept, Kept, RowOf
  <2>3. ToSet(listed) \subseteq Document BY <2>1 DEF SyncInv, ListIsOne, ToSet
  <2>4. run.pc \in {"settle", "aggregate"} => run.kind = "sync" /\ Len(run.got) < MaxPages + 1
    BY <2>1, RecordSyncAssumption DEF SyncInv, RunFits, Settling
  <2>5. QED BY <2>1, <2>2, <2>3, <2>4 DEF SyncInv, ListIsOne, RunFits, SyncTypeOK
<1>2. SyncInv => SyncIsTrue
  <2>1. SUFFICES ASSUME SyncInv PROVE SyncIsTrue OBVIOUS
  <2>2. SyncIsWhole BY <2>1 DEF SyncInv, RunKnows, SyncIsWhole, RunFits
  <2>3. DetailIsOwn BY <2>1 DEF SyncInv, TablesKept, Kept, DetailIsOwn
  <2>4. QED BY <2>2, <2>3 DEF SyncIsTrue
<1>3. QED BY <1>1, <1>2, SyncInvariant, PTL

\* No run takes back what another stored: an upsert keeps the stored value where its item
\* has none, and only the removal of the system empties the records (upsertRecords,
\* approvalsDualWrite, deleteSystem).
THEOREM SyncKeeps == SyncSpec => NothingIsLost
<1> DEFINE A == \A d \in Document, f \in {"title", "detail", "summary"} :
                  /\ rows[d][f] # Nobody => rows'[d][f] # Nobody \/ ~Registered'
                  /\ approvals[d][f] # Nobody => approvals'[d][f] # Nobody
<1>1. SyncInv /\ [SyncNext]_syncVars => [A]_syncVars
  <2>1. SUFFICES ASSUME SyncInv, SyncNext PROVE A BY DEF syncVars
  <2>2. CASE UNCHANGED <<rows, approvals>> BY <2>2
  <2>3. CASE Store
    BY <2>1, <2>3, UpsertKeeps DEF Store, UpsertAll, SyncInv, TablesKept, RunFits
  <2>4. CASE Mirror
    BY <2>1, <2>4, UpsertKeeps DEF Mirror, UpsertAll, SyncInv, TablesKept, RunFits
  <2>5. CASE RemoveSystem BY <2>5 DEF RemoveSystem, Registered
  <2>6. QED
    BY <2>1, <2>2, <2>3, <2>4, <2>5
       DEF SyncNext, SaveSystem, DocumentArrives, DocumentLeaves, PostRun, StartRun,
           RunEndsEarly, ReadList, ReadFails, Aggregate, EnrichOne, Summarize
<1>2. QED BY <1>1, SyncInvariant, PTL DEF SyncSpec, NothingIsLost

-----------------------------------------------------------------------------
(* The parts side by side.                                                  *)

\* A step of the server is a step, or none, of each part.
LEMMA RequestsStepParts ==
  [RequestsNext]_requestVars =>
    /\ [DeletionNext]_deletionVars /\ [TableNext]_tableVars
    /\ [MigrationNext]_migrationVars /\ [FilesNext]_fileVars /\ [SyncNext]_syncVars
    /\ [AccessNext]_accessVars /\ [EgressNext]_egressVars /\ [ReplayNext]_replayVars
BY DEF RequestsNext, RestBut, requestVars

\* Side by side the parts keep to their specifications.
THEOREM RequestsImplementParts ==
  RequestsSpec => /\ DeletionSpec /\ TableSpec /\ MigrationSpec /\ FilesSpec
                  /\ SyncSpec /\ AccessSpec /\ EgressSpec /\ ReplaySpec
<1>1. RequestsInit => /\ DeletionInit /\ TableInit /\ MigrationInit /\ FilesInit
                      /\ SyncInit /\ AccessInit /\ EgressInit /\ ReplayInit
  BY DEF RequestsInit
<1>2. QED
  BY <1>1, RequestsStepParts, PTL
     DEF RequestsSpec, DeletionSpec, TableSpec, MigrationSpec, FilesSpec, SyncSpec,
         AccessSpec, EgressSpec, ReplaySpec

\* All that the server lets through is what its gates allow, all that it keeps is what was
\* brought to it, and each part keeps its types.
THEOREM RequestsSound ==
  RequestsSpec => [](/\ RequestsTypeOK
                     /\ DeletionIsHonest /\ DeletedIsNotServed /\ ScopeIsCovered
                     /\ EditsSurvive /\ SyncIsTrue
                     /\ LiveActIsGated /\ EgressHolds /\ ReplayIsGated)
<1>1. /\ DeletionTypeOK /\ TableTypeOK /\ MigrationTypeOK /\ FilesTypeOK
      /\ SyncTypeOK /\ AccessTypeOK /\ EgressTypeOK /\ ReplayTypeOK
      => RequestsTypeOK
  BY DEF RequestsTypeOK
<1>2. QED
  BY <1>1, RequestsImplementParts, DeletionSound, MigrationTyped, TableSound, MigrationScopeCovered,
     FilesSound, SyncSound, AccessSound, EgressSound, ReplaySound, PTL

\* Beside the other parts, too, a migration keeps to its phases, a record keeps what it
\* has, and a session that has ended stays ended.
THEOREM RequestsKeep == RequestsSpec => KeepsPhases /\ NothingIsLost /\ EndedStaysEnded
BY RequestsImplementParts, MigrationInPhases, SyncKeeps, EndedIsOver
=============================================================================
