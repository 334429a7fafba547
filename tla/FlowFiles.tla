------------------------------ MODULE FlowFiles ------------------------------
(***************************************************************************)
(* The files of one flow while people edit it and a verify run repairs it: *)
(* flow.json and the saved input values (webui/flows.js, the rewrite of    *)
(* bin/play-flow.mjs, webui/secrets-store-encrypted.js).                   *)
(*                                                                         *)
(* The server's edits read a file, and write it when that read has         *)
(* returned; a write empties the file and then fills it.  They wait for    *)
(* each other on a chain of promises.  A verify run is a child process and *)
(* is not on that chain; it replaces the file by a rename.                 *)
(***************************************************************************)
EXTENDS Naturals, Sequences, SequencesExt

CONSTANTS
  Step,      (* steps of the flow                                           *)
  Field,     (* input values                                                *)
  Post       (* edit requests under way at once                             *)

VARIABLES
  steps,     (* flow.json: what each step is                                *)
  vals,      (* the values sidecar or secret: the fields saved              *)
  torn,      (* files that are empty or half written                        *)
  chain,     (* the write lock: posts in their order, the first one running *)
  post,      (* each post: what it wants, what it read                      *)
  verify,    (* the verify run: what it read                                *)
  said       (* history: edits answered as done, less those that a crash or *)
             (* a verify run is known to have taken back                    *)

fileVars == <<steps, vals, torn, chain, post, verify, said>>

-----------------------------------------------------------------------------
StepKind == {"review", "find", "record"}
File     == {"flow", "values"}

\* resolveStep, resolveClickedRecordStep and saveValues.
Wish == [edit: {"resolve", "convert"}, on: Step] \cup [edit: {"save"}, on: Field]

FileOf(w) == IF w.edit = "save" THEN "values" ELSE "flow"

NoPost   == [pc |-> "none"]
NoVerify == [on |-> FALSE]

\* Wrong variant: posts do not wait for each other.
RunningUnlocked(p) == p \in Range(chain)

Running(p) == chain # <<>> /\ p = Head(chain)

\* The steps an edit is for: one to review is resolved, and a click becomes a record
\* step whether it has been reviewed or not.
Editables(w) == IF w.edit = "resolve" THEN {"review"} ELSE {"review", "find"}

\* An edit that the file, as read, allows; a file that cannot be read is no flow.
Editable(w) == w.edit # "save" => "flow" \notin torn /\ steps[w.on] \in Editables(w)

\* Values that cannot be read are taken for none.
Fields == IF "values" \in torn THEN {} ELSE vals

Arrive(p, w) ==
  /\ post[p] = NoPost
  /\ post' = [post EXCEPT ![p] = [pc |-> "wait", wish |-> w]]
  /\ chain' = Append(chain, p)
  /\ UNCHANGED <<steps, vals, torn, verify, said>>

\* Wrong variant: a post that is over keeps its place.
LeaveHoldingLock(p) ==
  /\ UNCHANGED chain
  /\ post' = [post EXCEPT ![p] = NoPost]

\* The first of the chain is over, and lets the next one run.
Leave(p) ==
  /\ chain' = Tail(chain)
  /\ post' = [post EXCEPT ![p] = NoPost]

\* A post may be refused whatever the file says: its recipe, snapshot or candidate is
\* missing, or no row can be inferred from them.
Read(p) ==
  /\ Running(p) /\ post[p].pc = "wait"
  /\ LET w == post[p].wish
     IN  \/ /\ Editable(w)
            /\ post' = [post EXCEPT ![p] = [pc |-> "read", wish |-> w,
                                            steps |-> steps, vals |-> Fields]]
            /\ UNCHANGED chain
         \/ Leave(p)
  /\ UNCHANGED <<steps, vals, torn, verify, said>>

WriteBegins(p) ==
  /\ Running(p) /\ post[p].pc = "read"
  /\ torn' = torn \cup {FileOf(post[p].wish)}
  /\ post' = [post EXCEPT ![p].pc = "write"]
  /\ UNCHANGED <<steps, vals, chain, verify, said>>

Edited(p) ==
  LET w == post[p].wish
  IN  [post[p].steps EXCEPT ![w.on] = IF w.edit = "resolve" THEN "find" ELSE "record"]

Merged(p) == post[p].vals \cup {post[p].wish.on}

\* The file is whole, and the post is answered.
WriteEnds(p) ==
  /\ Running(p) /\ post[p].pc = "write"
  /\ LET w == post[p].wish
     IN  /\ torn' = torn \ {FileOf(w)}
         /\ IF w.edit = "save"
            THEN vals' = Merged(p) /\ UNCHANGED steps
            ELSE steps' = Edited(p) /\ UNCHANGED vals
         /\ said' = said \cup {w}
  /\ Leave(p)
  /\ UNCHANGED verify

\* A verify run has replaced the file that was open for this write.
WriteIsLost(p) ==
  /\ Running(p) /\ post[p].pc = "orphan"
  /\ Leave(p)
  /\ UNCHANGED <<steps, vals, torn, verify, said>>

-----------------------------------------------------------------------------
\* A verify run needs a flow without steps to review.
VerifyReads ==
  /\ ~verify.on
  /\ "flow" \notin torn
  /\ \A s \in Step : steps[s] # "review"
  /\ verify' = [on |-> TRUE, steps |-> steps]
  /\ UNCHANGED <<steps, vals, torn, chain, post, said>>

\* What it found: at most one step without a unique locator, which is to be reviewed;
\* or it failed, or found nothing to change, and leaves the file alone.
VerifyEnds ==
  /\ verify.on
  /\ verify' = NoVerify
  /\ \/ /\ \E s \in Step :
             /\ verify.steps[s] = "find"
             /\ steps' \in {verify.steps, [verify.steps EXCEPT ![s] = "review"]}
        /\ torn' = torn \ {"flow"}
        /\ post' = [p \in Post |->
             IF post[p].pc = "write" /\ FileOf(post[p].wish) = "flow"
             THEN [post[p] EXCEPT !.pc = "orphan"] ELSE post[p]]
        /\ said' = {w \in said : FileOf(w) = "flow" =>
                       steps'[w.on] # "review" /\ steps[w.on] = verify.steps[w.on]}
     \/ UNCHANGED <<steps, torn, post, said>>
  /\ UNCHANGED <<vals, chain>>

\* The server dies: its posts are gone, and a file it was writing stays as it is.
ServerDies ==
  /\ chain # <<>>
  /\ chain' = <<>>
  /\ post' = [p \in Post |-> NoPost]
  /\ said' = {w \in said : FileOf(w) \notin torn}
  /\ UNCHANGED <<steps, vals, torn, verify>>

FilesInit ==
  /\ steps \in [Step -> {"review", "find"}]
  /\ vals = {}
  /\ torn = {}
  /\ chain = <<>>
  /\ post = [p \in Post |-> NoPost]
  /\ verify = NoVerify
  /\ said = {}

FilesNext ==
  \/ \E p \in Post :
       \/ \E w \in Wish : Arrive(p, w)
       \/ Read(p) \/ WriteBegins(p) \/ WriteEnds(p) \/ WriteIsLost(p)
  \/ VerifyReads \/ VerifyEnds \/ ServerDies

FilesSpec == FilesInit /\ [][FilesNext]_fileVars

-----------------------------------------------------------------------------
FilesTypeOK ==
  /\ steps \in [Step -> StepKind]
  /\ vals \subseteq Field
  /\ torn \subseteq File
  /\ Range(chain) = {p \in Post : post[p].pc # "none"}
  /\ said \subseteq Wish

\* flows.js says that two edits cannot lose one another's update.  What an edit was
\* answered to have done is there, and can be read unless a write is under way.
EditsSurvive ==
  \A w \in said :
    \/ FileOf(w) \in torn
    \/ w.edit = "save" /\ w.on \in vals
    \/ w.edit = "convert" /\ steps[w.on] = "record"
    \/ w.edit = "resolve" /\ steps[w.on] # "review"
=============================================================================
