---------------------------- MODULE MCServerDuties ---------------------------
(* The instances the parts of ServerDuties are checked on. *)
EXTENDS ServerDuties

(* A document in two versions, two recipe versions that may go missing and   *)
(* three jobs: enough for a target set to change and change back under a    *)
(* running rehearsal, and for a late dry run to be ahead of the live job on *)
(* the queue.                                                               *)
MCKey == {"d1"}
MCVersion == 1 .. 2
MCRecipe == 1 .. 2

-----------------------------------------------------------------------------
(* A job, a session from the environment, two callers of the cleanup queue. *)
MCBrowserJob == 1 .. 2
MCConfigured == {2}

-----------------------------------------------------------------------------
(* Two events, up to three tries each, and one stop or crash.  A second     *)
(* drain name lets a tick that ignored the one in flight show.              *)
MCEvent == 1 .. 2
MCDrain == 1 .. 2
=============================================================================
