----------------------------- MODULE MCJobSystem -----------------------------
(* The server, one outbound worker and two jobs either of them may run.       *)
EXTENDS JobSystem

CONSTANTS w0, w1

MCJob         == 1 .. 2
MCWorker      == {w0, w1}
MCRunner      == {w1}
MCMaxAttempts == [j \in MCJob |-> 1]
MCTenantOf    == [x \in MCJob \cup MCWorker |-> "a"]
=============================================================================
