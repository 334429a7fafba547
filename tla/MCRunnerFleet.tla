---------------------------- MODULE MCRunnerFleet ----------------------------
(* Two workers of the same tenant and two jobs, the first of which may be     *)
(* attempted twice.                                                           *)
EXTENDS RunnerFleet

CONSTANTS w1, w2

MCJob         == 1 .. 2
MCWorker      == {w1, w2}
MCMaxAttempts == [j \in MCJob |-> 3 - j]
MCTenantOf    == [x \in MCJob \cup MCWorker |-> "a"]
=============================================================================
