----------------------------- MODULE MCJobStore -----------------------------
(* Two jobs of one tenant and one of another, a worker pair sharing the      *)
(* first tenant; job 2 has no persisted command, job 1 may be tried twice.   *)
EXTENDS JobStore

CONSTANTS w1, w2, w3

MCJob         == 1 .. 3
MCWorker      == {w1, w2, w3}
MCResumable   == {1, 3}
MCMaxAttempts == [j \in MCJob |-> IF j = 1 THEN 2 ELSE 1]
MCTenantOf    == [x \in MCJob \cup MCWorker |-> IF x \in {3, w3} THEN "b" ELSE "a"]
=============================================================================
