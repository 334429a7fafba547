----------------------------- MODULE MCLocalQueue -----------------------------
(* Three jobs of which the second has no persisted command, so that a restart *)
(* does not put it back on the chain; no runner but the server itself.        *)
EXTENDS LocalQueue

CONSTANTS w0

MCJob         == 1 .. 3
MCWorker      == {w0}
MCResumable   == {1, 3}
MCMaxAttempts == [j \in MCJob |-> 1]
MCTenantOf    == [x \in MCJob \cup MCWorker |-> "a"]
=============================================================================
