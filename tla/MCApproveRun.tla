----------------------------- MODULE MCApproveRun -----------------------------
(* Two documents among up to three rows, two to a page, and batches of both.   *)
(* d2 was stamped earlier today.                                               *)
EXTENDS ApproveRun

CONSTANTS d1, d2, x

MCDoc   == {d1, d2}
MCOther == {x}
MCBatch == {<<d1, d2>>}
MCEarlierStamp == {d2}
=============================================================================
