----------------------------- MODULE MCWorkerFlow -----------------------------
(* Two feedback rounds; the pool member's direction is either.             *)
EXTENDS WorkerFlow

BothDirections == {-1, 1}
=============================================================================
