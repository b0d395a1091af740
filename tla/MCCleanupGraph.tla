---------------------------- MODULE MCCleanupGraph ----------------------------
(* CleanupGraph, for TLC. *)
EXTENDS CleanupGraph
=============================================================================
