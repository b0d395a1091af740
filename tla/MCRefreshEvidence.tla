--------------------------- MODULE MCRefreshEvidence ---------------------------
(* RefreshEvidence, for TLC. *)
EXTENDS RefreshEvidence, TLC

Symmetry == Permutations(Windows)
=============================================================================
