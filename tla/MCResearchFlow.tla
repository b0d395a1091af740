--------------------------- MODULE MCResearchFlow ---------------------------
(* Two rounds with one technical retry each: four starts, so a forced run in *)
(* either round and a round that starts on feedback all happen.              *)
EXTENDS ResearchFlow
=============================================================================
