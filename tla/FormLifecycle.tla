---------------------------- MODULE FormLifecycle ----------------------------
(***************************************************************************)
(* What the framework promises about a form it hands to the backend: runs  *)
(* of the form follow one another and never overlap, there are at most     *)
(* RunLimit of them, and the form is removed at most once, while no run of *)
(* it works, after which it is never run again.                            *)
(***************************************************************************)
EXTENDS Naturals

CONSTANT RunLimit

VARIABLES form,   \* "idle", "running" or "removed"
          used    \* runs so far

lifecycleVars == <<form, used>>

Init == form = "idle" /\ used = 0

StartRun ==
    /\ form = "idle"
    /\ used < RunLimit
    /\ form' = "running"
    /\ used' = used + 1

EndRun == form = "running" /\ form' = "idle" /\ UNCHANGED used

Remove == form = "idle" /\ form' = "removed" /\ UNCHANGED used

Next == StartRun \/ EndRun \/ Remove

Spec == Init /\ [][Next]_lifecycleVars
=============================================================================
