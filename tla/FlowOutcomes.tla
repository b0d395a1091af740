---------------------------- MODULE FlowOutcomes ----------------------------
(***************************************************************************)
(* The final classifications of the real research flow                     *)
(* (service/factor_combo_models.py, FlowOutcome), and what the flow may    *)
(* assume of the registration stage.  ResearchFlow uses RegisterResults as *)
(* the effect of register_real_result_and_refresh; Registration, the       *)
(* detailed model of that method, is checked to end inside it.             *)
(***************************************************************************)

\* "UNCLASSIFIED" is any exception that is not a FactorComboFlowError.
Failures == {"FAIL_TECHNICAL", "FAIL_REFRESH", "FAIL_CONTRACT", "UNCLASSIFIED"}
Outcomes == {"PASS_REGISTERED", "PASS_INVALID"} \cup Failures
Undecided == "none"

RefreshStates == {"none", "active", "completed", "failed"}

AnyEndedRefreshPasses ==
    [outcome: {"PASS_REGISTERED"}, refresh: {"completed", "failed"}, late: {FALSE}]

\* outcome of the stage, refresh status in the database when it ends, and
\* whether a registration request is still unprocessed when it ends.
RegisterResults ==
    [outcome: {"PASS_REGISTERED"}, refresh: {"completed"}, late: {FALSE}]
        \cup [outcome: Failures, refresh: RefreshStates, late: {FALSE}]
        \cup [outcome: {"FAIL_TECHNICAL"}, refresh: RefreshStates, late: {TRUE}]
=============================================================================
