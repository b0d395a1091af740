------------------------------ MODULE RunClient ------------------------------
(***************************************************************************)
(* What every client of a real run shares: the one entry point that sends  *)
(* a run start (FactorComboService.start_real_run_request), the protection *)
(* mark of TestResourceScope it sets and clears, the status read with its  *)
(* database identity check, and the fixture's final cleanup.               *)
(*                                                                         *)
(* The form is one the scope tracks.  TestResourceScope keeps a set of     *)
(* protected form ids and not a count, so one release undoes any number of *)
(* protections; for a single form that set is the Boolean `protected'.     *)
(***************************************************************************)
EXTENDS PipelineBackend, FlowOutcomes

VARIABLES protected,    \* the form is in TestResourceScope.protected_form_ids
          starts,       \* run-start requests sent so far
          refresh       \* sub_factor_refreshes.status of the generated sub-factor

clientVars == <<protected, starts, refresh>>

ClientTypeOK ==
    /\ protected \in BOOLEAN
    /\ starts \in 0..MaxStarts
    /\ refresh \in RefreshStates

ClientInit ==
    /\ protected = FALSE
    /\ starts = 0
    /\ refresh = "none"

\* The row and run state a client action leaves to the backend.
BackendRows == <<runState, runFeedback, published, formExists, formRun, formDone>>

-----------------------------------------------------------------------------
(* start_real_run_request                                                   *)

\* The form is protected before the POST leaves.  The POST itself is sent with
\* retryable=False, so one call puts exactly one request on the network.
SendStart(fresh, fb, prev) ==
    /\ starts < MaxStarts
    /\ protected' = TRUE
    /\ starts' = starts + 1
    /\ net' = net \cup {[id |-> starts + 1, fresh |-> fresh, fb |-> fb, prev |-> prev]}
    /\ waitFor' = starts + 1
    /\ reply' = NoReply
    /\ UNCHANGED <<BackendRows, refresh>>

\* requests.RequestException: the caller stops waiting, whatever became of the
\* request.  Protection stays.
StartUnanswered ==
    /\ waitFor # 0
    /\ waitFor' = 0
    /\ reply' = NoReply
    /\ UNCHANGED <<BackendRows, net, clientVars>>

NotAccepted == {"throttled", "refused"}

ReleaseOnError(kinds) ==
    /\ waitFor # 0
    /\ reply.kind \in kinds
    /\ protected' = (protected /\ reply.kind \notin NotAccepted \cup {"error"})
    /\ waitFor' = 0
    /\ reply' = NoReply
    /\ UNCHANGED <<BackendRows, net, starts, refresh>>

\* A 4xx other than 409 is taken as "not accepted" and releases the form.
StartAnswered(kinds) ==
    /\ waitFor # 0
    /\ reply.kind \in kinds
    /\ protected' = (protected /\ reply.kind \notin NotAccepted)
    /\ waitFor' = 0
    /\ reply' = NoReply
    /\ UNCHANGED <<BackendRows, net, starts, refresh>>

-----------------------------------------------------------------------------
(* read_real_run_status: the database row must point at the run, then the  *)
(* status endpoint is asked.  Either may fail technically, and either may  *)
(* return something that breaks the contract.                              *)

Technical == [kind |-> "technical", status |-> "none", action |-> "none"]
Contract  == [kind |-> "contract",  status |-> "none", action |-> "none"]
Seen(status, action) == [kind |-> "status", status |-> status, action |-> action]

\* The status text may lag behind the recommended action, never the reverse.
StatusViews(r) ==
    CASE runState[r] = "completed" -> {Seen("completed", "read_result"),
                                       Seen("running", "read_result")}
      [] runState[r] = "failed"    -> {Seen("failed", "none"),
                                       Seen("failed", "retry_run"),
                                       Seen("running", "retry_run")}
      [] OTHER                     -> {Seen("running", "none")}

IdentityHolds(r) == formExists /\ r # NoRun /\ formRun = r

ReadStatus(r) ==
    {Technical, Contract} \cup (IF IdentityHolds(r) THEN StatusViews(r) ELSE {})

\* The server itself says that the run will not deliver.
DefiniteFailure(v) == v.status = "failed" \/ v.action = "retry_run"

-----------------------------------------------------------------------------
(* _cleanup_factor_combo_resources: the scope withholds a protected form's  *)
(* session, and clean_test_graph keeps the whole graph while the form's run *)
(* or the refresh of a generated sub-factor has no terminal status.         *)

HasActivePipelineRun == formRun # NoRun /\ ~formDone
HasActiveRefresh == refresh \notin {"none", "completed", "failed"}

TrustDatabaseOnly == ~HasActivePipelineRun /\ ~HasActiveRefresh

MayDelete == ~protected /\ ~HasActivePipelineRun /\ ~HasActiveRefresh

Cleanup(enabled) ==
    /\ formExists' = (formExists /\ ~(enabled /\ MayDelete))
    /\ UNCHANGED <<runState, runFeedback, published, formRun, formDone, net,
                   waitFor, reply, clientVars>>
=============================================================================
