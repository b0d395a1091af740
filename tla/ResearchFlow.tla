----------------------------- MODULE ResearchFlow -----------------------------
(***************************************************************************)
(* FactorComboService.run_real_research_flow: the client that starts a     *)
(* pipeline run for a form, polls it, reads its result, retries after a    *)
(* definite technical failure, sends feedback and goes on to the next      *)
(* research round, or registers the result; and the fixture that cleans up *)
(* after it.  It runs against PipelineBackend, one HTTP request or one     *)
(* database read at a time.                                                *)
(*                                                                         *)
(* Time: `budget' is the number of status reads that still fit before the  *)
(* deadline of poll_real_run.  A read takes any amount of time, so it uses *)
(* up any part of the budget.                                              *)
(***************************************************************************)
EXTENDS RunClient, FiniteSets

CONSTANTS MaxRounds,            \* settings.max_research_rounds
          MaxTechnicalRetries,  \* settings.max_technical_retries
          PollBudget            \* poll_timeout_seconds, in status reads

\* The limits run_real_research_flow requires, and a bound on the requests large
\* enough never to stop a client that keeps to them.
ASSUME FlowAssumption ==
    /\ MaxRounds \in Nat \ {0}
    /\ MaxTechnicalRetries \in Nat
    /\ PollBudget \in Nat

ASSUME BoundAssumption == MaxStarts >= MaxRounds * (MaxTechnicalRetries + 1)

VARIABLES pc,           \* where the flow is
          outcome,      \* final classification
          round,        \* research_round
          retries,      \* technical_retry_count of this round
          fresh,        \* force_fresh
          fb,           \* feedback_id, named by the run the feedback is about
          run,          \* the run being followed
          transport,    \* consecutive technical failures of the status read
          budget,       \* status reads left before the deadline
          attempt,      \* attempt_index of read_real_pipeline_result
          review,       \* what the result says
          lateRegister  \* a registration request nobody waits for any more

flowVars == <<pc, outcome, round, retries, fresh, fb, run, transport, budget,
              attempt, review, lateRegister>>
vars == <<backendVars, clientVars, flowVars>>

\* registrable: experiment_valid and registration_ready; valid: a validity
\* dimension is true; more: search.continue_exploration_available.
Reviews == [registrable: BOOLEAN, valid: BOOLEAN, more: BOOLEAN]
NoReview == [registrable |-> FALSE, valid |-> FALSE, more |-> FALSE]

Steps == {"discover", "start", "await", "recover", "poll", "read", "read404",
          "review", "end", "closed"}

\* Values of every variable of the flow and of what it runs against.
TypeOK ==
    /\ BackendTypeOK
    /\ ClientTypeOK
    /\ pc \in Steps
    /\ outcome \in Outcomes \cup {Undecided}
    /\ round \in 1..MaxRounds
    /\ retries \in 0..MaxTechnicalRetries
    /\ fresh \in BOOLEAN
    /\ fb \in 0..MaxRuns
    /\ run \in 0..MaxRuns
    /\ transport \in 0..MaxTechnicalRetries
    /\ budget \in 0..PollBudget
    /\ attempt \in 0..MaxTechnicalRetries
    /\ review \in Reviews
    /\ lateRegister \in BOOLEAN

Init ==
    /\ BackendInit
    /\ ClientInit
    /\ pc = "discover"
    /\ outcome = Undecided
    /\ round = 1
    /\ retries = 0
    /\ fresh = FALSE
    /\ fb = NoRun
    /\ run = NoRun
    /\ transport = 0
    /\ budget = 0
    /\ attempt = 0
    /\ review = NoReview
    /\ lateRegister = FALSE

-----------------------------------------------------------------------------
(* Steps shared by the actions below.                                       *)

\* Raise: the exception leaves the flow and the fixture's finally block runs.
Raise(o) ==
    /\ pc' = "end"
    /\ outcome' = o
    /\ UNCHANGED <<round, retries, fresh, fb, run, transport, budget, attempt,
                   review, lateRegister>>

GoTo(step) == pc' = step /\ UNCHANGED outcome

BackendIdle == UNCHANGED <<backendVars, clientVars>>

\* A definite failure of the run: a forced new run while the round has
\* technical retries left, FAIL_TECHNICAL otherwise.
RetryPipeline ==
    \/ /\ retries < MaxTechnicalRetries
       /\ retries' = retries + 1
       /\ fresh' = TRUE
       /\ GoTo("start")
       /\ UNCHANGED <<round, fb, run, transport, budget, attempt, review, lateRegister>>
    \/ /\ retries >= MaxTechnicalRetries
       /\ Raise("FAIL_TECHNICAL")

-----------------------------------------------------------------------------
(* discover_agent: no agent list, or not exactly one candidate.             *)

DiscoverAgent ==
    /\ pc = "discover"
    /\ BackendIdle
    /\ \/ GoTo("start")
          /\ UNCHANGED <<round, retries, fresh, fb, run, transport, budget,
                         attempt, review, lateRegister>>
       \/ \E o \in {"FAIL_CONTRACT", "FAIL_TECHNICAL"} : Raise(o)

-----------------------------------------------------------------------------
(* start_real_run                                                           *)

FeedbackNotSent ==
    /\ pc = "start"
    /\ SendStart(fresh, NoRun, run)
    /\ GoTo("await")
    /\ run' = NoRun
    /\ UNCHANGED <<round, retries, fresh, fb, transport, budget, attempt,
                   review, lateRegister>>

StartRealRun ==
    /\ pc = "start"
    /\ SendStart(fresh, fb, run)
    /\ GoTo("await")
    /\ run' = NoRun
    /\ UNCHANGED <<round, retries, fresh, fb, transport, budget, attempt,
                   review, lateRegister>>

Follow(r) ==
    /\ run' = r
    /\ transport' = 0
    /\ budget' = PollBudget
    /\ GoTo("poll")
    /\ UNCHANGED <<round, retries, fresh, fb, attempt, review, lateRegister>>

StartAccepted ==
    /\ pc = "await"
    /\ StartAnswered({"created", "replayed"})
    /\ Follow(reply.run)

\* The network error carries no retry_pipeline mark, so the flow ends.
StartLost ==
    /\ pc = "await"
    /\ StartUnanswered
    /\ Raise("FAIL_TECHNICAL")

StartRejected ==
    /\ pc = "await"
    /\ \/ StartAnswered({"throttled", "error"}) /\ Raise("FAIL_TECHNICAL")
       \/ StartAnswered({"refused", "malformed"}) /\ Raise("FAIL_CONTRACT")

\* A 409 keeps the response: recover_existing_run reads the database next.
StartConflict ==
    /\ pc = "await"
    /\ reply.kind = "conflict"
    /\ GoTo("recover")
    /\ run' = reply.run
    /\ waitFor' = 0
    /\ reply' = NoReply
    /\ UNCHANGED <<BackendRows, net, clientVars, round, retries, fresh, fb,
                   transport, budget, attempt, review, lateRegister>>

\* The run the response names, else the one the form row names; the two must
\* not differ.  A database error is not classified here.
RecoverExistingRun ==
    /\ pc = "recover"
    /\ BackendIdle
    /\ \/ /\ run # NoRun
          /\ formRun \in {NoRun, run}
          /\ Follow(run)
       \/ /\ run = NoRun
          /\ formRun # NoRun
          /\ Follow(formRun)
       \/ Raise("FAIL_CONTRACT")
       \/ Raise("UNCLASSIFIED")

-----------------------------------------------------------------------------
(* poll_real_run, and what the flow does with the status it returns.        *)

\* One status read that fits before the deadline and returns v.
PollReads(v) ==
    /\ pc = "poll"
    /\ budget > 0
    /\ v \in ReadStatus(run)
    /\ BackendIdle

TimeNotCounted == \E left \in 0..budget : budget' = left

TimePasses == \E left \in 0..(budget - 1) : budget' = left

PollTechnical ==
    /\ PollReads(Technical)
    /\ \/ /\ transport < MaxTechnicalRetries
          /\ transport' = transport + 1
          /\ TimePasses
          /\ GoTo("poll")
          /\ UNCHANGED <<round, retries, fresh, fb, run, attempt, review, lateRegister>>
       \/ /\ transport >= MaxTechnicalRetries
          /\ Raise("FAIL_TECHNICAL")

PollContract ==
    /\ PollReads(Contract)
    /\ Raise("FAIL_CONTRACT")

PollPending ==
    /\ PollReads(Seen("running", "none"))
    /\ transport' = 0
    /\ TimePasses
    /\ GoTo("poll")
    /\ UNCHANGED <<round, retries, fresh, fb, run, attempt, review, lateRegister>>

PollCompleted ==
    /\ PollReads(Seen("completed", "read_result"))
    /\ attempt' = 0
    /\ GoTo("read")
    /\ UNCHANGED <<round, retries, fresh, fb, run, transport, budget, review, lateRegister>>

PollFailed ==
    /\ \E v \in {Seen("failed", "none"), Seen("failed", "retry_run"),
                 Seen("running", "retry_run")} : DefiniteFailure(v) /\ PollReads(v)
    /\ RetryPipeline

\* recommended_action=read_result stops the poll, but the flow only reads the
\* result of a run whose status is "completed": anything else is a failure.
PollReadableNotCompleted ==
    /\ PollReads(Seen("running", "read_result"))
    /\ Raise("FAIL_TECHNICAL")

TimeoutTakenAsFailure ==
    /\ pc = "poll"
    /\ budget = 0
    /\ BackendIdle
    /\ RetryPipeline

\* The deadline passed: retry_pipeline=False, the run must be inspected first.
PollTimeout ==
    /\ pc = "poll"
    /\ budget = 0
    /\ BackendIdle
    /\ Raise("FAIL_TECHNICAL")

PollRealRun == \/ PollTechnical \/ PollContract \/ PollPending \/ PollCompleted
               \/ PollFailed \/ PollReadableNotCompleted \/ PollTimeout

-----------------------------------------------------------------------------
(* read_real_pipeline_result                                                *)

OneAttemptTooMany ==
    /\ attempt' = attempt + 1
    /\ GoTo("read")
    /\ UNCHANGED <<round, retries, fresh, fb, run, transport, budget, review, lateRegister>>

NextAttempt ==
    \/ /\ attempt < MaxTechnicalRetries
       /\ attempt' = attempt + 1
       /\ GoTo("read")
       /\ UNCHANGED <<round, retries, fresh, fb, run, transport, budget, review, lateRegister>>
    \/ /\ attempt >= MaxTechnicalRetries
       /\ Raise("FAIL_TECHNICAL")

\* A network error, a 408, a 429 or a 5xx.
ResultUnavailable ==
    /\ pc = "read"
    /\ BackendIdle
    /\ NextAttempt

\* 404: the status of the same run is asked before anything is decided.
ResultMissing ==
    /\ pc = "read"
    /\ run \notin published
    /\ BackendIdle
    /\ GoTo("read404")
    /\ UNCHANGED <<round, retries, fresh, fb, run, transport, budget, attempt,
                   review, lateRegister>>

MissingTakenAsFailure ==
    /\ pc = "read404"
    /\ BackendIdle
    /\ RetryPipeline

StatusAfterMissing ==
    /\ pc = "read404"
    /\ BackendIdle
    /\ \E v \in ReadStatus(run) :
          \/ v.kind = "contract" /\ Raise("FAIL_CONTRACT")
          \/ v.kind # "contract" /\ DefiniteFailure(v) /\ RetryPipeline
          \/ v.kind # "contract" /\ ~DefiniteFailure(v) /\ NextAttempt

\* Another HTTP status, a body that breaks the contract, a form row that
\* points elsewhere; or a database that cannot be asked.
ResultRejected ==
    /\ pc = "read"
    /\ BackendIdle
    /\ \E o \in {"FAIL_CONTRACT", "FAIL_TECHNICAL"} : Raise(o)

\* The parsed result releases the form.
ResultRead ==
    /\ pc = "read"
    /\ run \in published
    /\ IdentityHolds(run)
    /\ protected' = FALSE
    /\ \E rv \in Reviews : review' = rv
    /\ GoTo("review")
    /\ UNCHANGED <<backendVars, starts, refresh, round, retries, fresh, fb, run,
                   transport, budget, attempt, lateRegister>>

ReadRealPipelineResult == \/ ResultUnavailable \/ ResultMissing \/ StatusAfterMissing
                          \/ ResultRejected \/ ResultRead

-----------------------------------------------------------------------------
(* The decision on a result.                                                *)

ReviewRejected ==
    /\ pc = "review"
    /\ review.registrable
    /\ ~review.valid
    /\ BackendIdle
    /\ Raise("FAIL_CONTRACT")

\* register_real_result_and_refresh, by the result it may end with.  A
\* registered result releases the form once more.
RegisterResult ==
    /\ pc = "review"
    /\ review.registrable
    /\ review.valid
    /\ \E res \in RegisterResults :
          /\ pc' = "end"
          /\ outcome' = res.outcome
          /\ refresh' = res.refresh
          /\ lateRegister' = res.late
          /\ protected' = (protected /\ res.outcome \in Failures)
    /\ UNCHANGED <<backendVars, starts, round, retries, fresh, fb, run,
                   transport, budget, attempt, review>>

Continue == ~review.registrable /\ review.more /\ round < MaxRounds

\* submit_real_feedback succeeds and the next round starts with its id.
NextRound ==
    /\ pc = "review"
    /\ Continue
    /\ BackendIdle
    /\ round' = round + 1
    /\ retries' = 0
    /\ fresh' = FALSE
    /\ fb' = run
    /\ GoTo("start")
    /\ UNCHANGED <<run, transport, budget, attempt, review, lateRegister>>

\* A network error is technical, a bad body breaks the contract, and a refused
\* request leaves require_feedback_response as a plain RuntimeError.
FeedbackFailed ==
    /\ pc = "review"
    /\ Continue
    /\ BackendIdle
    /\ \E o \in {"FAIL_TECHNICAL", "FAIL_CONTRACT", "UNCLASSIFIED"} : Raise(o)

FinishInvalid ==
    /\ pc = "review"
    /\ ~review.registrable
    /\ ~Continue
    /\ protected' = FALSE
    /\ Raise("PASS_INVALID")
    /\ UNCHANGED <<backendVars, starts, refresh>>

-----------------------------------------------------------------------------
(* The fixture's finally block, and what happens in the backend meanwhile.  *)

CloseFixture ==
    /\ pc = "end"
    /\ \E enabled \in BOOLEAN : Cleanup(enabled)
    /\ GoTo("closed")
    /\ UNCHANGED <<round, retries, fresh, fb, run, transport, budget, attempt,
                   review, lateRegister>>

ClientNext == \/ DiscoverAgent \/ StartRealRun \/ StartAccepted \/ StartLost
              \/ StartRejected \/ StartConflict \/ RecoverExistingRun
              \/ PollRealRun \/ ReadRealPipelineResult
              \/ ReviewRejected \/ RegisterResult \/ NextRound \/ FeedbackFailed
              \/ FinishInvalid \/ CloseFixture

\* The refresh of a registered sub-factor ends some time.
RefreshEnds ==
    /\ refresh = "active"
    /\ refresh' \in {"completed", "failed"}
    /\ UNCHANGED <<backendVars, protected, starts, flowVars>>

\* A registration nobody waits for is processed, if its form is still there.
LateRegistration ==
    /\ lateRegister
    /\ lateRegister' = FALSE
    /\ refresh' \in {refresh} \cup (IF formExists THEN {"active"} ELSE {})
    /\ UNCHANGED <<backendVars, protected, starts, pc, outcome, round, retries,
                   fresh, fb, run, transport, budget, attempt, review>>

EnvironmentNext == \/ BackendNext /\ UNCHANGED <<clientVars, flowVars>>
                   \/ RefreshEnds
                   \/ LateRegistration

\* Nothing is left to do once the fixture is closed and the backend is idle.
Terminated == pc = "closed" /\ UNCHANGED vars

Next == ClientNext \/ EnvironmentNext \/ Terminated

Spec == Init /\ [][Next]_vars

\* The flow is one thread and every request it makes has a timeout, so it
\* never stops taking steps.  Nothing is assumed of the backend.
FairSpec == Spec /\ WF_vars(ClientNext)

-----------------------------------------------------------------------------
(* Properties.                                                              *)

\* The form never has two active runs: run_real_research_flow only starts one
\* when no earlier one can still be working.
SingleActiveRun == \A r, s \in RunIds : Active(r) /\ Active(s) => r = s

\* A request that forces a new run is only ever on its way when the run the
\* flow followed before has failed for good: neither a timeout, a network
\* error nor a missing result sets force_fresh_pipeline_run.
FreshOnlyAfterFailure ==
    \A q \in net : q.fresh => q.prev \in RunIds /\ runState[q.prev] = "failed"

\* From before a start request leaves until every run it can have created has
\* ended, TestResourceScope protects the form from the fixture's cleanup.
ProtectedWhileInUse == Busy \/ net # {} => protected

\* The cleanup removes the form only when no run, start request or refresh of
\* it is alive: scope protection and the database checks together suffice.
DeletedOnlyWhenIdle == ~formExists => ~Busy /\ net = {} /\ refresh # "active"

\* A run that a start answer makes the flow follow works on this round's
\* feedback; only the recovery from a 409 can lead to a run of an earlier round.
FollowsThisRound ==
    [][pc = "await" /\ pc' = "poll" => run' \in RunIds /\ runFeedback[run'] = fb]_vars

\* A passing outcome is only given when everything it rests on is final: the
\* run delivered its result, and a registration's refresh has completed.
PassIsFinal ==
    /\ outcome \in {"PASS_REGISTERED", "PASS_INVALID"} =>
          /\ run \in published
          /\ ~Busy
          /\ net = {}
    /\ outcome = "PASS_REGISTERED" => refresh = "completed"

\* The flow ends and its fixture is closed, whatever the backend does.
Terminates == <>(pc = "closed")

\* The flow and its backend implement FormLifecycle: seen from the form, runs
\* follow one another within the limits, and the fixture removes an idle form.
RunsUsed == Cardinality({r \in RunIds : runState[r] # "absent"})

Lifecycle == INSTANCE FormLifecycle WITH
    RunLimit <- MaxRounds * (MaxTechnicalRetries + 1),
    form <- IF ~formExists THEN "removed" ELSE IF Busy THEN "running" ELSE "idle",
    used <- RunsUsed

ImplementsLifecycle == Lifecycle!Spec

\* What the README promises of the cleanup: it only removes data that reached
\* a safe final state, so no registration of the form is still on its way.  It
\* does not hold: a registration whose answer is lost protects nothing.
DeletedOnlyWhenRegistrationSettled == ~formExists => ~lateRegister
=============================================================================
