---------------------------- MODULE RealRunContext ----------------------------
(***************************************************************************)
(* The session fixture factor_combo_real_run_context of tests/conftest.py: *)
(* it starts one real run, starts it again to see the idempotent replay,   *)
(* hands the run to the test cases, of which some poll it to its end, and  *)
(* cleans up in its finally block.  The same form is started twice through *)
(* start_real_run_request, so the second answer meets a form that the      *)
(* first one left protected.                                               *)
(***************************************************************************)
EXTENDS RunClient, FiniteSets

CONSTANT MaxTechnicalRetries,   \* settings.max_technical_retries
         PollBudget             \* poll_timeout_seconds, in status reads

\* The fixture sends two start requests.
ASSUME ContextAssumption ==
    /\ MaxTechnicalRetries \in Nat
    /\ PollBudget \in Nat
    /\ MaxStarts >= 2

VARIABLES pc,         \* where the fixture is
          run,        \* the run of the first response
          transport,  \* consecutive technical failures of the status read
          budget,     \* status reads left before the deadline
          verdict     \* how the fixture or its last poll ended

contextVars == <<pc, run, transport, budget, verdict>>
vars == <<backendVars, clientVars, contextVars>>

\* "failed" stands for any exception, a failed assertion included.
Verdicts == {"none", "completed", "failed"}

TypeOK ==
    /\ BackendTypeOK
    /\ ClientTypeOK
    /\ pc \in {"start", "first", "again", "second", "yield", "poll", "end", "closed"}
    /\ run \in 0..MaxRuns
    /\ transport \in 0..MaxTechnicalRetries
    /\ budget \in 0..PollBudget
    /\ verdict \in Verdicts

Init ==
    /\ BackendInit
    /\ ClientInit
    /\ pc = "start"
    /\ run = NoRun
    /\ transport = 0
    /\ budget = 0
    /\ verdict = "none"

Finish(v) ==
    /\ pc' = "end"
    /\ verdict' = v
    /\ UNCHANGED <<run, transport, budget>>

StartFirst ==
    /\ pc = "start"
    /\ SendStart(FALSE, NoRun, NoRun)
    /\ pc' = "first"
    /\ UNCHANGED <<run, transport, budget, verdict>>

\* Only 202 with idempotent_replay=false continues.
FirstCreated ==
    /\ pc = "first"
    /\ StartAnswered({"created"})
    /\ pc' = "again"
    /\ run' = reply.run
    /\ UNCHANGED <<transport, budget, verdict>>

FirstFailed ==
    /\ pc = "first"
    /\ StartUnanswered \/ StartAnswered(ReplyKinds \ {"created"})
    /\ Finish("failed")

StartAgainForced ==
    /\ pc = "again"
    /\ SendStart(TRUE, NoRun, run)
    /\ pc' = "second"
    /\ UNCHANGED <<run, transport, budget, verdict>>

StartAgain ==
    /\ pc = "again"
    /\ SendStart(FALSE, NoRun, run)
    /\ pc' = "second"
    /\ UNCHANGED <<run, transport, budget, verdict>>

\* require_started_run_replay: 200, idempotent_replay=true and the same run.
ReplayAccepted ==
    /\ pc = "second"
    /\ reply.run = run
    /\ StartAnswered({"replayed"})
    /\ pc' = "yield"
    /\ UNCHANGED <<run, transport, budget, verdict>>

ReplayFailed ==
    /\ pc = "second"
    /\ \/ StartUnanswered
       \/ StartAnswered(ReplyKinds \ {"replayed"})
       \/ reply.run # run /\ StartAnswered({"replayed"})
    /\ Finish("failed")

\* The test cases read the context; those that need the end of the run ask
\* factor_combo_completed_real_run_context, which polls it once.
UseContext ==
    /\ pc = "yield"
    /\ UNCHANGED <<backendVars, clientVars>>
    /\ \/ /\ pc' = "poll"
          /\ transport' = 0
          /\ budget' = PollBudget
          /\ UNCHANGED <<run, verdict>>
       \/ Finish("none")

PollOnce ==
    /\ pc = "poll"
    /\ budget > 0
    /\ UNCHANGED <<backendVars, clientVars>>
    /\ \E v \in ReadStatus(run) :
          \/ /\ v = Technical /\ transport < MaxTechnicalRetries
             /\ transport' = transport + 1
             /\ budget' \in 0..(budget - 1)
             /\ UNCHANGED <<pc, run, verdict>>
          \/ v = Technical /\ transport >= MaxTechnicalRetries /\ Finish("failed")
          \/ v = Contract /\ Finish("failed")
          \/ /\ v = Seen("running", "none")
             /\ transport' = 0
             /\ budget' \in 0..(budget - 1)
             /\ UNCHANGED <<pc, run, verdict>>
          \/ v.status = "completed" /\ Finish("completed")
          \/ v.status # "completed" /\ v.action = "read_result" /\ Finish("failed")
          \/ DefiniteFailure(v) /\ Finish("failed")

PollExpired ==
    /\ pc = "poll"
    /\ budget = 0
    /\ UNCHANGED <<backendVars, clientVars>>
    /\ Finish("failed")

CloseContext ==
    /\ pc = "end"
    /\ \E enabled \in BOOLEAN : Cleanup(enabled)
    /\ pc' = "closed"
    /\ UNCHANGED <<run, transport, budget, verdict>>

FixtureNext == \/ StartFirst \/ FirstCreated \/ FirstFailed \/ StartAgain
               \/ ReplayAccepted \/ ReplayFailed \/ UseContext \/ PollOnce
               \/ PollExpired \/ CloseContext

Terminated == pc = "closed" /\ UNCHANGED vars

Next == \/ FixtureNext
        \/ BackendNext /\ UNCHANGED <<clientVars, contextVars>>
        \/ Terminated

Spec == Init /\ [][Next]_vars

-----------------------------------------------------------------------------
(* Properties.                                                              *)

\* The form of a working run loses its protection in one way only: the repeated
\* start was refused (start_real_run_request releases the form on any 4xx but
\* 409), which fails the fixture.  A lost answer, a 5xx, a time-out of the poll or
\* a late start never releases it.
UnprotectedOnlyByReplay ==
    (Busy \/ net # {}) /\ ~protected => starts = 2 /\ verdict = "failed"

\* Starting the same form twice gives one run: the fixture implements
\* FormLifecycle with a single run.
Lifecycle == INSTANCE FormLifecycle WITH
    RunLimit <- 1,
    form <- IF ~formExists THEN "removed" ELSE IF Busy THEN "running" ELSE "idle",
    used <- Cardinality({r \in RunIds : runState[r] # "absent"})

ImplementsLifecycle == Lifecycle!Spec

\* What the README of the repository promises: a form whose real run has been
\* started stays protected by the scope while that run works.  It does not hold:
\* UnprotectedOnlyByReplay names the exception.
ProtectedWhileRunning == Busy => protected
=============================================================================
