------------------------- MODULE ResearchFlowProofs -------------------------
(***************************************************************************)
(* Safety of the research flow for every number of rounds, retries, runs   *)
(* and status reads, and its refinement of FormLifecycle.                  *)
(***************************************************************************)
EXTENDS ResearchFlow, FiniteSetTheorems, TLAPS

-----------------------------------------------------------------------------
(* The inductive invariant.  Everything follows from one idea: while a     *)
(* start request is on its way no run of the form works, and the only run  *)
(* that can work is the one the form row points at.                        *)

\* The network: one request at a time, never next to a working run, and only
\* while the flow waits for it or has given up and ended.
NetInv ==
    /\ \A p, q \in net : p = q
    /\ net # {} => ~Busy
    /\ net # {} => pc \in {"await", "end", "closed"}
    /\ waitFor # 0 => pc = "await"
    /\ reply # NoReply => net = {} /\ waitFor # 0
    /\ reply.kind \in NotAccepted => ~Busy

\* The runs: a working run is the form's current one, a published one stays
\* completed, and the flow is at a point of choice only between runs.
RunInv ==
    /\ \A r \in RunIds : Active(r) => r = formRun
    /\ \A r \in published : runState[r] = "completed"
    /\ pc \in {"discover", "start", "review"} => ~Busy
    /\ pc = "review" => run \in published

\* A forced start is only prepared and sent after its run has failed.
FreshInv ==
    /\ pc = "discover" => ~fresh
    /\ pc = "start" /\ fresh => run \in RunIds /\ runState[run] = "failed"
    /\ FreshOnlyAfterFailure

\* The fixture: protection outlives use, and removal needs an idle form.
ScopeInv ==
    /\ ProtectedWhileInUse
    /\ DeletedOnlyWhenIdle
    /\ ~formExists => pc = "closed"

\* A decided flow has ended, and a pass rests on settled facts.
OutcomeInv ==
    /\ outcome # Undecided => pc \in {"end", "closed"}
    /\ PassIsFinal
    /\ outcome = "PASS_REGISTERED" => ~lateRegister

FlowInv == TypeOK /\ NetInv /\ RunInv /\ FreshInv /\ ScopeInv /\ OutcomeInv

-----------------------------------------------------------------------------
(* The initial states.                                                      *)

\* Before the flow looks for an agent nothing runs and nothing is on its way.
LEMMA FlowInvInit == Init => FlowInv
<1> SUFFICES ASSUME Init PROVE FlowInv
  OBVIOUS
<1> USE BackendAssumption, FlowAssumption
    DEF BackendAssumption, FlowAssumption, Init, BackendInit, ClientInit, NoRun, NoReply, NoReview, Undecided
<1>1. TypeOK
  <2>1. /\ runState \in [RunIds -> RunStates]
        /\ runFeedback \in [RunIds -> 0..MaxRuns]
        /\ published \in SUBSET RunIds
        /\ net \in SUBSET Requests
        /\ formRun \in 0..MaxRuns
        /\ waitFor \in 0..MaxStarts
        /\ starts \in 0..MaxStarts
    BY DEF RunStates
  <2>2. formExists \in BOOLEAN /\ formDone \in BOOLEAN /\ protected \in BOOLEAN
    BY Zenon
  <2>3. reply \in Replies
    BY DEF Replies
  <2>4. refresh \in RefreshStates /\ pc \in Steps /\ outcome \in Outcomes \cup {Undecided}
    BY DEF RefreshStates, Steps
  <2>5. /\ round \in 1..MaxRounds
        /\ retries \in 0..MaxTechnicalRetries
        /\ fb \in 0..MaxRuns
        /\ run \in 0..MaxRuns
        /\ transport \in 0..MaxTechnicalRetries
        /\ budget \in 0..PollBudget
        /\ attempt \in 0..MaxTechnicalRetries
    OBVIOUS
  <2>6. fresh \in BOOLEAN /\ lateRegister \in BOOLEAN
    BY Zenon
  <2>7. review \in Reviews
    BY Zenon DEF Reviews
  <2> QED
    BY <2>1, <2>2, <2>3, <2>4, <2>5, <2>6, <2>7
    DEF TypeOK, BackendTypeOK, ClientTypeOK
<1>2. NetInv /\ RunInv
  BY DEF NetInv, RunInv, Busy, Active, NotAccepted
<1>3. FreshInv /\ ScopeInv
  BY DEF FreshInv, FreshOnlyAfterFailure, ScopeInv, ProtectedWhileInUse,
         DeletedOnlyWhenIdle, Busy, Active
<1>4. OutcomeInv
  BY DEF OutcomeInv, PassIsFinal
<1> QED
  BY <1>1, <1>2, <1>3, <1>4 DEF FlowInv

-----------------------------------------------------------------------------
(* Steps of the flow that leave the backend alone.                          *)

\* An exception leaves the flow: whatever may still work stays protected.
LEMMA RaiseStep ==
  ASSUME FlowInv, BackendIdle, NEW o \in Failures, Raise(o), pc \notin {"await", "closed"}
  PROVE  FlowInv'
<1> USE DEF FlowInv, BackendIdle, Raise, backendVars, clientVars
<1>1. TypeOK'
  BY DEF TypeOK, BackendTypeOK, ClientTypeOK, Outcomes, Steps, BackendRows
<1>2. NetInv'
  BY DEF NetInv, Busy, Active
<1>3. RunInv' /\ FreshInv'
  BY DEF RunInv, FreshInv, FreshOnlyAfterFailure, Busy, Active
<1>4. ScopeInv'
  BY DEF ScopeInv, ProtectedWhileInUse, DeletedOnlyWhenIdle, Busy, Active
<1>5. OutcomeInv'
  BY DEF OutcomeInv, PassIsFinal, Failures, Busy, Active
<1> QED
  BY <1>1, <1>2, <1>3, <1>4, <1>5

\* A definite failure was seen: the next start may be forced, because the run
\* the form points at has failed and nothing else works for the form.
LEMMA RetryStep ==
  ASSUME FlowInv, BackendIdle, RetryPipeline, pc \in {"poll", "read404"},
         formExists, run \in RunIds, formRun = run, runState[run] = "failed"
  PROVE  FlowInv'
<1>1. CASE Raise("FAIL_TECHNICAL")
  BY <1>1, RaiseStep DEF Failures
<1>2. CASE ~Raise("FAIL_TECHNICAL")
  <2> USE <1>2 DEF FlowInv, BackendIdle, RetryPipeline, GoTo, backendVars, clientVars
  <2>0. ~Busy /\ net = {}
    BY DEF Busy, RunInv, NetInv, Active
  <2>1. retries' \in 0..MaxTechnicalRetries /\ pc' = "start"
    BY FlowAssumption DEF TypeOK, FlowAssumption
  <2>2. fresh' \in BOOLEAN
    BY Zenon
  <2>3. TypeOK'
    BY <2>1, <2>2 DEF TypeOK, BackendTypeOK, ClientTypeOK, Steps
  <2>4. NetInv' /\ RunInv'
    BY <2>0 DEF NetInv, RunInv, Busy, Active
  <2>5. FreshInv'
    BY <2>0 DEF FreshInv, FreshOnlyAfterFailure
  <2>6. ScopeInv'
    BY <2>0 DEF ScopeInv, ProtectedWhileInUse, DeletedOnlyWhenIdle, Busy, Active
  <2>7. OutcomeInv'
    BY DEF OutcomeInv, PassIsFinal, Busy, Active
  <2> QED
    BY <2>3, <2>4, <2>5, <2>6, <2>7
<1> QED
  BY <1>1, <1>2

\* Following a run, waiting for its result: nothing the invariant speaks of
\* changes.
LEMMA FollowStep ==
  ASSUME FlowInv, BackendIdle, TypeOK', pc \in {"poll", "read", "read404", "recover"},
         pc' \in {"poll", "read", "read404"},
         UNCHANGED <<outcome, lateRegister>>
  PROVE  FlowInv'
<1> USE DEF FlowInv, BackendIdle, backendVars, clientVars
<1>1. NetInv' /\ RunInv'
  BY DEF NetInv, RunInv, Busy, Active
<1>2. FreshInv' /\ ScopeInv'
  BY DEF FreshInv, FreshOnlyAfterFailure, ScopeInv, ProtectedWhileInUse,
         DeletedOnlyWhenIdle, NetInv, Busy, Active
<1>3. OutcomeInv'
  BY DEF OutcomeInv, PassIsFinal, Undecided
<1> QED
  BY <1>1, <1>2, <1>3

-----------------------------------------------------------------------------
(* Steps of the backend.                                                    *)

\* Whatever the answer, one request leaves the network and the client's
\* connection gets a well-formed reply or none.
LEMMA AnswerType ==
  ASSUME BackendTypeOK, NEW q \in net, NEW kind \in ReplyKinds, NEW r \in 0..MaxRuns,
         Answer(q, kind, r)
  PROVE  net' \in SUBSET Requests /\ waitFor' \in 0..MaxStarts /\ reply' \in Replies
BY DEF BackendTypeOK, Answer, Replies

\* The backend takes a start request and answers it without creating a run.
LEMMA AnsweredStep ==
  ASSUME FlowInv, NEW q \in net, NEW kind \in ReplyKinds, NEW r \in 0..MaxRuns,
         Answer(q, kind, r), UNCHANGED <<BackendRows, clientVars, flowVars>>
  PROVE  FlowInv'
<1> USE DEF FlowInv, BackendRows, clientVars, flowVars
<1>1. TypeOK'
  BY AnswerType DEF TypeOK, BackendTypeOK, ClientTypeOK
<1>2. net' = {}
  BY DEF Answer, NetInv
<1>3. NetInv'
  <2>1. q.id # 0
    BY BackendAssumption DEF BackendAssumption, TypeOK, BackendTypeOK, Requests
  <2>2. ~Busy /\ reply = NoReply /\ Busy' = Busy
    BY DEF NetInv, Busy, Active
  <2> QED
    BY <1>2, <2>1, <2>2 DEF NetInv, Answer
<1>4. RunInv' /\ FreshInv'
  BY <1>2 DEF RunInv, FreshInv, FreshOnlyAfterFailure, Busy, Active
<1>5. ScopeInv'
  BY <1>2 DEF ScopeInv, ProtectedWhileInUse, DeletedOnlyWhenIdle, Busy, Active
<1>6. OutcomeInv'
  BY <1>2 DEF OutcomeInv, PassIsFinal, Busy, Active
<1> QED
  BY <1>1, <1>3, <1>4, <1>5, <1>6

\* The backend accepts a start request: the new run is the only one at work,
\* and it is the one the form now points at.
LEMMA AcceptStep ==
  ASSUME FlowInv, NEW q \in net, AcceptStart(q), UNCHANGED <<clientVars, flowVars>>
  PROVE  FlowInv'
<1> USE DEF FlowInv, clientVars, flowVars
<1>1. PICK r \in RunIds :
        /\ NextRun(r)
        /\ runState' = [runState EXCEPT ![r] = "active"]
        /\ runFeedback' = [runFeedback EXCEPT ![r] = q.fb]
        /\ formRun' = r
        /\ formDone' = FALSE
        /\ \E kind \in {"created", "error", "malformed"} : Answer(q, kind, r)
  BY DEF AcceptStart
<1>2. PICK kind \in {"created", "error", "malformed"} : Answer(q, kind, r)
  BY <1>1
<1>3. /\ net' = {}
      /\ ~Busy
      /\ formExists
      /\ formExists' = formExists
      /\ published' = published
  BY <1>2 DEF Answer, NetInv, AcceptStart
<1>4. TypeOK'
  <2>1. net' \in SUBSET Requests /\ waitFor' \in 0..MaxStarts /\ reply' \in Replies
    BY <1>2, AnswerType, BackendAssumption DEF BackendAssumption, TypeOK, ReplyKinds, RunIds
  <2>2. q.fb \in 0..MaxRuns
    BY DEF TypeOK, BackendTypeOK, Requests
  <2>3. runState' \in [RunIds -> RunStates] /\ runFeedback' \in [RunIds -> 0..MaxRuns]
    BY <1>1, <2>2 DEF TypeOK, BackendTypeOK, RunStates
  <2>4. formRun' \in 0..MaxRuns
    BY <1>1, BackendAssumption DEF BackendAssumption, RunIds
  <2>5. formDone' \in BOOLEAN
    BY <1>1, Zenon
  <2> QED
    BY <1>3, <2>1, <2>3, <2>4, <2>5 DEF TypeOK, BackendTypeOK, ClientTypeOK
<1>5. \A s \in RunIds : Active(s)' => s = r
  BY <1>1, <1>3 DEF Active, Busy, TypeOK, BackendTypeOK
<1>6. NetInv'
  <2>1. q.id # 0
    BY BackendAssumption DEF BackendAssumption, TypeOK, BackendTypeOK, Requests
  <2>2. reply = NoReply /\ reply'.kind \notin NotAccepted
    BY <1>2 DEF NetInv, Answer, NotAccepted, NoReply
  <2> QED
    BY <1>2, <1>3, <2>1, <2>2 DEF NetInv, Answer
<1>7. RunInv'
  <2>1. \A s \in published : s # r
    BY <1>1 DEF RunInv, NextRun
  <2>2. pc \notin {"discover", "start", "review"}
    BY DEF NetInv
  <2> QED
    BY <1>1, <1>3, <1>5, <2>1, <2>2 DEF RunInv, TypeOK, BackendTypeOK
<1>8. FreshInv'
  BY <1>3 DEF FreshInv, FreshOnlyAfterFailure, NetInv
<1>9. ScopeInv'
  BY <1>3 DEF ScopeInv, ProtectedWhileInUse, DeletedOnlyWhenIdle
<1>10. OutcomeInv'
  BY DEF OutcomeInv, PassIsFinal
<1> QED
  BY <1>4, <1>6, <1>7, <1>8, <1>9, <1>10

\* A run moves on; no run is created or published without being completed.
LEMMA ProgressStep ==
  ASSUME FlowInv, NEW r \in RunIds, CompleteRun(r) \/ FailRun(r) \/ PublishResult(r),
         UNCHANGED <<clientVars, flowVars>>
  PROVE  FlowInv'
<1> USE DEF FlowInv, clientVars, flowVars, CompleteRun, FailRun, PublishResult
<1>1. TypeOK'
  BY DEF TypeOK, BackendTypeOK, ClientTypeOK, RunStates
<1>2. \A s \in RunIds : Active(s)' => Active(s)
  BY DEF Active, TypeOK, BackendTypeOK
<1>3. \A s \in RunIds : runState[s] = "failed" => runState'[s] = "failed"
  BY DEF Active, TypeOK, BackendTypeOK
<1>4. NetInv'
  BY <1>2 DEF NetInv, Busy
<1>5. RunInv'
  BY <1>2 DEF RunInv, Busy, TypeOK, BackendTypeOK, Active
<1>6. FreshInv'
  BY <1>3 DEF FreshInv, FreshOnlyAfterFailure
<1>7. ScopeInv'
  BY <1>2 DEF ScopeInv, ProtectedWhileInUse, DeletedOnlyWhenIdle, Busy
<1>8. OutcomeInv'
  BY <1>2 DEF OutcomeInv, PassIsFinal, Busy
<1> QED
  BY <1>1, <1>4, <1>5, <1>6, <1>7, <1>8

-----------------------------------------------------------------------------
(* Steps of the client on the network.                                      *)

\* The start request leaves a protected form of which no run works.
LEMMA SendStep ==
  ASSUME FlowInv, StartRealRun
  PROVE  FlowInv'
<1> USE DEF FlowInv, StartRealRun, SendStart, GoTo, BackendRows
<1> DEFINE q0 == [id |-> starts + 1, fresh |-> fresh, fb |-> fb, prev |-> run]
<1>1. ~Busy /\ net = {} /\ net' = {q0} /\ Busy' = Busy
  BY DEF RunInv, NetInv, Busy, Active
<1>2. TypeOK'
  <2>1. starts + 1 \in 1..MaxStarts
    BY BackendAssumption DEF BackendAssumption, TypeOK, ClientTypeOK
  <2>2. q0 \in Requests
    BY <2>1 DEF Requests, TypeOK
  <2>3. protected' \in BOOLEAN
    BY Zenon
  <2>4. run' \in 0..MaxRuns /\ waitFor' \in 0..MaxStarts /\ starts' \in 0..MaxStarts
    BY <2>1, BackendAssumption DEF BackendAssumption, NoRun
  <2>5. reply' \in Replies
    BY DEF Replies
  <2> QED
    BY <1>1, <2>2, <2>3, <2>4, <2>5 DEF TypeOK, BackendTypeOK, ClientTypeOK, Steps
<1>3. NetInv'
  <2>1. reply'.kind \notin NotAccepted
    BY DEF NoReply, NotAccepted
  <2> QED
    BY <1>1, <2>1 DEF NetInv
<1>4. RunInv'
  BY DEF RunInv, Active
<1>5. FreshInv'
  BY <1>1 DEF FreshInv, FreshOnlyAfterFailure
<1>6. ScopeInv'
  BY <1>1 DEF ScopeInv, ProtectedWhileInUse, DeletedOnlyWhenIdle
<1>7. OutcomeInv'
  BY DEF OutcomeInv, PassIsFinal, Undecided
<1> QED
  BY <1>2, <1>3, <1>4, <1>5, <1>6, <1>7

\* The flow stops waiting with a failure.  It keeps the form protected unless
\* the answer was one after which no run can exist.
LEMMA AwaitFailedStep ==
  ASSUME FlowInv, pc = "await", NEW o \in Failures, Raise(o),
         UNCHANGED <<BackendRows, net, starts, refresh>>,
         waitFor' = 0, reply' = NoReply,
         protected' \in BOOLEAN,
         protected' = protected \/ reply.kind \in NotAccepted
  PROVE  FlowInv'
<1> USE DEF FlowInv, Raise, BackendRows
<1>1. TypeOK'
  <2>1. waitFor' \in 0..MaxStarts
    BY BackendAssumption DEF BackendAssumption
  <2>2. reply' \in Replies
    BY DEF Replies
  <2> QED
    BY <2>1, <2>2 DEF TypeOK, BackendTypeOK, ClientTypeOK, Steps, Outcomes
<1>2. Busy' = Busy
  BY DEF Busy, Active
<1>3. NetInv'
  <2>1. reply'.kind \notin NotAccepted
    BY DEF NoReply, NotAccepted
  <2> QED
    BY <1>2, <2>1 DEF NetInv
<1>4. RunInv' /\ FreshInv'
  BY DEF RunInv, FreshInv, FreshOnlyAfterFailure, Active
<1>5. ScopeInv'
  <2>1. reply.kind \in NotAccepted => ~Busy /\ net = {}
    BY DEF NetInv, NoReply, NotAccepted
  <2> QED
    BY <1>2, <2>1 DEF ScopeInv, ProtectedWhileInUse, DeletedOnlyWhenIdle
<1>6. OutcomeInv'
  BY <1>2 DEF OutcomeInv, PassIsFinal, Failures
<1> QED
  BY <1>1, <1>3, <1>4, <1>5, <1>6

\* The flow takes an answer that leads it to a run.
LEMMA AwaitFollowStep ==
  ASSUME FlowInv, pc = "await", pc' \in {"poll", "recover"}, TypeOK',
         waitFor # 0, reply # NoReply,
         UNCHANGED <<BackendRows, net, clientVars, outcome, lateRegister>>,
         waitFor' = 0, reply' = NoReply
  PROVE  FlowInv'
<1> USE DEF FlowInv, BackendRows, clientVars
<1>1. Busy' = Busy /\ net = {}
  BY DEF Busy, Active, NetInv
<1>2. NetInv'
  <2>1. reply'.kind \notin NotAccepted
    BY DEF NoReply, NotAccepted
  <2> QED
    BY <1>1, <2>1 DEF NetInv
<1>3. RunInv' /\ FreshInv'
  BY <1>1 DEF RunInv, FreshInv, FreshOnlyAfterFailure, Active
<1>4. ScopeInv'
  BY <1>1 DEF ScopeInv, ProtectedWhileInUse, DeletedOnlyWhenIdle
<1>5. OutcomeInv'
  BY DEF OutcomeInv, PassIsFinal, Undecided
<1> QED
  BY <1>2, <1>3, <1>4, <1>5

-----------------------------------------------------------------------------
(* One lemma per group of actions of the client.                            *)

\* Answers to a start request.
LEMMA StartActionsStep ==
  ASSUME FlowInv,
         StartAccepted \/ StartLost \/ StartRejected \/ StartConflict
  PROVE  FlowInv'
<1>1. CASE StartAccepted
  <2> USE <1>1 DEF StartAccepted, StartAnswered, Follow, GoTo
  <2>1. reply # NoReply /\ protected' = protected
    BY DEF NoReply, NotAccepted, FlowInv, TypeOK, ClientTypeOK
  <2>2. reply.run \in 0..MaxRuns
    BY <2>1 DEF FlowInv, TypeOK, BackendTypeOK, Replies
  <2>3. TypeOK'
    <3>1. waitFor' \in 0..MaxStarts /\ transport' \in 0..MaxTechnicalRetries
            /\ budget' \in 0..PollBudget
      BY BackendAssumption, FlowAssumption DEF BackendAssumption, FlowAssumption
    <3>2. reply' \in Replies
      BY DEF Replies
    <3> QED
      BY <2>1, <2>2, <3>1, <3>2
      DEF FlowInv, TypeOK, BackendTypeOK, ClientTypeOK, Steps, BackendRows
  <2> QED
    BY <2>1, <2>3, AwaitFollowStep DEF clientVars
<1>2. CASE StartLost
  BY <1>2, AwaitFailedStep
  DEF StartLost, StartUnanswered, Failures, clientVars, FlowInv, TypeOK, ClientTypeOK
<1>3. CASE StartRejected
  <2>1. PICK o \in Failures : Raise(o) /\ \E kinds \in SUBSET ReplyKinds : StartAnswered(kinds)
    BY <1>3 DEF StartRejected, Failures, ReplyKinds
  <2>2. protected' \in BOOLEAN /\ (protected' = protected \/ reply.kind \in NotAccepted)
    BY <2>1, Zenon DEF StartAnswered, FlowInv, TypeOK, ClientTypeOK
  <2> QED
    BY <1>3, <2>1, <2>2, AwaitFailedStep DEF StartRejected, StartAnswered
<1>4. CASE StartConflict
  <2> USE <1>4 DEF StartConflict, GoTo
  <2>1. reply # NoReply /\ waitFor # 0
    BY DEF NoReply, FlowInv, NetInv
  <2>2. reply.run \in 0..MaxRuns
    BY <2>1 DEF FlowInv, TypeOK, BackendTypeOK, Replies
  <2>3. TypeOK'
    <3>1. waitFor' \in 0..MaxStarts
      BY BackendAssumption DEF BackendAssumption
    <3>2. reply' \in Replies
      BY DEF Replies
    <3> QED
      BY <2>2, <3>1, <3>2
      DEF FlowInv, TypeOK, BackendTypeOK, ClientTypeOK, Steps, BackendRows, clientVars
  <2> QED
    BY <2>1, <2>3, AwaitFollowStep
<1> QED
  BY <1>1, <1>2, <1>3, <1>4

\* What a status read may conclude: a definite failure is only ever reported
\* of the run the form points at, and only when it has failed.
LEMMA ReadStatusSound ==
  ASSUME FlowInv, NEW v \in ReadStatus(run), DefiniteFailure(v)
  PROVE  formExists /\ run \in RunIds /\ formRun = run /\ runState[run] = "failed"
<1>1. v \notin {Technical, Contract}
  BY DEF DefiniteFailure, Technical, Contract
<1>2. IdentityHolds(run) /\ v \in StatusViews(run)
  BY <1>1 DEF ReadStatus
<1>3. run \in RunIds
  BY <1>2, BackendAssumption
  DEF BackendAssumption, IdentityHolds, FlowInv, TypeOK, RunIds, NoRun
<1>4. runState[run] = "failed"
  BY <1>2 DEF StatusViews, DefiniteFailure, Seen
<1> QED
  BY <1>2, <1>3, <1>4 DEF IdentityHolds

\* Reading the status: poll_real_run and the flow's reaction to it.
LEMMA PollStep ==
  ASSUME FlowInv, PollRealRun
  PROVE  FlowInv'
<1> USE DEF PollReads
<1>1. CASE PollTechnical
  <2>1. CASE Raise("FAIL_TECHNICAL")
    BY <1>1, <2>1, RaiseStep DEF PollTechnical, Failures
  <2>2. CASE ~Raise("FAIL_TECHNICAL")
    <3>1. TypeOK'
      <4>1. transport' \in 0..MaxTechnicalRetries /\ budget' \in 0..PollBudget
        BY <1>1, <2>2, FlowAssumption
        DEF PollTechnical, TimePasses, FlowInv, TypeOK, FlowAssumption
      <4> QED
        BY <1>1, <2>2, <4>1
        DEF PollTechnical, GoTo, BackendIdle, backendVars, clientVars,
            FlowInv, TypeOK, BackendTypeOK, ClientTypeOK
    <3> QED
      BY <1>1, <2>2, <3>1, FollowStep DEF PollTechnical, GoTo
  <2> QED
    BY <2>1, <2>2
<1>2. CASE PollContract
  BY <1>2, RaiseStep DEF PollContract, Failures
<1>3. CASE PollPending
  <2>1. TypeOK'
    <3>1. transport' \in 0..MaxTechnicalRetries /\ budget' \in 0..PollBudget
      BY <1>3, FlowAssumption
      DEF PollPending, TimePasses, FlowInv, TypeOK, FlowAssumption
    <3> QED
      BY <1>3, <3>1
      DEF PollPending, GoTo, BackendIdle, backendVars, clientVars,
          FlowInv, TypeOK, BackendTypeOK, ClientTypeOK
  <2> QED
    BY <1>3, <2>1, FollowStep DEF PollPending, GoTo
<1>4. CASE PollCompleted
  <2>1. TypeOK'
    <3>1. attempt' \in 0..MaxTechnicalRetries
      BY <1>4, FlowAssumption DEF PollCompleted, FlowAssumption
    <3> QED
      BY <1>4, <3>1
      DEF PollCompleted, GoTo, BackendIdle, backendVars, clientVars, Steps,
          FlowInv, TypeOK, BackendTypeOK, ClientTypeOK
  <2> QED
    BY <1>4, <2>1, FollowStep DEF PollCompleted, GoTo
<1>5. CASE PollFailed
  <2>1. PICK v \in ReadStatus(run) : DefiniteFailure(v)
    BY <1>5 DEF PollFailed
  <2> QED
    BY <1>5, <2>1, ReadStatusSound, RetryStep DEF PollFailed
<1>6. CASE PollReadableNotCompleted \/ PollTimeout
  BY <1>6, RaiseStep DEF PollReadableNotCompleted, PollTimeout, Failures
<1> QED
  BY <1>1, <1>2, <1>3, <1>4, <1>5, <1>6 DEF PollRealRun

\* After a 409: the flow follows a run the form row does not contradict, or ends.
LEMMA RecoverStep ==
  ASSUME FlowInv, RecoverExistingRun
  PROVE  FlowInv'
<1> USE DEF RecoverExistingRun
<1>1. CASE Raise("FAIL_CONTRACT") \/ Raise("UNCLASSIFIED")
  BY <1>1, RaiseStep DEF Failures
<1>2. CASE ~(Raise("FAIL_CONTRACT") \/ Raise("UNCLASSIFIED"))
  <2>1. PICK r \in 0..MaxRuns : Follow(r)
    BY <1>2 DEF FlowInv, TypeOK, BackendTypeOK
  <2>2. transport' \in 0..MaxTechnicalRetries /\ budget' \in 0..PollBudget
    BY <2>1, FlowAssumption DEF Follow, FlowAssumption
  <2>3. TypeOK'
    BY <2>1, <2>2
    DEF Follow, GoTo, BackendIdle, backendVars, clientVars, Steps,
        FlowInv, TypeOK, BackendTypeOK, ClientTypeOK
  <2> QED
    BY <2>1, <2>3, FollowStep DEF Follow, GoTo
<1> QED
  BY <1>1, <1>2

\* One more attempt at the result of the same run, or the end of the flow.
LEMMA NextAttemptStep ==
  ASSUME FlowInv, BackendIdle, NextAttempt, pc \in {"read", "read404"}
  PROVE  FlowInv'
<1>1. CASE Raise("FAIL_TECHNICAL")
  BY <1>1, RaiseStep DEF Failures
<1>2. CASE ~Raise("FAIL_TECHNICAL")
  <2>1. attempt' \in 0..MaxTechnicalRetries
    BY <1>2, FlowAssumption DEF NextAttempt, FlowInv, TypeOK, FlowAssumption
  <2>2. TypeOK'
    BY <1>2, <2>1
    DEF NextAttempt, GoTo, BackendIdle, backendVars, clientVars, Steps,
        FlowInv, TypeOK, BackendTypeOK, ClientTypeOK
  <2> QED
    BY <1>2, <2>2, FollowStep DEF NextAttempt, GoTo
<1> QED
  BY <1>1, <1>2

\* Reading the result.  A published run is completed, so releasing the form on
\* its result leaves no working run unprotected.
LEMMA ReadResultStep ==
  ASSUME FlowInv, ReadRealPipelineResult
  PROVE  FlowInv'
<1>1. CASE ResultUnavailable
  BY <1>1, NextAttemptStep DEF ResultUnavailable
<1>2. CASE ResultMissing
  <2>1. TypeOK'
    BY <1>2
    DEF ResultMissing, GoTo, BackendIdle, backendVars, clientVars, Steps,
        FlowInv, TypeOK, BackendTypeOK, ClientTypeOK
  <2> QED
    BY <1>2, <2>1, FollowStep DEF ResultMissing, GoTo
<1>3. CASE StatusAfterMissing
  <2> USE <1>3 DEF StatusAfterMissing
  <2>1. PICK v \in ReadStatus(run) :
          \/ Raise("FAIL_CONTRACT")
          \/ DefiniteFailure(v) /\ RetryPipeline
          \/ NextAttempt
    OBVIOUS
  <2>2. CASE Raise("FAIL_CONTRACT")
    BY <2>2, RaiseStep DEF Failures
  <2>3. CASE DefiniteFailure(v) /\ RetryPipeline
    BY <2>3, ReadStatusSound, RetryStep
  <2>4. CASE NextAttempt
    BY <2>4, NextAttemptStep
  <2> QED
    BY <2>1, <2>2, <2>3, <2>4
<1>4. CASE ResultRejected
  BY <1>4, RaiseStep DEF ResultRejected, Failures
<1>5. CASE ResultRead
  <2> USE <1>5 DEF ResultRead, GoTo, backendVars, FlowInv
  <2>1. ~Busy /\ net = {} /\ formExists /\ Busy' = Busy
    BY DEF Busy, Active, RunInv, NetInv, IdentityHolds
  <2>2. TypeOK'
    <3>1. protected' \in BOOLEAN
      BY Zenon
    <3> QED
      BY <3>1 DEF TypeOK, BackendTypeOK, ClientTypeOK, Steps
  <2>3. NetInv' /\ RunInv'
    BY <2>1 DEF NetInv, RunInv, Active
  <2>4. FreshInv' /\ ScopeInv'
    BY <2>1 DEF FreshInv, FreshOnlyAfterFailure, ScopeInv, ProtectedWhileInUse,
                DeletedOnlyWhenIdle
  <2>5. OutcomeInv'
    BY DEF OutcomeInv, PassIsFinal, Undecided
  <2> QED
    BY <2>2, <2>3, <2>4, <2>5
<1> QED
  BY <1>1, <1>2, <1>3, <1>4, <1>5 DEF ReadRealPipelineResult

\* The decision on a result: nothing works for the form while it is taken.
LEMMA ReviewStep ==
  ASSUME FlowInv,
         ReviewRejected \/ RegisterResult \/ NextRound \/ FeedbackFailed \/ FinishInvalid
  PROVE  FlowInv'
<1> USE DEF FlowInv
<1>1. CASE ReviewRejected \/ FeedbackFailed
  BY <1>1, RaiseStep DEF ReviewRejected, FeedbackFailed, Failures
<1>2. CASE RegisterResult
  <2> USE <1>2 DEF RegisterResult, backendVars
  <2>1. PICK res \in RegisterResults :
          pc' = "end" /\ outcome' = res.outcome /\ refresh' = res.refresh
            /\ lateRegister' = res.late
            /\ protected' = (protected /\ res.outcome \in Failures)
    OBVIOUS
  <2>2. /\ res.outcome \in Outcomes
        /\ res.refresh \in RefreshStates
        /\ res.outcome # "PASS_INVALID"
    BY DEF RegisterResults, Outcomes, Failures, RefreshStates
  <2>3. res.outcome = "PASS_REGISTERED" => res.refresh = "completed" /\ res.late = FALSE
    BY DEF RegisterResults, Failures
  <2>4. res.late \in BOOLEAN /\ protected' \in BOOLEAN
    BY <2>1, Zenon DEF RegisterResults
  <2>5. ~Busy /\ net = {} /\ formExists /\ Busy' = Busy /\ run \in published
    BY DEF Busy, Active, RunInv, NetInv, ScopeInv
  <2>6. TypeOK'
    BY <2>1, <2>2, <2>4 DEF TypeOK, BackendTypeOK, ClientTypeOK, Steps
  <2>7. NetInv' /\ RunInv'
    BY <2>1, <2>5 DEF NetInv, RunInv, Active
  <2>8. FreshInv' /\ ScopeInv'
    BY <2>1, <2>5 DEF FreshInv, FreshOnlyAfterFailure, ScopeInv, ProtectedWhileInUse,
                      DeletedOnlyWhenIdle
  <2>9. OutcomeInv'
    BY <2>1, <2>2, <2>3, <2>5 DEF OutcomeInv, PassIsFinal
  <2> QED
    BY <2>6, <2>7, <2>8, <2>9
<1>3. CASE NextRound
  <2> USE <1>3 DEF NextRound, GoTo, BackendIdle, backendVars, clientVars
  <2>1. ~Busy /\ net = {} /\ formExists /\ Busy' = Busy
    BY DEF Busy, Active, RunInv, NetInv, ScopeInv
  <2>2. TypeOK'
    <3>1. round' \in 1..MaxRounds /\ retries' \in 0..MaxTechnicalRetries
      BY FlowAssumption DEF FlowAssumption, Continue, TypeOK
    <3>2. fresh' \in BOOLEAN
      BY Zenon
    <3> QED
      BY <3>1, <3>2 DEF TypeOK, BackendTypeOK, ClientTypeOK, Steps
  <2>3. NetInv' /\ RunInv'
    BY <2>1 DEF NetInv, RunInv, Active
  <2>4. FreshInv' /\ ScopeInv'
    BY <2>1 DEF FreshInv, FreshOnlyAfterFailure, ScopeInv, ProtectedWhileInUse,
                DeletedOnlyWhenIdle
  <2>5. OutcomeInv'
    BY DEF OutcomeInv, PassIsFinal, Undecided
  <2> QED
    BY <2>2, <2>3, <2>4, <2>5
<1>4. CASE FinishInvalid
  <2> USE <1>4 DEF FinishInvalid, Raise, backendVars
  <2>1. ~Busy /\ net = {} /\ formExists /\ Busy' = Busy /\ run \in published
    BY DEF Busy, Active, RunInv, NetInv, ScopeInv
  <2>2. TypeOK'
    <3>1. protected' \in BOOLEAN
      BY Zenon
    <3> QED
      BY <3>1 DEF TypeOK, BackendTypeOK, ClientTypeOK, Steps, Outcomes
  <2>3. NetInv' /\ RunInv'
    BY <2>1 DEF NetInv, RunInv, Active
  <2>4. FreshInv' /\ ScopeInv'
    BY <2>1 DEF FreshInv, FreshOnlyAfterFailure, ScopeInv, ProtectedWhileInUse,
                DeletedOnlyWhenIdle
  <2>5. OutcomeInv'
    BY <2>1 DEF OutcomeInv, PassIsFinal
  <2> QED
    BY <2>2, <2>3, <2>4, <2>5
<1> QED
  BY <1>1, <1>2, <1>3, <1>4

\* Looking for the agent: nothing has been started yet.
LEMMA DiscoverStep ==
  ASSUME FlowInv, DiscoverAgent
  PROVE  FlowInv'
<1>1. CASE \E o \in {"FAIL_CONTRACT", "FAIL_TECHNICAL"} : Raise(o)
  BY <1>1, RaiseStep DEF DiscoverAgent, Failures
<1>2. CASE ~\E o \in {"FAIL_CONTRACT", "FAIL_TECHNICAL"} : Raise(o)
  <2> USE <1>2 DEF DiscoverAgent, GoTo, BackendIdle, backendVars, clientVars, FlowInv
  <2>1. pc' = "start" /\ UNCHANGED <<outcome, fresh, lateRegister, run>> /\ Busy' = Busy
    BY DEF Busy, Active
  <2>2. TypeOK'
    BY DEF TypeOK, BackendTypeOK, ClientTypeOK, Steps
  <2>3. NetInv' /\ RunInv'
    BY <2>1 DEF NetInv, RunInv, Active
  <2>4. ScopeInv'
    BY <2>1 DEF ScopeInv, ProtectedWhileInUse, DeletedOnlyWhenIdle
  <2>5. FreshInv'
    BY <2>1 DEF FreshInv, FreshOnlyAfterFailure
  <2>6. OutcomeInv'
    BY <2>1 DEF OutcomeInv, PassIsFinal, Undecided
  <2> QED
    BY <2>2, <2>3, <2>4, <2>5, <2>6
<1> QED
  BY <1>1, <1>2

\* The fixture removes the form only when nothing uses it.
LEMMA CloseStep ==
  ASSUME FlowInv, CloseFixture
  PROVE  FlowInv'
<1> USE DEF FlowInv, CloseFixture, Cleanup, MayDelete, GoTo, clientVars
<1>1. formExists' \in BOOLEAN
  BY Zenon DEF TypeOK, BackendTypeOK
<1>2. ~formExists' => ~formExists \/ (~protected /\ ~HasActiveRefresh)
  BY Zenon
<1>3. Busy' = Busy /\ pc = "end" /\ pc' = "closed"
  BY DEF Busy, Active
<1>4. TypeOK'
  BY <1>1 DEF TypeOK, BackendTypeOK, ClientTypeOK, Steps
<1>5. NetInv' /\ RunInv'
  BY <1>3 DEF NetInv, RunInv, Active
<1>6. FreshInv'
  BY <1>3 DEF FreshInv, FreshOnlyAfterFailure
<1>7. ScopeInv'
  BY <1>2, <1>3 DEF ScopeInv, ProtectedWhileInUse, DeletedOnlyWhenIdle, HasActiveRefresh
<1>8. OutcomeInv'
  BY <1>3 DEF OutcomeInv, PassIsFinal
<1> QED
  BY <1>4, <1>5, <1>6, <1>7, <1>8

\* The refresh moves on, or a registration nobody waits for is processed.  It
\* can only start a refresh of a form that is still there, and never touches
\* the refresh a passing outcome rests on.
LEMMA RefreshStep ==
  ASSUME FlowInv, RefreshEnds \/ LateRegistration
  PROVE  FlowInv'
<1> USE DEF FlowInv, RefreshEnds, LateRegistration, backendVars, flowVars
<1>1. Busy' = Busy /\ UNCHANGED <<pc, outcome, fresh, run>>
  BY DEF Busy, Active
<1>2. lateRegister' \in BOOLEAN /\ (lateRegister' => lateRegister)
  <2>1. lateRegister' = lateRegister \/ (lateRegister /\ lateRegister' = FALSE)
    OBVIOUS
  <2>2. lateRegister \in BOOLEAN
    BY DEF TypeOK
  <2>3. lateRegister' \in BOOLEAN
    BY <2>1, <2>2, Zenon
  <2> QED
    BY <2>1, <2>3
<1>3. TypeOK'
  BY <1>2 DEF TypeOK, BackendTypeOK, ClientTypeOK, RefreshStates
<1>4. NetInv' /\ RunInv'
  BY <1>1 DEF NetInv, RunInv, Active
<1>5. FreshInv'
  BY <1>1 DEF FreshInv, FreshOnlyAfterFailure
<1>6. ScopeInv'
  BY <1>1 DEF ScopeInv, ProtectedWhileInUse, DeletedOnlyWhenIdle
<1>7. outcome = "PASS_REGISTERED" => refresh' = refresh
  BY DEF OutcomeInv, PassIsFinal
<1>8. OutcomeInv'
  BY <1>1, <1>2, <1>7 DEF OutcomeInv, PassIsFinal
<1> QED
  BY <1>3, <1>4, <1>5, <1>6, <1>8

\* Every step of the backend.
LEMMA BackendStep ==
  ASSUME FlowInv, BackendNext, UNCHANGED <<clientVars, flowVars>>
  PROVE  FlowInv'
<1>1. ASSUME NEW q \in net, ProcessStart(q)
      PROVE  FlowInv'
  <2>1. CASE AcceptStart(q)
    BY <2>1, AcceptStep
  <2>2. CASE ReplayStart(q)
    <3>1. formRun \in 0..MaxRuns /\ "replayed" \in ReplyKinds
      BY DEF FlowInv, TypeOK, BackendTypeOK, ReplyKinds
    <3> QED
      BY <2>2, <3>1, AnsweredStep DEF ReplayStart, BackendRows
  <2>3. CASE ConflictStart(q)
    <3>1. PICK r \in 0..MaxRuns : Answer(q, "conflict", r)
      BY <2>3, BackendAssumption DEF ConflictStart, RunIds, NoRun, BackendAssumption
    <3>2. "conflict" \in ReplyKinds
      BY DEF ReplyKinds
    <3> QED
      BY <2>3, <3>1, <3>2, AnsweredStep DEF ConflictStart, BackendRows
  <2>4. CASE RefuseStart(q)
    <3>1. PICK kind \in ReplyKinds : Answer(q, kind, NoRun)
      BY <2>4 DEF RefuseStart, ReplyKinds
    <3>2. NoRun \in 0..MaxRuns
      BY BackendAssumption DEF NoRun, BackendAssumption
    <3> QED
      BY <2>4, <3>1, <3>2, AnsweredStep DEF RefuseStart, BackendRows
  <2> QED
    BY <1>1, <2>1, <2>2, <2>3, <2>4 DEF ProcessStart
<1>2. CASE SettleForm
  <2> USE <1>2 DEF SettleForm, clientVars, flowVars, FlowInv
  <2>1. formDone' \in BOOLEAN
    BY Zenon
  <2>2. Busy' = Busy
    BY DEF Busy, Active
  <2>3. TypeOK'
    BY <2>1 DEF TypeOK, BackendTypeOK, ClientTypeOK
  <2>4. NetInv' /\ RunInv'
    BY <2>2 DEF NetInv, RunInv, Active
  <2>5. FreshInv' /\ ScopeInv'
    BY <2>2 DEF FreshInv, FreshOnlyAfterFailure, ScopeInv, ProtectedWhileInUse,
                DeletedOnlyWhenIdle
  <2>6. OutcomeInv'
    BY <2>2 DEF OutcomeInv, PassIsFinal
  <2> QED
    BY <2>3, <2>4, <2>5, <2>6
<1> QED
  BY <1>1, <1>2, ProgressStep DEF BackendNext

\* Nothing happens.
LEMMA StutterStep ==
  ASSUME FlowInv, UNCHANGED vars
  PROVE  FlowInv'
<1> USE DEF vars, backendVars, clientVars, flowVars, FlowInv
<1>1. TypeOK'
  BY DEF TypeOK, BackendTypeOK, ClientTypeOK
<1>2. NetInv' /\ RunInv'
  BY DEF NetInv, RunInv, Busy, Active
<1>3. FreshInv' /\ ScopeInv' /\ OutcomeInv'
  BY DEF FreshInv, FreshOnlyAfterFailure, ScopeInv, ProtectedWhileInUse,
         DeletedOnlyWhenIdle, OutcomeInv, PassIsFinal, Busy, Active
<1> QED
  BY <1>1, <1>2, <1>3

-----------------------------------------------------------------------------
(* The theorems.                                                            *)

\* Every step of the flow, of its fixture and of the backend preserves the
\* invariant.
LEMMA FlowInvNext == FlowInv /\ [Next]_vars => FlowInv'
<1> SUFFICES ASSUME FlowInv, [Next]_vars PROVE FlowInv'
  OBVIOUS
<1>1. CASE ClientNext
  BY <1>1, DiscoverStep, SendStep, StartActionsStep, RecoverStep, PollStep,
     ReadResultStep, ReviewStep, CloseStep DEF ClientNext
<1>2. CASE EnvironmentNext
  BY <1>2, BackendStep, RefreshStep DEF EnvironmentNext
<1>3. CASE UNCHANGED vars
  BY <1>3, StutterStep
<1> QED
  BY <1>1, <1>2, <1>3 DEF Next, Terminated

\* The inductive invariant holds in every reachable state of
\* run_real_research_flow against the backend.
THEOREM FlowInvariant == Spec => []FlowInv
BY FlowInvInit, FlowInvNext, PTL DEF Spec

\* Every variable of the flow keeps its type: the retry, attempt and round
\* counters never pass the limits of the settings.
THEOREM TypeCorrect == Spec => []TypeOK
BY FlowInvariant, PTL DEF FlowInv

\* The form never has two active runs, for any number of rounds and retries.
THEOREM OneRunAtATime == Spec => []SingleActiveRun
<1>1. FlowInv => SingleActiveRun
  BY DEF FlowInv, RunInv, SingleActiveRun
<1> QED
  BY <1>1, FlowInvariant, PTL

\* force_fresh_pipeline_run is only ever sent after the followed run failed.
THEOREM ForcedOnlyAfterFailure == Spec => []FreshOnlyAfterFailure
<1>1. FlowInv => FreshOnlyAfterFailure
  BY DEF FlowInv, FreshInv
<1> QED
  BY <1>1, FlowInvariant, PTL

\* TestResourceScope protects the form for as long as anything can work for it.
THEOREM ProtectionOutlivesUse == Spec => []ProtectedWhileInUse
<1>1. FlowInv => ProtectedWhileInUse
  BY DEF FlowInv, ScopeInv
<1> QED
  BY <1>1, FlowInvariant, PTL

\* The cleanup never removes a form a run, a request or a refresh still uses.
THEOREM RemovalIsSafe == Spec => []DeletedOnlyWhenIdle
<1>1. FlowInv => DeletedOnlyWhenIdle
  BY DEF FlowInv, ScopeInv
<1> QED
  BY <1>1, FlowInvariant, PTL

\* A passing outcome rests on a delivered result and a finished refresh.
THEOREM PassRestsOnFinalFacts == Spec => []PassIsFinal
<1>1. FlowInv => PassIsFinal
  BY DEF FlowInv, OutcomeInv
<1> QED
  BY <1>1, FlowInvariant, PTL

-----------------------------------------------------------------------------
(* What an answer leads to.  The request on its way carries this round's   *)
(* feedback for as long as the flow waits for it, and an accepting answer  *)
(* names a run that works on it.                                           *)

AnswerInv ==
    /\ pc = "await" => \A q \in net : q.fb = fb
    /\ reply.kind \in {"created", "replayed"} =>
          reply.run \in RunIds /\ runFeedback[reply.run] = fb

\* The backend takes the request: the run it names in an accepting answer is
\* the new run, or the form's run when that already answers the feedback.
LEMMA ProcessedAnswer ==
  ASSUME FlowInv, AnswerInv, NEW q \in net, ProcessStart(q),
         UNCHANGED <<clientVars, flowVars>>
  PROVE  AnswerInv'
<1> USE DEF FlowInv, flowVars
<1>1. q.id # 0 /\ net' = {} /\ waitFor' = waitFor /\ reply = NoReply
  <2>1. q.id # 0
    BY BackendAssumption DEF BackendAssumption, TypeOK, BackendTypeOK, Requests
  <2> QED
    BY <2>1 DEF NetInv, ProcessStart, AcceptStart, ReplayStart, ConflictStart, RefuseStart, Answer
<1>2. SUFFICES ASSUME reply'.kind \in {"created", "replayed"}
               PROVE  reply'.run \in RunIds /\ runFeedback'[reply'.run] = fb
  BY <1>1 DEF AnswerInv
<1>3. waitFor = q.id /\ q.fb = fb
  <2>1. reply' # reply
    BY <1>1, <1>2 DEF NoReply
  <2>2. waitFor = q.id
    BY <2>1 DEF ProcessStart, AcceptStart, ReplayStart, ConflictStart, RefuseStart, Answer
  <2> QED
    BY <1>1, <2>2 DEF NetInv, AnswerInv
<1>4. CASE AcceptStart(q)
  <2>1. PICK r \in RunIds :
          /\ runFeedback' = [runFeedback EXCEPT ![r] = q.fb]
          /\ \E kind \in {"created", "error", "malformed"} : Answer(q, kind, r)
    BY <1>4 DEF AcceptStart
  <2>2. reply'.run = r
    BY <1>3, <2>1 DEF Answer
  <2> QED
    BY <1>3, <2>1, <2>2 DEF TypeOK, BackendTypeOK
<1>5. CASE ReplayStart(q)
  <2>1. formRun # NoRun /\ runFeedback[formRun] = q.fb
    BY <1>5 DEF ReplayStart, CreatesRun
  <2>2. formRun \in RunIds
    BY <2>1, BackendAssumption DEF TypeOK, BackendTypeOK, NoRun, RunIds, BackendAssumption
  <2>3. reply'.run = formRun /\ runFeedback' = runFeedback
    BY <1>3, <1>5 DEF ReplayStart, Answer
  <2> QED
    BY <1>3, <2>1, <2>2, <2>3
<1>6. CASE ConflictStart(q) \/ RefuseStart(q)
  BY <1>2, <1>3, <1>6 DEF ConflictStart, RefuseStart, Answer
<1> QED
  BY <1>4, <1>5, <1>6 DEF ProcessStart

\* Every step keeps the answer true to the round.
LEMMA AnswerInvNext == FlowInv /\ FlowInv' /\ AnswerInv /\ [Next]_vars => AnswerInv'
<1> SUFFICES ASSUME FlowInv, FlowInv', AnswerInv, [Next]_vars
             PROVE  AnswerInv'
  OBVIOUS
<1>0. NoReply.kind \notin {"created", "replayed"}
  BY DEF NoReply
<1>1. CASE StartRealRun
  <2>1. net = {}
    BY <1>1 DEF FlowInv, NetInv, StartRealRun
  <2> QED
    BY <1>0, <1>1, <2>1 DEF AnswerInv, StartRealRun, SendStart, GoTo
<1>2. CASE pc # "start" /\ pc' # "await"
  BY <1>0, <1>2 DEF FlowInv, NetInv, AnswerInv
<1>3. CASE EnvironmentNext
  <2>1. CASE \E q \in net : ProcessStart(q) /\ UNCHANGED <<clientVars, flowVars>>
    BY <2>1, ProcessedAnswer
  <2>2. CASE ~\E q \in net : ProcessStart(q) /\ UNCHANGED <<clientVars, flowVars>>
    BY <1>3, <2>2
    DEF AnswerInv, EnvironmentNext, BackendNext, CompleteRun, FailRun, PublishResult,
        SettleForm, RefreshEnds, LateRegistration, backendVars, flowVars
  <2> QED
    BY <2>1, <2>2
<1>4. CASE UNCHANGED vars
  BY <1>4 DEF AnswerInv, vars, backendVars, flowVars
<1>5. ASSUME ClientNext, ~StartRealRun
      PROVE  pc # "start" /\ pc' # "await"
  BY <1>5
  DEF ClientNext, DiscoverAgent, StartAccepted, StartLost, StartRejected,
      StartConflict, RecoverExistingRun, Follow, PollRealRun, PollTechnical,
      PollContract, PollPending, PollCompleted, PollFailed, PollReadableNotCompleted,
      PollTimeout, PollReads, ReadRealPipelineResult, ResultUnavailable,
      ResultMissing, StatusAfterMissing, ResultRejected, ResultRead, NextAttempt,
      RetryPipeline, ReviewRejected, RegisterResult, NextRound, FeedbackFailed,
      FinishInvalid, CloseFixture, Raise, GoTo
<1> QED
  BY <1>1, <1>2, <1>3, <1>4, <1>5 DEF Next, Terminated

\* A run that a start answer makes the flow follow works on the feedback of this
\* round: neither a late nor a replayed answer leads it to an earlier round's run.
THEOREM AnswerLeadsToThisRound == Spec => FollowsThisRound
<1>1. Init => AnswerInv
  BY DEF Init, BackendInit, NoReply, AnswerInv
<1>2. FlowInv /\ AnswerInv /\ [Next]_vars =>
        [pc = "await" /\ pc' = "poll" => run' \in RunIds /\ runFeedback[run'] = fb]_vars
  <2> SUFFICES ASSUME AnswerInv, Next, pc = "await", pc' = "poll"
               PROVE  run' \in RunIds /\ runFeedback[run'] = fb
    OBVIOUS
  <2>1. ~EnvironmentNext /\ ~Terminated
    BY DEF EnvironmentNext, RefreshEnds, LateRegistration, flowVars, Terminated
  <2>2. StartAccepted
    BY <2>1
    DEF Next, ClientNext, DiscoverAgent, StartRealRun, StartLost, StartRejected,
        StartConflict, RecoverExistingRun, PollRealRun, PollTechnical, PollContract,
        PollPending, PollCompleted, PollFailed, PollReadableNotCompleted, PollTimeout,
        PollReads, ReadRealPipelineResult, ResultUnavailable, ResultMissing,
        StatusAfterMissing, ResultRejected, ResultRead, ReviewRejected,
        RegisterResult, NextRound, FeedbackFailed, FinishInvalid, CloseFixture,
        Raise, GoTo
  <2> QED
    BY <2>2 DEF AnswerInv, StartAccepted, StartAnswered, Follow
<1> QED
  BY <1>1, <1>2, FlowInvariant, AnswerInvNext, PTL DEF Spec, FollowsThisRound

-----------------------------------------------------------------------------
(* The flow implements FormLifecycle.  Two counts carry the proof: the     *)
(* starts sent never pass what the rounds and retries so far allow, and    *)
(* every run was created by a start of its own.                            *)

AllowedAt(rd, rt) == (rd - 1) * (MaxTechnicalRetries + 1) + rt + 1
StartsAllowed == AllowedAt(round, retries)

CountInv ==
    /\ starts <= StartsAllowed
    /\ pc \in {"discover", "start"} => starts < StartsAllowed
    /\ RunsUsed <= starts
    /\ net # {} => RunsUsed < starts

\* The runs the backend has created so far.
Used == {r \in RunIds : runState[r] # "absent"}

\* The settings' limits bound the starts of the whole flow, and a round that
\* ends leaves a start for the next one.
LEMMA AllowedBounds ==
  ASSUME NEW rd \in 1..MaxRounds, NEW rt \in 0..MaxTechnicalRetries
  PROVE  /\ AllowedAt(rd, rt) \in Nat
         /\ AllowedAt(rd, rt) <= MaxRounds * (MaxTechnicalRetries + 1)
         /\ AllowedAt(rd, rt) < AllowedAt(rd + 1, 0)
         /\ AllowedAt(rd, rt + 1) = AllowedAt(rd, rt) + 1
<1> DEFINE K == MaxTechnicalRetries + 1
<1>1. /\ K \in Nat /\ MaxRounds \in Nat /\ rd \in Nat /\ rd - 1 \in Nat /\ rt \in Nat
      /\ rd <= MaxRounds /\ rt + 1 <= K
  BY FlowAssumption DEF FlowAssumption
<1>2. (rd - 1) * K \in Nat /\ (rd - 1) * K + K = rd * K
  BY <1>1
<1>3. rd * K <= MaxRounds * K
  BY <1>1
<1>4. rd * K \in Nat /\ MaxRounds * K \in Nat
  BY <1>1
<1>5. /\ AllowedAt(rd, rt) = (rd - 1) * K + rt + 1
      /\ AllowedAt(rd, rt + 1) = (rd - 1) * K + (rt + 1) + 1
      /\ AllowedAt(rd + 1, 0) = ((rd + 1) - 1) * K + 0 + 1
  BY DEF AllowedAt
<1>6. ((rd + 1) - 1) * K = rd * K
  BY <1>1
<1> HIDE DEF K
<1>7. /\ AllowedAt(rd, rt) \in Nat
      /\ AllowedAt(rd, rt) <= MaxRounds * K
      /\ AllowedAt(rd, rt) < AllowedAt(rd + 1, 0)
      /\ AllowedAt(rd, rt + 1) = AllowedAt(rd, rt) + 1
  BY <1>1, <1>2, <1>3, <1>4, <1>5, <1>6
<1> QED
  BY <1>7 DEF K

\* The number of runs is a number, and creating one adds one to it.
LEMMA RunsUsedCounts ==
  ASSUME BackendTypeOK
  PROVE  /\ RunsUsed \in Nat
         /\ IsFiniteSet(Used)
         /\ RunsUsed = Cardinality(Used)
<1>1. IsFiniteSet(RunIds)
  BY FS_Interval, BackendAssumption DEF BackendAssumption, RunIds
<1>2. Used \in SUBSET RunIds
  BY DEF Used
<1>3. IsFiniteSet(Used)
  BY <1>1, <1>2, FS_Subset
<1> QED
  BY <1>3, FS_CardinalityType DEF RunsUsed, Used

\* Moving a run that exists from one state to another creates none.
LEMMA RunsUsedKept ==
  ASSUME BackendTypeOK, NEW r \in RunIds, NEW st, runState[r] # "absent", st # "absent",
         runState' = [runState EXCEPT ![r] = st]
  PROVE  RunsUsed' = RunsUsed
<1>1. Used' = Used
  BY DEF Used, BackendTypeOK
<1> QED
  BY <1>1 DEF RunsUsed, Used

\* An accepted start adds one run.
LEMMA RunsUsedGrows ==
  ASSUME BackendTypeOK, NEW r \in RunIds, runState[r] = "absent",
         runState' = [runState EXCEPT ![r] = "active"]
  PROVE  RunsUsed' = RunsUsed + 1
<1>1. Used' = Used \cup {r} /\ r \notin Used
  BY DEF Used, BackendTypeOK
<1>2. Cardinality(Used \cup {r}) = Cardinality(Used) + 1
  BY <1>1, RunsUsedCounts, FS_AddElement
<1> QED
  BY <1>1, <1>2 DEF RunsUsed, Used

\* The steps of the client that send nothing: a retry or a new round opens a
\* start, and nothing else leads back to one.
LEMMA QuietClientStep ==
  ASSUME ClientNext, ~StartRealRun
  PROVE  /\ UNCHANGED <<runState, net, starts>>
         /\ pc' # "discover"
         /\ \/ pc' = "start" /\ round' = round /\ retries' = retries + 1
            \/ pc' = "start" /\ round' = round + 1 /\ retries' = 0
            \/ UNCHANGED <<round, retries>> /\ (pc' = "start" => pc = "discover")
<1> USE DEF Raise, GoTo, BackendIdle, backendVars, clientVars, BackendRows
<1>1. CASE DiscoverAgent \/ RecoverExistingRun
  BY <1>1 DEF DiscoverAgent, RecoverExistingRun, Follow
<1>2. CASE StartAccepted \/ StartLost \/ StartRejected \/ StartConflict
  BY <1>2 DEF StartAccepted, StartLost, StartRejected, StartConflict, StartAnswered,
              StartUnanswered, Follow
<1>3. CASE PollRealRun
  BY <1>3 DEF PollRealRun, PollTechnical, PollContract, PollPending, PollCompleted,
              PollFailed, PollReadableNotCompleted, PollTimeout, PollReads, RetryPipeline
<1>4. CASE ReadRealPipelineResult
  BY <1>4 DEF ReadRealPipelineResult, ResultUnavailable, ResultMissing,
              StatusAfterMissing, ResultRejected, ResultRead, NextAttempt, RetryPipeline
<1>5. CASE ReviewRejected \/ RegisterResult \/ NextRound \/ FeedbackFailed \/ FinishInvalid
  BY <1>5 DEF ReviewRejected, RegisterResult, NextRound, FeedbackFailed, FinishInvalid
<1>6. CASE CloseFixture
  BY <1>6 DEF CloseFixture, Cleanup
<1> QED
  BY <1>1, <1>2, <1>3, <1>4, <1>5, <1>6 DEF ClientNext

\* Every step keeps the counts.
LEMMA CountInvNext == FlowInv /\ FlowInv' /\ CountInv /\ [Next]_vars => CountInv'
<1> SUFFICES ASSUME FlowInv, FlowInv', CountInv, [Next]_vars
             PROVE  CountInv'
  OBVIOUS
<1>0. /\ BackendTypeOK
      /\ round \in 1..MaxRounds /\ retries \in 0..MaxTechnicalRetries
      /\ starts \in Nat /\ RunsUsed \in Nat
      /\ StartsAllowed \in Nat /\ StartsAllowed' \in Nat
  <2>1. /\ BackendTypeOK /\ starts \in Nat
        /\ round \in 1..MaxRounds /\ retries \in 0..MaxTechnicalRetries
        /\ round' \in 1..MaxRounds /\ retries' \in 0..MaxTechnicalRetries
    BY BackendAssumption DEF FlowInv, TypeOK, ClientTypeOK, BackendAssumption
  <2> QED
    BY <2>1, AllowedBounds, RunsUsedCounts DEF StartsAllowed
<1>1. CASE StartRealRun
  <2>1. /\ pc = "start" /\ pc' = "await" /\ starts' = starts + 1
        /\ UNCHANGED <<runState, round, retries>>
    BY <1>1 DEF StartRealRun, SendStart, GoTo, BackendRows
  <2>2. RunsUsed' = RunsUsed /\ StartsAllowed' = StartsAllowed
    BY <2>1 DEF RunsUsed, StartsAllowed
  <2> QED
    BY <1>0, <2>1, <2>2 DEF CountInv
<1>2. CASE ClientNext /\ ~StartRealRun
  <2>1. RunsUsed' = RunsUsed /\ UNCHANGED <<net, starts>>
    BY <1>2, QuietClientStep DEF RunsUsed
  <2>2. StartsAllowed' >= StartsAllowed /\ (pc' = "start" => starts' < StartsAllowed')
    <3>1. CASE \/ round' = round /\ retries' = retries + 1
               \/ round' = round + 1 /\ retries' = 0
      <4>1. StartsAllowed' > StartsAllowed
        BY <1>0, <3>1, AllowedBounds DEF StartsAllowed
      <4> QED
        BY <1>0, <2>1, <4>1 DEF CountInv
    <3>2. CASE UNCHANGED <<round, retries>> /\ (pc' = "start" => pc = "discover")
      BY <1>0, <2>1, <3>2 DEF CountInv, StartsAllowed
    <3> QED
      BY <1>2, <3>1, <3>2, QuietClientStep
  <2>3. pc' # "discover"
    BY <1>2, QuietClientStep
  <2> QED
    BY <1>0, <2>1, <2>2, <2>3 DEF CountInv
<1>3. CASE EnvironmentNext
  <2>1. UNCHANGED <<starts, pc, round, retries>> /\ StartsAllowed' = StartsAllowed
    BY <1>3
    DEF EnvironmentNext, RefreshEnds, LateRegistration, clientVars, flowVars, StartsAllowed
  <2>2. ASSUME NEW q \in net, AcceptStart(q)
        PROVE  RunsUsed' = RunsUsed + 1 /\ net' = {}
    <3>1. PICK r \in RunIds : NextRun(r) /\ runState' = [runState EXCEPT ![r] = "active"]
      BY <2>2 DEF AcceptStart
    <3>2. net' = {}
      BY <2>2 DEF AcceptStart, Answer, FlowInv, NetInv
    <3> QED
      BY <1>0, <3>1, <3>2, RunsUsedGrows DEF NextRun
  <2>3. ASSUME ~\E q \in net : AcceptStart(q)
        PROVE  RunsUsed' = RunsUsed /\ net' \subseteq net
    <3>1. CASE \E r \in RunIds : CompleteRun(r) \/ FailRun(r)
      <4>1. PICK r \in RunIds : CompleteRun(r) \/ FailRun(r)
        BY <3>1
      <4>2. PICK st \in {"completed", "failed"} : runState' = [runState EXCEPT ![r] = st]
        BY <4>1 DEF CompleteRun, FailRun
      <4>3. runState[r] # "absent" /\ net' = net
        BY <4>1 DEF CompleteRun, FailRun, Active
      <4> QED
        BY <1>0, <4>2, <4>3, RunsUsedKept
    <3>2. CASE ~\E r \in RunIds : CompleteRun(r) \/ FailRun(r)
      <4>1. runState' = runState /\ net' \subseteq net
        BY <1>3, <2>3, <3>2
        DEF EnvironmentNext, BackendNext, ProcessStart, ReplayStart, ConflictStart,
            RefuseStart, Answer, PublishResult, SettleForm, RefreshEnds,
            LateRegistration, backendVars
      <4> QED
        BY <4>1 DEF RunsUsed
    <3> QED
      BY <3>1, <3>2
  <2> QED
    BY <1>0, <2>1, <2>2, <2>3 DEF CountInv
<1>4. CASE UNCHANGED vars
  BY <1>4 DEF CountInv, StartsAllowed, RunsUsed, vars, backendVars, clientVars, flowVars
<1> QED
  BY <1>1, <1>2, <1>3, <1>4 DEF Next, Terminated

\* One step of the flow is one step of the form's life, or none that shows.
LEMMA LifecycleStep ==
  FlowInv /\ FlowInv' /\ CountInv /\ [Next]_vars => [Lifecycle!Next]_(Lifecycle!lifecycleVars)
<1> SUFFICES ASSUME FlowInv, FlowInv', CountInv, [Next]_vars
             PROVE  [Lifecycle!Next]_(Lifecycle!lifecycleVars)
  OBVIOUS
<1> USE DEF Lifecycle!Next, Lifecycle!lifecycleVars
<1>0. BackendTypeOK /\ RunsUsed \in Nat
  BY RunsUsedCounts DEF FlowInv, TypeOK
<1>1. ASSUME UNCHANGED <<runState, formExists>>
      PROVE  UNCHANGED Lifecycle!lifecycleVars
  <2>1. RunsUsed' = RunsUsed /\ Busy' = Busy
    BY <1>1 DEF RunsUsed, Busy, Active
  <2> QED
    BY <1>1, <2>1
<1>2. ASSUME NEW q \in net, AcceptStart(q)
      PROVE  Lifecycle!StartRun
  <2>1. PICK r \in RunIds : NextRun(r) /\ runState' = [runState EXCEPT ![r] = "active"]
    BY <1>2 DEF AcceptStart
  <2>2. RunsUsed' = RunsUsed + 1
    BY <1>0, <2>1, RunsUsedGrows DEF NextRun
  <2>3. ~Busy /\ formExists /\ formExists' = formExists
    BY <1>2 DEF AcceptStart, FlowInv, NetInv
  <2>4. Busy'
    BY <2>1, <1>0 DEF Busy, Active, BackendTypeOK
  <2>5. RunsUsed < MaxRounds * (MaxTechnicalRetries + 1)
    <3>1. /\ round \in 1..MaxRounds /\ retries \in 0..MaxTechnicalRetries /\ starts \in Nat
          /\ MaxRounds * (MaxTechnicalRetries + 1) \in Nat
      BY BackendAssumption, FlowAssumption
      DEF FlowInv, TypeOK, ClientTypeOK, BackendAssumption, FlowAssumption
    <3>2. StartsAllowed \in Nat /\ StartsAllowed <= MaxRounds * (MaxTechnicalRetries + 1)
      BY <3>1, AllowedBounds DEF StartsAllowed
    <3> QED
      BY <1>0, <1>2, <3>1, <3>2 DEF CountInv
  <2> QED
    BY <2>2, <2>3, <2>4, <2>5 DEF Lifecycle!StartRun
<1>3. ASSUME NEW r \in RunIds, CompleteRun(r) \/ FailRun(r)
      PROVE  [Lifecycle!Next]_(Lifecycle!lifecycleVars)
  <2>1. PICK st \in {"completed", "failed"} : runState' = [runState EXCEPT ![r] = st]
    BY <1>3 DEF CompleteRun, FailRun
  <2>2. runState[r] \in {"active", "completed"} /\ formExists' = formExists
    BY <1>3 DEF CompleteRun, FailRun, Active
  <2>3. RunsUsed' = RunsUsed
    BY <1>0, <2>1, <2>2, RunsUsedKept
  <2>4. CASE Active(r)
    <3>1. Busy /\ formExists
      BY <2>4 DEF Busy, FlowInv, ScopeInv, DeletedOnlyWhenIdle
    <3>2. ~Busy'
      BY <1>0, <2>1, <2>4 DEF Busy, Active, FlowInv, RunInv, BackendTypeOK
    <3> QED
      BY <2>2, <2>3, <3>1, <3>2 DEF Lifecycle!EndRun
  <2>5. CASE ~Active(r)
    <3>1. \A s \in RunIds : Active(s)' <=> Active(s)
      BY <1>0, <2>1, <2>5 DEF Active, BackendTypeOK
    <3>2. Busy' = Busy
      BY <3>1 DEF Busy
    <3> QED
      BY <2>2, <2>3, <3>2
  <2> QED
    BY <2>4, <2>5
<1>4. ASSUME CloseFixture
      PROVE  [Lifecycle!Next]_(Lifecycle!lifecycleVars)
  <2>1. runState' = runState /\ RunsUsed' = RunsUsed /\ Busy' = Busy
    BY <1>4 DEF CloseFixture, Cleanup, RunsUsed, Busy, Active
  <2>2. formExists \in BOOLEAN /\ formExists' \in BOOLEAN
    BY DEF FlowInv, TypeOK, BackendTypeOK
  <2>3. formExists' => formExists
    BY <1>4 DEF CloseFixture, Cleanup
  <2>4. CASE formExists' = formExists
    BY <1>1, <2>1, <2>4
  <2>5. CASE formExists /\ ~formExists'
    <3>1. ~Busy'
      BY <2>5 DEF FlowInv, ScopeInv, DeletedOnlyWhenIdle
    <3> QED
      BY <2>1, <2>5, <3>1 DEF Lifecycle!Remove
  <2> QED
    BY <2>2, <2>3, <2>4, <2>5
<1>5. CASE ClientNext /\ ~CloseFixture
  <2>1. UNCHANGED <<runState, formExists>>
    BY <1>5
    DEF ClientNext, DiscoverAgent, StartRealRun, SendStart, StartAccepted, StartAnswered,
        StartLost, StartUnanswered, StartRejected, StartConflict, RecoverExistingRun,
        PollRealRun, PollTechnical, PollContract, PollPending, PollCompleted, PollFailed,
        PollReadableNotCompleted, PollTimeout, PollReads, ReadRealPipelineResult,
        ResultUnavailable, ResultMissing, StatusAfterMissing, ResultRejected, ResultRead,
        ReviewRejected, RegisterResult, NextRound, FeedbackFailed, FinishInvalid,
        BackendIdle, BackendRows, backendVars
  <2> QED
    BY <1>1, <2>1
<1>6. CASE EnvironmentNext
  <2>1. CASE \E q \in net : AcceptStart(q)
    BY <1>2, <2>1
  <2>2. CASE \E r \in RunIds : CompleteRun(r) \/ FailRun(r)
    BY <1>3, <2>2
  <2>3. CASE /\ ~\E q \in net : AcceptStart(q)
             /\ ~\E r \in RunIds : CompleteRun(r) \/ FailRun(r)
    <3>1. UNCHANGED <<runState, formExists>>
      BY <1>6, <2>3
      DEF EnvironmentNext, BackendNext, ProcessStart, ReplayStart, ConflictStart,
          RefuseStart, PublishResult, SettleForm, RefreshEnds, LateRegistration, backendVars
    <3> QED
      BY <1>1, <3>1
  <2> QED
    BY <2>1, <2>2, <2>3
<1>7. CASE UNCHANGED vars
  BY <1>1, <1>7 DEF vars, backendVars
<1> QED
  BY <1>4, <1>5, <1>6, <1>7 DEF Next, Terminated

\* run_real_research_flow with its fixture and the backend implements
\* FormLifecycle for every setting: runs of the form never overlap, there are at
\* most MaxRounds * (MaxTechnicalRetries + 1) of them, and the form is removed
\* at most once, idle, and never run again.
THEOREM FlowImplementsLifecycle == Spec => ImplementsLifecycle
<1>1. Init => CountInv
  <2> SUFFICES ASSUME Init PROVE CountInv
    OBVIOUS
  <2>1. RunsUsed = 0
    <3>1. {r \in RunIds : runState[r] # "absent"} = {}
      BY DEF Init, BackendInit
    <3> QED
      BY <3>1, FS_EmptySet DEF RunsUsed
  <2>2. StartsAllowed = 1
    BY FlowAssumption DEF Init, StartsAllowed, AllowedAt, FlowAssumption
  <2> QED
    BY <2>1, <2>2 DEF CountInv, Init, BackendInit, ClientInit
<1>2. Init => Lifecycle!Init
  <2> SUFFICES ASSUME Init PROVE Lifecycle!Init
    OBVIOUS
  <2>1. {r \in RunIds : runState[r] # "absent"} = {} /\ ~Busy /\ formExists
    BY DEF Init, BackendInit, Busy, Active
  <2> QED
    BY <2>1, FS_EmptySet DEF Lifecycle!Init, RunsUsed
<1> QED
  BY <1>1, <1>2, FlowInvariant, CountInvNext, LifecycleStep, PTL
  DEF Spec, ImplementsLifecycle, Lifecycle!Spec
=============================================================================
