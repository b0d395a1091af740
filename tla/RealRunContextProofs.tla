------------------------ MODULE RealRunContextProofs ------------------------
(***************************************************************************)
(* The real-run fixture for every number of retries and status reads: when *)
(* a form in use can be without protection, and that starting it twice     *)
(* gives it one run.                                                       *)
(***************************************************************************)
EXTENDS RealRunContext, FiniteSetTheorems, TLAPS

-----------------------------------------------------------------------------
(* The inductive invariant.                                                 *)

\* The requests on the network: one at a time, never forced, and the form stays
\* protected while one is under way.
RequestInv ==
    /\ \A p, q \in net : p = q
    /\ \A q \in net : ~q.fresh /\ q.fb = NoRun
    /\ net # {} => protected /\ pc \in {"first", "second", "end", "closed"}
    /\ net # {} /\ starts = 1 => formRun = NoRun
    /\ waitFor # 0 => pc \in {"first", "second"}
    /\ reply # NoReply => net = {} /\ waitFor # 0
    /\ reply.kind = "created" => formRun # NoRun
    /\ reply.kind \in NotAccepted /\ pc = "first" => formRun = NoRun

\* Where the fixture is tells how many starts it has sent, and that the form
\* has its run by the time it is started again.
PhaseInv ==
    /\ pc = "start" => starts = 0 /\ formRun = NoRun
    /\ pc \in {"first", "again"} => starts = 1
    /\ pc \in {"second", "yield", "poll"} => starts = 2
    /\ pc = "again" => formRun # NoRun
    /\ pc \in {"first", "again", "second", "yield", "poll"} => protected
    /\ starts = 2 => formRun # NoRun

\* The form has one run at most, and its row says it is settled only when it is.
OneRunInv ==
    /\ \A r \in RunIds : runState[r] # "absent" => r = formRun
    /\ formRun # NoRun => runFeedback[formRun] = NoRun
    /\ formRun # NoRun /\ formDone => ~Active(formRun)
    /\ ~formExists => ~Busy

ContextInv == TypeOK /\ RequestInv /\ PhaseInv /\ OneRunInv /\ UnprotectedOnlyByReplay

-----------------------------------------------------------------------------
(* The steps.                                                               *)

\* Before the first start nothing runs and nothing is on its way.
LEMMA ContextInvInit == Init => ContextInv
<1> SUFFICES ASSUME Init PROVE ContextInv
  OBVIOUS
<1> USE BackendAssumption, ContextAssumption
    DEF BackendAssumption, ContextAssumption, Init, BackendInit, ClientInit, NoRun, NoReply
<1>1. TypeOK
  <2>1. /\ runState \in [RunIds -> RunStates]
        /\ runFeedback \in [RunIds -> 0..MaxRuns]
        /\ published \in SUBSET RunIds
        /\ net \in SUBSET Requests
        /\ formRun \in 0..MaxRuns
        /\ waitFor \in 0..MaxStarts
        /\ starts \in 0..MaxStarts
    BY DEF RunStates
  <2>2. formExists \in BOOLEAN /\ formDone \in BOOLEAN /\ protected \in BOOLEAN
    BY Zenon
  <2>3. reply \in Replies /\ refresh \in RefreshStates /\ verdict \in Verdicts
    BY DEF Replies, RefreshStates, Verdicts
  <2>4. run \in 0..MaxRuns /\ transport \in 0..MaxTechnicalRetries /\ budget \in 0..PollBudget
    OBVIOUS
  <2> QED
    BY <2>1, <2>2, <2>3, <2>4 DEF TypeOK, BackendTypeOK, ClientTypeOK
<1>2. RequestInv /\ PhaseInv
  BY DEF RequestInv, PhaseInv, NotAccepted
<1>3. OneRunInv /\ UnprotectedOnlyByReplay
  BY DEF OneRunInv, UnprotectedOnlyByReplay, Busy, Active
<1> QED
  BY <1>1, <1>2, <1>3 DEF ContextInv

\* A start leaves: the first of a form without a run, the second of one whose
\* run is there to be replayed.
LEMMA SendStep ==
  ASSUME ContextInv, StartFirst \/ StartAgain
  PROVE  ContextInv'
<1> USE DEF ContextInv, StartFirst, StartAgain, SendStart, BackendRows
<1>1. PICK q \in Requests : net' = {q} /\ ~q.fresh /\ q.fb = NoRun
  <2>1. net = {}
    BY DEF RequestInv
  <2>2. starts + 1 \in 1..MaxStarts /\ NoRun \in 0..MaxRuns /\ run \in 0..MaxRuns
    BY BackendAssumption DEF BackendAssumption, TypeOK, ClientTypeOK, NoRun
  <2>3. PICK p \in 0..MaxRuns :
          net' = net \cup {[id |-> starts + 1, fresh |-> FALSE, fb |-> NoRun, prev |-> p]}
    BY <2>2
  <2> DEFINE q0 == [id |-> starts + 1, fresh |-> FALSE, fb |-> NoRun, prev |-> p]
  <2>4. q0 \in Requests
    BY <2>2 DEF Requests
  <2>5. net' = {q0} /\ q0.fb = NoRun
    BY <2>1, <2>3
  <2>6. ~q0.fresh
    BY Zenon
  <2> QED
    BY <2>4, <2>5, <2>6
<1>2. TypeOK'
  <2>1. waitFor' \in 0..MaxStarts /\ starts' \in 0..MaxStarts
    BY BackendAssumption DEF BackendAssumption, TypeOK, ClientTypeOK
  <2>2. protected' \in BOOLEAN
    BY Zenon
  <2>3. reply' \in Replies
    BY DEF Replies
  <2> QED
    BY <1>1, <2>1, <2>2, <2>3 DEF TypeOK, BackendTypeOK, ClientTypeOK
<1>3. reply'.kind \notin NotAccepted \cup {"created"}
  BY DEF NoReply, NotAccepted
<1>4. /\ pc = "start" => starts' = 1 /\ formRun = NoRun
      /\ pc = "again" => starts' = 2 /\ formRun # NoRun
  BY DEF PhaseInv, OneRunInv
<1>5. RequestInv'
  BY <1>1, <1>3, <1>4 DEF RequestInv
<1>6. PhaseInv'
  BY <1>4 DEF PhaseInv
<1>7. OneRunInv' /\ UnprotectedOnlyByReplay'
  BY DEF OneRunInv, UnprotectedOnlyByReplay, Busy, Active
<1> QED
  BY <1>2, <1>5, <1>6, <1>7

\* The fixture takes an answer, or gives up on one.
LEMMA AnswerTaken ==
  ASSUME ContextInv,
         FirstCreated \/ FirstFailed \/ ReplayAccepted \/ ReplayFailed
  PROVE  ContextInv'
<1> USE DEF ContextInv
<1>1. /\ UNCHANGED <<BackendRows, net, starts, refresh, transport, budget>>
      /\ waitFor' = 0 /\ reply' = NoReply
      /\ pc \in {"first", "second"}
  BY DEF FirstCreated, FirstFailed, ReplayAccepted, ReplayFailed, Finish,
         StartAnswered, StartUnanswered, clientVars
<1>2. /\ protected' \in BOOLEAN
      /\ ~protected' => ~protected \/ reply.kind \in NotAccepted
  BY Zenon DEF FirstCreated, FirstFailed, ReplayAccepted, ReplayFailed,
               StartAnswered, StartUnanswered, clientVars, TypeOK, ClientTypeOK
<1>3. ~protected' => reply.kind \in NotAccepted
  BY <1>1, <1>2 DEF PhaseInv
<1>4. \/ pc = "first" /\ pc' = "again" /\ reply.kind = "created" /\ run' = reply.run
         /\ verdict' = verdict
      \/ pc = "second" /\ pc' = "yield" /\ reply.kind = "replayed"
         /\ UNCHANGED <<run, verdict>>
      \/ pc' = "end" /\ verdict' = "failed" /\ run' = run
  BY DEF FirstCreated, FirstFailed, ReplayAccepted, ReplayFailed, Finish, StartAnswered
<1>5. TypeOK'
  <2>1. waitFor' \in 0..MaxStarts /\ reply' \in Replies
    BY <1>1, BackendAssumption DEF BackendAssumption, Replies
  <2>2. reply.kind = "created" => reply.run \in 0..MaxRuns
    BY DEF TypeOK, BackendTypeOK, Replies, NoReply
  <2> QED
    BY <1>1, <1>2, <1>4, <2>1, <2>2
    DEF TypeOK, BackendTypeOK, ClientTypeOK, BackendRows, Verdicts
<1>6. reply'.kind \notin NotAccepted \cup {"created"}
  BY <1>1 DEF NoReply, NotAccepted
<1>7. net # {} => protected'
  BY <1>3 DEF RequestInv, NoReply, NotAccepted
<1>8. RequestInv'
  <2>1. net # {} => reply = NoReply
    BY DEF RequestInv
  <2>2. reply.kind \in {"created", "replayed"} => reply # NoReply
    BY DEF NoReply
  <2> QED
    BY <1>1, <1>4, <1>6, <1>7, <2>1, <2>2 DEF RequestInv, BackendRows
<1>9. PhaseInv'
  <2>1. reply.kind \in {"created", "replayed"} => protected'
    BY <1>3 DEF NotAccepted
  <2> QED
    BY <1>1, <1>4, <2>1 DEF PhaseInv, RequestInv, BackendRows
<1>10. OneRunInv' /\ Busy' = Busy
  BY <1>1 DEF OneRunInv, BackendRows, Busy, Active
<1>11. UnprotectedOnlyByReplay'
  <2> SUFFICES ASSUME Busy \/ net # {}, ~protected'
               PROVE  starts = 2 /\ verdict' = "failed"
    BY <1>1, <1>10 DEF UnprotectedOnlyByReplay
  <2>1. reply.kind \in NotAccepted /\ Busy
    BY <1>3, <1>7
  <2>2. formRun # NoRun
    BY <2>1, BackendAssumption DEF Busy, Active, OneRunInv, RunIds, NoRun, BackendAssumption
  <2>3. pc = "second"
    BY <1>1, <2>1, <2>2 DEF RequestInv
  <2> QED
    BY <1>4, <2>1, <2>3 DEF PhaseInv, NotAccepted
<1> QED
  BY <1>5, <1>8, <1>9, <1>10, <1>11

\* The test cases use the context: the form stays as it is.
LEMMA UseStep ==
  ASSUME ContextInv, UseContext \/ PollOnce \/ PollExpired
  PROVE  ContextInv'
<1> USE DEF ContextInv
<1>1. /\ UNCHANGED <<backendVars, clientVars, run>>
      /\ pc \in {"yield", "poll"} /\ pc' \in {"poll", "end"}
      /\ verdict' \in Verdicts
  BY DEF UseContext, PollOnce, PollExpired, Finish, Verdicts, TypeOK
<1>2. transport' \in 0..MaxTechnicalRetries /\ budget' \in 0..PollBudget
  BY ContextAssumption
  DEF ContextAssumption, UseContext, PollOnce, PollExpired, Finish, TypeOK
<1>3. TypeOK'
  BY <1>1, <1>2 DEF TypeOK, BackendTypeOK, ClientTypeOK, backendVars, clientVars
<1>4. RequestInv' /\ PhaseInv'
  BY <1>1 DEF RequestInv, PhaseInv, backendVars, clientVars
<1>5. OneRunInv' /\ UnprotectedOnlyByReplay'
  BY <1>1 DEF OneRunInv, UnprotectedOnlyByReplay, PhaseInv, Busy, Active, backendVars, clientVars
<1> QED
  BY <1>3, <1>4, <1>5

\* The fixture's cleanup removes a form only when its row says that its run has
\* ended, and then it has.
LEMMA CloseStep ==
  ASSUME ContextInv, CloseContext
  PROVE  ContextInv'
<1> USE DEF ContextInv, CloseContext, Cleanup, MayDelete, clientVars
<1>1. formExists' \in BOOLEAN
  BY Zenon DEF TypeOK, BackendTypeOK
<1>2. ~formExists' => ~formExists \/ ~HasActivePipelineRun
  BY Zenon
<1>3. Busy' = Busy /\ pc = "end" /\ pc' = "closed"
  BY DEF Busy, Active
<1>4. TypeOK'
  BY <1>1 DEF TypeOK, BackendTypeOK, ClientTypeOK
<1>5. RequestInv' /\ PhaseInv'
  BY <1>3 DEF RequestInv, PhaseInv
<1>6. ~HasActivePipelineRun => ~Busy
  BY BackendAssumption
  DEF HasActivePipelineRun, OneRunInv, Busy, Active, NoRun, RunIds, BackendAssumption
<1>7. OneRunInv'
  BY <1>2, <1>3, <1>6 DEF OneRunInv, Active
<1>8. UnprotectedOnlyByReplay'
  BY <1>3 DEF UnprotectedOnlyByReplay
<1> QED
  BY <1>4, <1>5, <1>7, <1>8

\* The backend answers a start without creating a run.
LEMMA AnsweredStep ==
  ASSUME ContextInv, NEW q \in net, NEW kind \in ReplyKinds \ {"created"}, NEW r \in 0..MaxRuns,
         Answer(q, kind, r), UNCHANGED <<BackendRows, clientVars, contextVars>>
  PROVE  ContextInv'
<1> USE DEF ContextInv, BackendRows, clientVars, contextVars
<1>1. net' = {} /\ reply = NoReply /\ waitFor' = waitFor /\ q.id # 0
  BY BackendAssumption
  DEF Answer, RequestInv, BackendAssumption, TypeOK, BackendTypeOK, Requests
<1>2. reply' = NoReply \/ (reply' = [kind |-> kind, run |-> r] /\ waitFor = q.id)
  BY <1>1 DEF Answer
<1>3. TypeOK'
  BY <1>1, <1>2 DEF TypeOK, BackendTypeOK, ClientTypeOK, Replies
<1>4. RequestInv'
  <2>1. NoReply.kind \notin NotAccepted \cup {"created"}
    BY DEF NoReply, NotAccepted
  <2>2. pc = "first" => formRun = NoRun
    BY DEF RequestInv, PhaseInv
  <2> QED
    BY <1>1, <1>2, <2>1, <2>2 DEF RequestInv
<1>5. PhaseInv' /\ OneRunInv' /\ UnprotectedOnlyByReplay'
  BY <1>1 DEF PhaseInv, OneRunInv, UnprotectedOnlyByReplay, Busy, Active
<1> QED
  BY <1>3, <1>4, <1>5

\* The backend accepts a start.  Only the first start can be accepted: by the
\* second the form has a run that answers the same (empty) feedback.
LEMMA AcceptFacts ==
  ASSUME ContextInv, NEW q \in net, AcceptStart(q)
  PROVE  /\ formRun = NoRun /\ starts # 2 /\ net' = {} /\ formExists /\ formExists'
         /\ \A s \in RunIds : runState[s] = "absent"
         /\ \E r \in RunIds : runState' = [runState EXCEPT ![r] = "active"]
<1> USE DEF ContextInv
<1>1. formRun = NoRun
  BY DEF AcceptStart, CreatesRun, RequestInv, OneRunInv
<1>2. net' = {} /\ formExists /\ formExists'
  BY DEF AcceptStart, Answer, RequestInv
<1>3. starts # 2
  BY <1>1 DEF PhaseInv
<1>4. \A s \in RunIds : runState[s] = "absent"
  BY <1>1, BackendAssumption DEF OneRunInv, RunIds, NoRun, BackendAssumption
<1>5. \E r \in RunIds : runState' = [runState EXCEPT ![r] = "active"]
  BY DEF AcceptStart
<1> QED
  BY <1>1, <1>2, <1>3, <1>4, <1>5

\* The run it creates is the form's only one, and the form is protected.
LEMMA AcceptStep ==
  ASSUME ContextInv, NEW q \in net, AcceptStart(q), UNCHANGED <<clientVars, contextVars>>
  PROVE  ContextInv'
<1> USE DEF ContextInv, clientVars, contextVars
<1>1. PICK r \in RunIds :
        /\ runState' = [runState EXCEPT ![r] = "active"]
        /\ runFeedback' = [runFeedback EXCEPT ![r] = q.fb]
        /\ formRun' = r
        /\ formDone' = FALSE
        /\ \E kind \in {"created", "error", "malformed"} : Answer(q, kind, r)
  BY DEF AcceptStart
<1>2. PICK kind \in {"created", "error", "malformed"} : Answer(q, kind, r)
  BY <1>1
<1>3. /\ formRun = NoRun /\ starts # 2 /\ net' = {}
      /\ formExists /\ formExists' = formExists /\ published' = published
      /\ \A s \in RunIds : runState[s] = "absent"
  BY AcceptFacts DEF AcceptStart
<1>4. r # NoRun /\ r \in 0..MaxRuns
  BY BackendAssumption DEF BackendAssumption, RunIds, NoRun
<1>5. reply = NoReply /\ waitFor' = waitFor /\ q.id # 0 /\ q.fb = NoRun /\ protected
  BY <1>2, BackendAssumption
  DEF Answer, RequestInv, BackendAssumption, TypeOK, BackendTypeOK, Requests
<1>6. reply' = NoReply \/ (reply' = [kind |-> kind, run |-> r] /\ waitFor = q.id)
  BY <1>2, <1>5 DEF Answer
<1>7. TypeOK'
  <2>1. reply' \in Replies
    BY <1>4, <1>6 DEF Replies, ReplyKinds
  <2>2. q.fb \in 0..MaxRuns
    BY DEF TypeOK, BackendTypeOK, Requests
  <2>3. runState' \in [RunIds -> RunStates] /\ runFeedback' \in [RunIds -> 0..MaxRuns]
    BY <1>1, <2>2 DEF TypeOK, BackendTypeOK, RunStates
  <2>4. formDone' \in BOOLEAN
    BY <1>1, Zenon
  <2>5. net' \in SUBSET Requests /\ formRun' \in 0..MaxRuns
    BY <1>1, <1>3, <1>4
  <2> QED
    BY <1>3, <1>5, <2>1, <2>3, <2>4, <2>5 DEF TypeOK, BackendTypeOK, ClientTypeOK
<1>8. RequestInv'
  <2>1. reply'.kind \notin NotAccepted
    BY <1>6 DEF NoReply, NotAccepted
  <2> QED
    BY <1>1, <1>3, <1>4, <1>5, <1>6, <2>1 DEF RequestInv
<1>9. PhaseInv'
  BY <1>1, <1>3, <1>4 DEF PhaseInv, RequestInv
<1>10. OneRunInv'
  <2>1. \A s \in RunIds : runState'[s] # "absent" => s = r
    BY <1>1, <1>3 DEF TypeOK, BackendTypeOK
  <2>2. runFeedback'[r] = NoRun
    BY <1>1, <1>5 DEF TypeOK, BackendTypeOK
  <2>3. ~formDone'
    BY <1>1
  <2> QED
    BY <1>1, <1>3, <2>1, <2>2, <2>3 DEF OneRunInv
<1>11. UnprotectedOnlyByReplay'
  BY <1>5 DEF UnprotectedOnlyByReplay
<1> QED
  BY <1>7, <1>8, <1>9, <1>10, <1>11

\* The run moves on, and the form's row follows it.
LEMMA ProgressStep ==
  ASSUME ContextInv,
         \/ \E r \in RunIds : CompleteRun(r) \/ FailRun(r) \/ PublishResult(r)
         \/ SettleForm,
         UNCHANGED <<clientVars, contextVars>>
  PROVE  ContextInv'
<1> USE DEF ContextInv, clientVars, contextVars
<1>1. UNCHANGED <<net, waitFor, reply, formRun, formExists, runFeedback>>
  BY DEF CompleteRun, FailRun, PublishResult, SettleForm
<1>2. \A s \in RunIds : Active(s)' => Active(s)
  BY DEF CompleteRun, FailRun, PublishResult, SettleForm, Active, TypeOK, BackendTypeOK
<1>3. \A s \in RunIds : runState'[s] # "absent" => runState[s] # "absent"
  BY DEF CompleteRun, FailRun, PublishResult, SettleForm, Active, TypeOK, BackendTypeOK
<1>4. formDone' = formDone \/ (formDone' = TRUE /\ ~Active(formRun))
  BY DEF CompleteRun, FailRun, PublishResult, SettleForm
<1>5. TypeOK'
  <2>1. formDone' \in BOOLEAN
    BY <1>4, Zenon DEF TypeOK, BackendTypeOK
  <2>2. runState' \in [RunIds -> RunStates] /\ published' \in SUBSET RunIds
    BY DEF CompleteRun, FailRun, PublishResult, SettleForm, TypeOK, BackendTypeOK, RunStates
  <2> QED
    BY <1>1, <2>1, <2>2 DEF TypeOK, BackendTypeOK, ClientTypeOK
<1>6. RequestInv' /\ PhaseInv'
  BY <1>1 DEF RequestInv, PhaseInv
<1>7. OneRunInv'
  <2>1. formRun # NoRun => formRun \in RunIds
    BY BackendAssumption DEF BackendAssumption, TypeOK, BackendTypeOK, RunIds, NoRun
  <2>2. (formRun # NoRun /\ formDone => ~Active(formRun))'
    BY <1>1, <1>2, <1>4, <2>1 DEF OneRunInv
  <2> QED
    BY <1>1, <1>2, <1>3, <2>2 DEF OneRunInv, Busy
<1>8. UnprotectedOnlyByReplay'
  BY <1>1, <1>2 DEF UnprotectedOnlyByReplay, Busy
<1> QED
  BY <1>5, <1>6, <1>7, <1>8

\* Every step of the backend.
LEMMA BackendStep ==
  ASSUME ContextInv, BackendNext, UNCHANGED <<clientVars, contextVars>>
  PROVE  ContextInv'
<1>1. ASSUME NEW q \in net, ProcessStart(q)
      PROVE  ContextInv'
  <2>1. CASE AcceptStart(q)
    BY <2>1, AcceptStep
  <2>2. CASE ReplayStart(q) \/ ConflictStart(q) \/ RefuseStart(q)
    <3>1. PICK kind \in ReplyKinds \ {"created"}, r \in 0..MaxRuns : Answer(q, kind, r)
      BY <2>2, BackendAssumption
      DEF ReplayStart, ConflictStart, RefuseStart, ReplyKinds, NoRun, RunIds,
          BackendAssumption, ContextInv, TypeOK, BackendTypeOK
    <3>2. UNCHANGED BackendRows
      BY <2>2 DEF ReplayStart, ConflictStart, RefuseStart, BackendRows
    <3> QED
      BY <3>1, <3>2, AnsweredStep
  <2> QED
    BY <1>1, <2>1, <2>2 DEF ProcessStart
<1> QED
  BY <1>1, ProgressStep DEF BackendNext

\* Every step of the fixture and of the backend preserves the invariant.
LEMMA ContextInvNext == ContextInv /\ [Next]_vars => ContextInv'
<1> SUFFICES ASSUME ContextInv, [Next]_vars PROVE ContextInv'
  OBVIOUS
<1>1. CASE FixtureNext
  BY <1>1, SendStep, AnswerTaken, UseStep, CloseStep DEF FixtureNext
<1>2. CASE BackendNext /\ UNCHANGED <<clientVars, contextVars>>
  BY <1>2, BackendStep
<1>3. CASE UNCHANGED vars
  <2> USE <1>3 DEF vars, backendVars, clientVars, contextVars, ContextInv
  <2>1. TypeOK'
    BY DEF TypeOK, BackendTypeOK, ClientTypeOK
  <2>2. RequestInv' /\ PhaseInv'
    BY DEF RequestInv, PhaseInv
  <2>3. OneRunInv' /\ UnprotectedOnlyByReplay'
    BY DEF OneRunInv, UnprotectedOnlyByReplay, Busy, Active
  <2> QED
    BY <2>1, <2>2, <2>3
<1> QED
  BY <1>1, <1>2, <1>3 DEF Next, Terminated

-----------------------------------------------------------------------------
(* The theorems.                                                            *)

\* The inductive invariant holds in every reachable state of the fixture.
THEOREM ContextInvariant == Spec => []ContextInv
BY ContextInvInit, ContextInvNext, PTL DEF Spec

\* A form in use is without protection only after its repeated start was refused,
\* and then the fixture has failed: no lost answer, 5xx, poll time-out or late
\* start releases it, for any number of retries and status reads.
THEOREM ReplayIsTheOnlyRelease == Spec => []UnprotectedOnlyByReplay
BY ContextInvariant, PTL DEF ContextInv

\* One step of the fixture is one step of the form's life, or none that shows.
LEMMA LifecycleStep ==
  ContextInv /\ ContextInv' /\ [Next]_vars => [Lifecycle!Next]_(Lifecycle!lifecycleVars)
<1> SUFFICES ASSUME ContextInv, ContextInv', [Next]_vars
             PROVE  [Lifecycle!Next]_(Lifecycle!lifecycleVars)
  OBVIOUS
<1> USE DEF ContextInv, Lifecycle!Next, Lifecycle!lifecycleVars
<1> DEFINE Used == {r \in RunIds : runState[r] # "absent"}
<1>1. ASSUME UNCHANGED <<runState, formExists>>
      PROVE  UNCHANGED Lifecycle!lifecycleVars
  <2>1. Used' = Used /\ Busy' = Busy
    BY <1>1 DEF Busy, Active
  <2> QED
    BY <1>1, <2>1
<1>2. ASSUME NEW q \in net, AcceptStart(q)
      PROVE  Lifecycle!StartRun
  <2>1. PICK r \in RunIds : runState' = [runState EXCEPT ![r] = "active"]
    BY <1>2, AcceptFacts
  <2>2. Used = {} /\ Used' = {r} /\ ~Busy /\ Busy' /\ formExists /\ formExists'
    BY <1>2, <2>1, AcceptFacts DEF TypeOK, BackendTypeOK, Busy, Active
  <2>3. Cardinality(Used) = 0 /\ Cardinality(Used') = 1
    BY <2>2, FS_EmptySet, FS_Singleton
  <2> QED
    BY <2>2, <2>3 DEF Lifecycle!StartRun
<1>3. ASSUME NEW r \in RunIds, CompleteRun(r) \/ FailRun(r)
      PROVE  [Lifecycle!Next]_(Lifecycle!lifecycleVars)
  <2>1. /\ Used' = Used /\ formExists' = formExists
        /\ runState[r] # "absent" /\ ~Active(r)'
    BY <1>3 DEF CompleteRun, FailRun, Active, TypeOK, BackendTypeOK
  <2>2. ~Busy'
    BY <1>3, <2>1 DEF Busy, Active, OneRunInv, CompleteRun, FailRun, TypeOK, BackendTypeOK
  <2>3. CASE Busy
    <3>1. formExists
      BY <2>3 DEF OneRunInv
    <3> QED
      BY <2>1, <2>2, <2>3, <3>1 DEF Lifecycle!EndRun
  <2>4. CASE ~Busy
    BY <2>1, <2>2, <2>4
  <2> QED
    BY <2>3, <2>4
<1>4. ASSUME CloseContext
      PROVE  [Lifecycle!Next]_(Lifecycle!lifecycleVars)
  <2>1. Used' = Used /\ Busy' = Busy
    BY <1>4 DEF CloseContext, Cleanup, Busy, Active
  <2>2. formExists \in BOOLEAN /\ formExists' \in BOOLEAN
    BY DEF TypeOK, BackendTypeOK
  <2>3. formExists' => formExists
    BY <1>4 DEF CloseContext, Cleanup
  <2>4. CASE formExists' = formExists
    BY <2>1, <2>4
  <2>5. CASE formExists /\ ~formExists'
    <3>1. ~Busy'
      BY <2>5 DEF OneRunInv
    <3> QED
      BY <2>1, <2>5, <3>1 DEF Lifecycle!Remove
  <2> QED
    BY <2>2, <2>3, <2>4, <2>5
<1>5. CASE FixtureNext /\ ~CloseContext
  <2>1. UNCHANGED <<runState, formExists>>
    BY <1>5
    DEF FixtureNext, StartFirst, StartAgain, SendStart, FirstCreated, FirstFailed,
        ReplayAccepted, ReplayFailed, StartAnswered, StartUnanswered, UseContext,
        PollOnce, PollExpired, BackendRows, backendVars
  <2> QED
    BY <1>1, <2>1
<1>6. CASE BackendNext
  <2>1. CASE \E q \in net : AcceptStart(q)
    BY <1>2, <2>1
  <2>2. CASE \E r \in RunIds : CompleteRun(r) \/ FailRun(r)
    BY <1>3, <2>2
  <2>3. CASE /\ ~\E q \in net : AcceptStart(q)
             /\ ~\E r \in RunIds : CompleteRun(r) \/ FailRun(r)
    <3>1. UNCHANGED <<runState, formExists>>
      BY <1>6, <2>3
      DEF BackendNext, ProcessStart, ReplayStart, ConflictStart, RefuseStart,
          PublishResult, SettleForm
    <3> QED
      BY <1>1, <3>1
  <2> QED
    BY <2>1, <2>2, <2>3
<1>7. CASE UNCHANGED vars
  BY <1>1, <1>7 DEF vars, backendVars
<1> QED
  BY <1>4, <1>5, <1>6, <1>7 DEF Next, Terminated

\* Starting the same form twice gives one run: whatever is lost, refused or
\* processed late, the fixture implements FormLifecycle with a single run.
THEOREM ContextImplementsLifecycle == Spec => ImplementsLifecycle
<1>1. Init => Lifecycle!Init
  <2> SUFFICES ASSUME Init PROVE Lifecycle!Init
    OBVIOUS
  <2>1. {r \in RunIds : runState[r] # "absent"} = {} /\ ~Busy /\ formExists
    BY DEF Init, BackendInit, Busy, Active
  <2> QED
    BY <2>1, FS_EmptySet DEF Lifecycle!Init
<1> QED
  BY <1>1, ContextInvariant, LifecycleStep, PTL
  DEF Spec, ImplementsLifecycle, Lifecycle!Spec
=============================================================================
