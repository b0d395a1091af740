------------------------- MODULE RegistrationProofs -------------------------
(***************************************************************************)
(* The registration stage for every number of registrations, retries and   *)
(* polls: what a pass means, and that the stage ends inside the set of     *)
(* results ResearchFlow takes as its effect.                               *)
(***************************************************************************)
EXTENDS Registration, TLAPS

-----------------------------------------------------------------------------
(* The inductive invariant.                                                 *)

\* The wire: the last request sent, answered or not, and an answer only to it.
WireInv ==
    /\ net \subseteq {sent}
    /\ reply # NoReply => net = {} /\ pc \in {"first", "second"}
    /\ pc \in {"check", "poll", "detail", "evidence"} => net = {}
    /\ pc = "send" => sent = 0
    /\ pc \in {"first", "check"} => sent = 1
    /\ net # {} => sent # 0

\* The registrations: numbered without gaps, and an accepting answer names one.
RegsInv ==
    /\ \A k \in Regs : task[k] = "absent" <=> k > regs
    /\ reply.kind \in {"created", "replayed", "unsubmitted"} => reply.reg \in 1..regs
    /\ pc \in {"check", "second", "poll", "detail", "evidence"} => first \in 1..regs

\* The repeated request: while it is under way the first answer names the last
\* registration, and it still does if the second answer names the same one.
SameInv ==
    /\ pc = "second" /\ net # {} => first = regs
    /\ pc = "second" /\ reply # NoReply /\ reply.reg = first => first = regs
    /\ pc \in {"poll", "detail", "evidence"} => first = regs

\* What each stage has established stays true.
StageInv ==
    /\ pc \in {"send", "first", "check", "second", "poll"} => polls < MaxRefreshPolls
    /\ pc \in {"detail", "evidence"} => task[first] = "completed"
    /\ pc = "evidence" => first \in shown

\* How the method ends.
EndInv ==
    /\ pc = "done" <=> outcome # Undecided
    /\ outcome # "PASS_INVALID"
    /\ net # {} /\ pc = "done" => outcome = "FAIL_TECHNICAL"
    /\ PassMeansRefreshed

RegistrationInv == TypeOK /\ WireInv /\ RegsInv /\ SameInv /\ StageInv /\ EndInv

-----------------------------------------------------------------------------
(* The steps.                                                               *)

\* Nothing has been sent yet; the report may have been registered before.
LEMMA RegistrationInvInit == Init => RegistrationInv
<1> SUFFICES ASSUME Init PROVE RegistrationInv
  OBVIOUS
<1> USE RegistrationAssumption DEF RegistrationAssumption, Init, None, NoReply, Undecided
<1>1. TypeOK
  <2>1. regs \in 0..MaxRegistrations /\ first \in 0..MaxRegistrations
        /\ sent \in 0..2 /\ polls \in 0..MaxRefreshPolls /\ attempt \in 0..MaxTechnicalRetries
    OBVIOUS
  <2> QED
    BY <2>1 DEF TypeOK, Replies
<1>2. WireInv /\ SameInv /\ StageInv
  BY DEF WireInv, SameInv, StageInv
<1>3. RegsInv
  BY DEF RegsInv
<1>4. EndInv
  BY DEF EndInv, PassMeansRefreshed
<1> QED
  BY <1>1, <1>2, <1>3, <1>4 DEF RegistrationInv

\* The method ends with a failure: a request that nobody answered may still be
\* on its way, and then the failure is a technical one.
LEMMA FailStep ==
  ASSUME RegistrationInv, NEW o \in Failures, Raise(o), pc # "done",
         UNCHANGED <<registrarVars, net>>, reply' = NoReply,
         net = {} \/ o = "FAIL_TECHNICAL"
  PROVE  RegistrationInv'
<1> USE DEF RegistrationInv, Raise, registrarVars, localVars
<1>1. TypeOK'
  BY DEF TypeOK, Replies, Outcomes
<1>2. reply'.kind \notin {"created", "replayed", "unsubmitted"}
  BY DEF NoReply
<1>3. WireInv' /\ SameInv' /\ StageInv'
  BY DEF WireInv, SameInv, StageInv
<1>4. RegsInv'
  BY <1>2 DEF RegsInv
<1>5. EndInv'
  BY DEF EndInv, PassMeansRefreshed, Failures, Undecided
<1> QED
  BY <1>1, <1>3, <1>4, <1>5

\* A request leaves when no other is under way; the second only while the first
\* answer still names the last registration.
LEMMA SendStep ==
  ASSUME RegistrationInv,
         \/ pc = "send" /\ Send("first")
         \/ pc = "check" /\ first = regs /\ Send("second")
  PROVE  RegistrationInv'
<1> USE DEF RegistrationInv, Send, registrarVars
<1>1. net = {} /\ sent \in {0, 1} /\ (pc = "send" => sent = 0) /\ (pc = "check" => sent = 1)
  BY DEF WireInv, TypeOK
<1>2. net' = {sent'} /\ sent' \in {1, 2} /\ (pc' = "first" => sent' = 1)
  BY <1>1
<1>3. TypeOK'
  BY <1>2 DEF TypeOK, Replies
<1>4. reply'.kind \notin {"created", "replayed", "unsubmitted"}
  BY DEF NoReply
<1>5. WireInv'
  BY <1>2 DEF WireInv
<1>6. RegsInv' /\ SameInv' /\ StageInv'
  BY <1>4 DEF RegsInv, SameInv, StageInv
<1>7. EndInv'
  BY DEF EndInv, PassMeansRefreshed, Undecided
<1> QED
  BY <1>3, <1>5, <1>6, <1>7

\* An answer is accepted: the first names a registration, the second the same.
LEMMA AcceptAnswerStep ==
  ASSUME RegistrationInv, reply # NoReply, reply' = NoReply,
         UNCHANGED <<registrarVars, net, sent, polls, attempt, outcome>>,
         \/ /\ pc = "first" /\ pc' = "check" /\ reply.kind \in {"created", "replayed"}
            /\ first' = reply.reg
         \/ /\ pc = "second" /\ pc' = "poll" /\ reply.reg = first /\ first' = first
  PROVE  RegistrationInv'
<1> USE DEF RegistrationInv, registrarVars
<1>1. first' \in 1..regs /\ regs \in 0..MaxRegistrations
  BY DEF RegsInv, TypeOK
<1>2. first' \in 0..MaxRegistrations
  BY <1>1, RegistrationAssumption DEF RegistrationAssumption
<1>3. TypeOK'
  BY <1>2 DEF TypeOK, Replies
<1>4. reply'.kind \notin {"created", "replayed", "unsubmitted"} /\ net = {}
  BY DEF NoReply, WireInv
<1>5. WireInv' /\ StageInv'
  BY <1>4 DEF WireInv, StageInv
<1>6. RegsInv' /\ SameInv'
  BY <1>1, <1>4 DEF RegsInv, SameInv
<1>7. EndInv'
  BY DEF EndInv, PassMeansRefreshed, Undecided
<1> QED
  BY <1>3, <1>5, <1>6, <1>7

\* The method goes on reading: a stage keeps what it has, and the next one is
\* entered with what the read has shown.
LEMMA ReadOnStep ==
  ASSUME RegistrationInv, UNCHANGED <<registrarVars, wireVars, first, sent, outcome>>,
         polls' \in 0..MaxRefreshPolls, attempt' \in 0..MaxTechnicalRetries,
         \/ pc = "poll" /\ pc' = "poll" /\ polls' < MaxRefreshPolls
         \/ pc = "poll" /\ pc' = "detail" /\ task[first] = "completed"
         \/ pc = "detail" /\ pc' = "detail"
         \/ pc = "detail" /\ pc' = "evidence" /\ first \in shown
         \/ pc = "evidence" /\ pc' = "evidence"
  PROVE  RegistrationInv'
<1> USE DEF RegistrationInv, registrarVars, wireVars
<1>1. TypeOK'
  BY DEF TypeOK
<1>2. WireInv' /\ RegsInv'
  BY DEF WireInv, RegsInv
<1>3. SameInv' /\ StageInv'
  BY DEF SameInv, StageInv, WireInv
<1>4. EndInv'
  BY DEF EndInv, PassMeansRefreshed, Undecided
<1> QED
  BY <1>1, <1>2, <1>3, <1>4

\* The method passes: all that was read is still true.
LEMMA PassStep ==
  ASSUME RegistrationInv, pc = "evidence", first \in stored, Raise("PASS_REGISTERED"),
         UNCHANGED <<registrarVars, wireVars>>
  PROVE  RegistrationInv'
<1> USE DEF RegistrationInv, Raise, registrarVars, wireVars, localVars
<1>1. TypeOK'
  BY DEF TypeOK, Outcomes
<1>2. WireInv' /\ RegsInv'
  BY DEF WireInv, RegsInv
<1>3. SameInv' /\ StageInv'
  BY DEF SameInv, StageInv
<1>4. EndInv'
  BY DEF EndInv, PassMeansRefreshed, Undecided, SameInv, StageInv, WireInv
<1> QED
  BY <1>1, <1>2, <1>3, <1>4

\* Every step of the method.
LEMMA MethodStep ==
  ASSUME RegistrationInv, MethodNext
  PROVE  RegistrationInv'
<1> USE DEF RegistrationInv
<1>0. /\ polls \in Nat /\ attempt \in Nat /\ MaxRefreshPolls \in Nat /\ MaxTechnicalRetries \in Nat
      /\ polls <= MaxRefreshPolls /\ attempt <= MaxTechnicalRetries
  BY RegistrationAssumption DEF RegistrationAssumption, TypeOK
<1>1. pc \notin {"first", "second"} => reply = NoReply
  BY DEF WireInv
<1>2. reply # NoReply => net = {}
  BY DEF WireInv
<1>3. CASE SendFirst
  BY <1>3, SendStep DEF SendFirst
<1>4. CASE NotReady
  <2>1. net = {}
    BY <1>4 DEF NotReady, WireInv
  <2> QED
    BY <1>1, <1>4, <2>1, FailStep DEF NotReady, Failures, wireVars
<1>5. CASE Unanswered
  BY <1>5, FailStep DEF Unanswered, Failures
<1>6. CASE FirstAnswer
  <2>1. CASE pc' = "check"
    BY <1>6, <2>1, AcceptAnswerStep DEF FirstAnswer, Raise, Refused
  <2>2. CASE pc' # "check"
    <3>1. PICK o \in Failures : Raise(o)
      BY <1>6, <2>2 DEF FirstAnswer, Refused, Failures
    <3> QED
      BY <1>2, <1>6, <3>1, FailStep DEF FirstAnswer
  <2> QED
    BY <2>1, <2>2
<1>7. CASE CheckRows
  <2>1. CASE first = regs /\ Send("second")
    BY <1>7, <2>1, SendStep DEF CheckRows
  <2>2. CASE ~(first = regs /\ Send("second"))
    <3>1. net = {}
      BY <1>7 DEF CheckRows, WireInv
    <3>2. PICK o \in Failures : Raise(o)
      BY <1>7, <2>2 DEF CheckRows, Failures
    <3> QED
      BY <1>1, <1>7, <2>2, <3>1, <3>2, FailStep DEF CheckRows, wireVars
  <2> QED
    BY <2>1, <2>2
<1>8. CASE ReplayAnswer
  <2>1. CASE pc' = "poll"
    BY <1>8, <2>1, AcceptAnswerStep DEF ReplayAnswer, Raise, Refused, localVars
  <2>2. CASE pc' # "poll"
    <3>1. PICK o \in Failures : Raise(o)
      BY <1>8, <2>2 DEF ReplayAnswer, Refused, Failures
    <3> QED
      BY <1>2, <1>8, <3>1, FailStep DEF ReplayAnswer
  <2> QED
    BY <2>1, <2>2
<1>9. CASE PollPerformanceRefresh
  <2>0. pc = "poll" /\ UNCHANGED <<registrarVars, wireVars>> /\ net = {} /\ reply = NoReply
        /\ polls < MaxRefreshPolls
    BY <1>9, <1>1
    DEF PollPerformanceRefresh, PollUnavailable, PollActive, PollCompleted, PollFailed,
        PollRejected, WireInv, StageInv
  <2>1. CASE PollUnavailable \/ PollActive
    <3>1. PICK isTransport \in BOOLEAN : KeepPolling(isTransport)
      BY <2>1 DEF PollUnavailable, PollActive
    <3>2. polls' \in 0..MaxRefreshPolls
      BY <1>0, <2>0, <3>1 DEF KeepPolling
    <3>3. CASE pc' = "poll"
      BY <1>0, <2>0, <3>1, <3>2, <3>3, ReadOnStep DEF KeepPolling, TypeOK
    <3>4. CASE pc' # "poll"
      <4> USE DEF registrarVars, wireVars
      <4>1. /\ pc' = "done" /\ outcome' \in {"FAIL_TECHNICAL", "FAIL_REFRESH"}
            /\ UNCHANGED <<first, sent, attempt>>
        BY <3>1, <3>4 DEF KeepPolling
      <4>2. TypeOK'
        BY <2>0, <3>2, <4>1 DEF TypeOK, Outcomes, Failures
      <4>3. WireInv' /\ RegsInv'
        BY <2>0, <4>1 DEF WireInv, RegsInv
      <4>4. SameInv' /\ StageInv'
        BY <2>0, <4>1 DEF SameInv, StageInv
      <4>5. EndInv'
        BY <2>0, <4>1 DEF EndInv, PassMeansRefreshed, Undecided
      <4> QED
        BY <4>2, <4>3, <4>4, <4>5
    <3> QED
      BY <3>3, <3>4
  <2>2. CASE PollCompleted
    BY <1>0, <2>0, <2>2, ReadOnStep DEF PollCompleted, RefreshCompleted, TypeOK
  <2>3. CASE PollFailed \/ PollRejected
    BY <2>0, <2>3, FailStep DEF PollFailed, PollRejected, Failures, wireVars
  <2> QED
    BY <1>9, <2>1, <2>2, <2>3 DEF PollPerformanceRefresh
<1>10. CASE VerifyRegisteredSubFactor \/ VerifyDatabaseRefreshEvidence
  <2>0. /\ pc \in {"detail", "evidence"} /\ UNCHANGED <<registrarVars, wireVars>>
        /\ net = {} /\ reply = NoReply
    BY <1>1, <1>10 DEF VerifyRegisteredSubFactor, VerifyDatabaseRefreshEvidence, WireInv
  <2>1. CASE \E o \in Failures : Raise(o)
    BY <2>0, <2>1, FailStep DEF wireVars
  <2>2. CASE ~\E o \in Failures : Raise(o)
    <3>1. CASE pc = "evidence" /\ first \in stored /\ Raise("PASS_REGISTERED")
      BY <2>0, <3>1, PassStep
    <3>2. CASE \/ /\ attempt < MaxTechnicalRetries /\ attempt' = attempt + 1
                  /\ UNCHANGED <<pc, first, sent, polls, outcome>>
               \/ /\ pc = "detail" /\ first \in shown /\ pc' = "evidence" /\ attempt' = 0
                  /\ UNCHANGED <<first, sent, polls, outcome>>
      <4>1. attempt' \in 0..MaxTechnicalRetries /\ polls' \in 0..MaxRefreshPolls
        BY <1>0, <3>2
      <4> QED
        BY <2>0, <3>2, <4>1, ReadOnStep
    <3> QED
      BY <1>10, <2>2, <3>1, <3>2
      DEF VerifyRegisteredSubFactor, VerifyDatabaseRefreshEvidence, RetryOr, Failures
  <2> QED
    BY <2>1, <2>2
<1> QED
  BY <1>3, <1>4, <1>5, <1>6, <1>7, <1>8, <1>9, <1>10 DEF MethodNext

\* The backend takes a request and answers it for registration k; regs may have
\* grown by the one it created.
LEMMA RespondStep ==
  ASSUME RegistrationInv, NEW q \in net, NEW kind \in ReplyKinds, NEW k \in 0..MaxRegistrations,
         Respond(q, kind, k),
         kind \in {"created", "replayed", "unsubmitted"} => k \in 1..regs',
         \/ UNCHANGED <<regs, task>>
         \/ /\ regs' = regs + 1 /\ regs < MaxRegistrations /\ k = regs + 1
            /\ task' \in [Regs -> TaskStates]
            /\ \A j \in Regs : j # regs + 1 => task'[j] = task[j]
            /\ task'[regs + 1] # "absent",
         UNCHANGED <<shown, stored, pc, localVars, outcome>>
  PROVE  RegistrationInv'
<1> USE DEF RegistrationInv, localVars
<1>0. regs \in Nat /\ regs' \in 0..MaxRegistrations /\ MaxRegistrations \in Nat /\ regs <= regs'
  BY RegistrationAssumption DEF RegistrationAssumption, TypeOK
<1>1. net' = {} /\ reply = NoReply /\ q = sent
  BY DEF Respond, WireInv
<1>2. \/ reply' = NoReply
      \/ reply' = [kind |-> kind, reg |-> k] /\ pc \in {"first", "second"}
  BY <1>1 DEF Respond
<1>3. TypeOK'
  BY <1>0, <1>1, <1>2 DEF TypeOK, Replies
<1>4. WireInv'
  BY <1>1, <1>2 DEF WireInv
<1>5. RegsInv'
  <2>1. \A j \in Regs : task'[j] = "absent" <=> j > regs'
    BY <1>0 DEF RegsInv, Regs
  <2>2. reply'.kind \in {"created", "replayed", "unsubmitted"} => reply'.reg \in 1..regs'
    BY <1>2 DEF NoReply
  <2>3. pc \in {"check", "second", "poll", "detail", "evidence"} => first \in 1..regs'
    BY <1>0 DEF RegsInv
  <2> QED
    BY <2>1, <2>2, <2>3 DEF RegsInv
<1>6. pc \in {"first", "second", "done"}
  BY DEF WireInv, TypeOK
<1>7. SameInv'
  <2>1. pc = "second" => first = regs
    BY DEF SameInv
  <2>2. pc = "second" /\ reply' # NoReply /\ reply'.reg = first => first = regs'
    BY <1>0, <1>2, <2>1 DEF NoReply
  <2> QED
    BY <1>1, <1>6, <2>2 DEF SameInv
<1>8. StageInv'
  BY <1>6 DEF StageInv
<1>9. EndInv'
  BY <1>1 DEF EndInv, PassMeansRefreshed, Undecided
<1> QED
  BY <1>3, <1>4, <1>5, <1>7, <1>8, <1>9

\* Every step of the backend.
LEMMA RegistrarStep ==
  ASSUME RegistrationInv, RegistrarNext
  PROVE  RegistrationInv'
<1> USE DEF RegistrationInv
<1>0. regs \in Nat /\ regs <= MaxRegistrations /\ MaxRegistrations \in Nat
  BY RegistrationAssumption DEF RegistrationAssumption, TypeOK
<1>1. ASSUME NEW q \in net, Register(q), UNCHANGED <<pc, localVars, outcome>>
      PROVE  RegistrationInv'
  <2>1. PICK kind \in ReplyKinds, st \in {"active", "unsubmitted"} :
          Respond(q, kind, regs + 1) /\ task' = [task EXCEPT ![regs + 1] = st]
    BY <1>1 DEF Register, ReplyKinds
  <2>2. /\ regs' = regs + 1 /\ regs < MaxRegistrations /\ regs + 1 \in Regs
        /\ regs + 1 \in 0..MaxRegistrations /\ regs + 1 \in 1..regs'
    BY <1>0, <1>1 DEF Register, Regs
  <2>3. /\ task' \in [Regs -> TaskStates] /\ task'[regs + 1] # "absent"
        /\ \A j \in Regs : j # regs + 1 => task'[j] = task[j]
    BY <2>1, <2>2 DEF TypeOK, TaskStates
  <2> QED
    BY <1>1, <2>1, <2>2, <2>3, RespondStep DEF Register
<1>2. ASSUME NEW q \in net, Replay(q) \/ Refuse(q), UNCHANGED <<pc, localVars, outcome>>
      PROVE  RegistrationInv'
  <2>1. PICK kind \in ReplyKinds, k \in 0..MaxRegistrations :
          /\ Respond(q, kind, k)
          /\ kind \in {"created", "replayed", "unsubmitted"} => k \in 1..regs
    <3>1. CASE Replay(q)
      <4>1. PICK k \in 1..regs : \E kind \in {"unsubmitted", "replayed"} : Respond(q, kind, k)
        BY <3>1 DEF Replay
      <4>2. k \in 0..MaxRegistrations
        BY <1>0
      <4> QED
        BY <4>1, <4>2 DEF ReplyKinds
    <3>2. CASE Refuse(q)
      BY <1>0, <3>2 DEF Refuse, ReplyKinds, None
    <3> QED
      BY <1>2, <3>1, <3>2
  <2>2. UNCHANGED <<regs, task, shown, stored>>
    BY <1>2 DEF Replay, Refuse, registrarVars
  <2> QED
    BY <1>2, <2>1, <2>2, RespondStep
<1>3. ASSUME NEW k \in Regs, EndTask(k) \/ StoreRows(k) \/ ShowDetail(k),
             UNCHANGED <<pc, localVars, outcome>>
      PROVE  RegistrationInv'
  <2> USE <1>3 DEF EndTask, StoreRows, ShowDetail, wireVars, localVars
  <2>1. /\ task' \in [Regs -> TaskStates]
        /\ \A j \in Regs : /\ task'[j] = "absent" <=> task[j] = "absent"
                           /\ task[j] = "completed" => task'[j] = "completed"
    BY DEF TypeOK, TaskStates
  <2>2. shown \subseteq shown' /\ stored \subseteq stored' /\ UNCHANGED <<regs, net, reply>>
    OBVIOUS
  <2>3. TypeOK'
    BY <2>1 DEF TypeOK
  <2>4. first \in 1..regs => first \in Regs
    BY <1>0 DEF Regs
  <2>5. WireInv' /\ SameInv'
    BY <2>2 DEF WireInv, SameInv
  <2>6. RegsInv'
    BY <2>1, <2>2 DEF RegsInv
  <2>7. StageInv'
    BY <2>1, <2>2, <2>4 DEF StageInv, RegsInv
  <2>8. EndInv'
    <3>1. outcome = "PASS_REGISTERED" => first \in Regs
      BY DEF EndInv, PassMeansRefreshed, TypeOK
    <3> QED
      BY <2>1, <2>2, <3>1 DEF EndInv, PassMeansRefreshed, Undecided
  <2> QED
    BY <2>3, <2>5, <2>6, <2>7, <2>8
<1> QED
  BY <1>1, <1>2, <1>3 DEF RegistrarNext

\* Every step of the method and of the backend preserves the invariant.
LEMMA RegistrationInvNext == RegistrationInv /\ [Next]_vars => RegistrationInv'
<1> SUFFICES ASSUME RegistrationInv, [Next]_vars PROVE RegistrationInv'
  OBVIOUS
<1>1. CASE UNCHANGED vars
  <2> USE <1>1 DEF vars, registrarVars, wireVars, localVars, RegistrationInv
  <2>1. TypeOK'
    BY DEF TypeOK
  <2>2. WireInv' /\ RegsInv'
    BY DEF WireInv, RegsInv
  <2>3. SameInv' /\ StageInv' /\ EndInv'
    BY DEF SameInv, StageInv, EndInv, PassMeansRefreshed
  <2> QED
    BY <2>1, <2>2, <2>3
<1> QED
  BY <1>1, MethodStep, RegistrarStep DEF Next, Terminated

-----------------------------------------------------------------------------
(* The theorems.                                                            *)

\* The inductive invariant holds in every reachable state of the stage.
THEOREM RegistrationInvariant == Spec => []RegistrationInv
BY RegistrationInvInit, RegistrationInvNext, PTL DEF Spec

\* PASS_REGISTERED means one live registration with a completed refresh whose
\* results the API and the database show, for any number of retries and polls.
THEOREM PassIsRefreshed == Spec => []PassMeansRefreshed
<1>1. RegistrationInv => PassMeansRefreshed
  BY DEF RegistrationInv, EndInv
<1> QED
  BY <1>1, RegistrationInvariant, PTL

\* The refresh of the last registration is in one of the states the flow knows.
LEMMA RefreshOfType ==
  ASSUME RegistrationInv
  PROVE  RefreshOf(regs) \in RefreshStates
<1>1. CASE regs = None
  BY <1>1 DEF RefreshOf, RefreshStates
<1>2. CASE regs # None
  <2>1. regs \in Regs /\ ~(regs > regs)
    BY <1>2, RegistrationAssumption
    DEF RegistrationAssumption, RegistrationInv, TypeOK, Regs, None
  <2>2. task[regs] \in TaskStates \ {"absent"}
    BY <2>1 DEF RegistrationInv, TypeOK, RegsInv
  <2>3. CASE task[regs] = "unsubmitted"
    BY <2>3 DEF RefreshOf, RefreshStates
  <2>4. CASE task[regs] = "incomplete"
    BY <1>2, <2>4 DEF RefreshOf, RefreshStates
  <2>5. CASE task[regs] \in {"active", "completed", "failed"}
    BY <1>2, <2>5 DEF RefreshOf, RefreshStates
  <2> QED
    BY <2>2, <2>3, <2>4, <2>5 DEF TaskStates
<1> QED
  BY <1>1, <1>2

\* Whatever the backend does, register_real_result_and_refresh ends inside the
\* results that ResearchFlow takes as its effect, so what is proved of the flow
\* holds with the detailed stage in place of that step.
THEOREM StageEndsInContract == Spec => []EndsInContract
<1>1. RegistrationInv => EndsInContract
  <2> SUFFICES ASSUME RegistrationInv, pc = "done"
               PROVE  [outcome |-> outcome, refresh |-> RefreshOf(regs), late |-> net # {}]
                          \in RegisterResults
    BY DEF EndsInContract
  <2> USE DEF RegistrationInv
  <2>1. outcome = "PASS_REGISTERED" \/ outcome \in Failures
    BY DEF TypeOK, EndInv, Outcomes, Undecided
  <2>2. RefreshOf(regs) \in RefreshStates
    BY RefreshOfType
  <2>3. CASE outcome = "PASS_REGISTERED"
    <3>1. regs # None /\ task[regs] = "completed" /\ (net # {}) = FALSE
      BY <2>3, RegistrationAssumption
      DEF EndInv, PassMeansRefreshed, TypeOK, Regs, None, RegistrationAssumption
    <3>2. RefreshOf(regs) = "completed"
      BY <3>1 DEF RefreshOf
    <3> QED
      BY <2>3, <3>1, <3>2, Zenon DEF RegisterResults
  <2>4. CASE outcome \in Failures /\ net = {}
    <3>1. (net # {}) = FALSE
      BY <2>4
    <3> QED
      BY <2>2, <2>4, <3>1, Zenon DEF RegisterResults
  <2>5. CASE net # {}
    <3>1. outcome = "FAIL_TECHNICAL" /\ (net # {}) = TRUE
      BY <2>5 DEF EndInv
    <3> QED
      BY <2>2, <3>1, Zenon DEF RegisterResults
  <2> QED
    BY <2>1, <2>3, <2>4, <2>5
<1> QED
  BY <1>1, RegistrationInvariant, PTL
=============================================================================
