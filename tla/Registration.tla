----------------------------- MODULE Registration -----------------------------
(***************************************************************************)
(* FactorComboService.register_real_result_and_refresh: a valid result is  *)
(* registered, the same request is sent again to see that it is idempotent,*)
(* the Performance Refresh task of the registration is polled, and the     *)
(* refreshed sub-factor is read back through the API and from the database.*)
(*                                                                         *)
(* ResearchFlow takes this stage as one step that ends in RegisterResults  *)
(* (module FlowOutcomes); here it is every request and every read of it.   *)
(*                                                                         *)
(* The backend is external and not trusted to be idempotent: registration  *)
(* k has refresh task k, and a repeated request may create a further one.  *)
(***************************************************************************)
EXTENDS Naturals, FlowOutcomes

CONSTANTS MaxRegistrations,     \* bound on the registrations the backend creates
          MaxTechnicalRetries,  \* settings.max_technical_retries
          MaxRefreshPolls       \* settings.max_refresh_polls

ASSUME RegistrationAssumption ==
    /\ MaxRegistrations \in Nat \ {0}
    /\ MaxTechnicalRetries \in Nat
    /\ MaxRefreshPolls \in Nat \ {0}

VARIABLES regs,       \* registrations of the form so far; the marker row names the last
          task,       \* registration -> state of its Performance Refresh task
          shown,      \* registrations whose refreshed detail the API returns
          stored,     \* registrations whose calculation rows are in the database
          net,        \* registration requests not processed yet
          reply,      \* the answer that reached the client
          pc,         \* where the method is
          first,      \* the registration named by the first answer
          sent,       \* registration requests sent
          polls,      \* poll_count
          attempt,    \* attempt_index of the read being retried
          outcome     \* how the method ended

registrarVars == <<regs, task, shown, stored>>
wireVars == <<net, reply>>
localVars == <<first, sent, polls, attempt>>
vars == <<registrarVars, wireVars, pc, localVars, outcome>>

Regs == 1..MaxRegistrations
None == 0

\* "unsubmitted": registered, but the refresh could not be submitted.
\* "incomplete": the task says completed, but not all of its units are.
TaskStates == {"absent", "unsubmitted", "active", "completed", "incomplete", "failed"}

\* 201 and 200 with the matching idempotent_replay; either of them without a
\* submitted refresh; 409 for a completed registration; any other answer,
\* a body that breaks the contract included.
ReplyKinds == {"created", "replayed", "unsubmitted", "conflict", "other"}
NoReply == [kind |-> "none", reg |-> None]
Replies == [kind: ReplyKinds, reg: 0..MaxRegistrations] \cup {NoReply}

TypeOK ==
    /\ regs \in 0..MaxRegistrations
    /\ task \in [Regs -> TaskStates]
    /\ shown \in SUBSET Regs
    /\ stored \in SUBSET Regs
    /\ net \in SUBSET (1..2)
    /\ reply \in Replies
    /\ pc \in {"send", "first", "check", "second", "poll", "detail", "evidence", "done"}
    /\ first \in 0..MaxRegistrations
    /\ sent \in 0..2
    /\ polls \in 0..MaxRefreshPolls
    /\ attempt \in 0..MaxTechnicalRetries
    /\ outcome \in Outcomes \cup {Undecided}

\* The report may have been registered before: a first answer of 200 with
\* idempotent_replay=true is one the method accepts.
Init ==
    /\ regs \in {0, 1}
    /\ task \in [Regs -> TaskStates]
    /\ \A k \in Regs : task[k] = "absent" <=> k > regs
    /\ shown = {}
    /\ stored = {}
    /\ net = {}
    /\ reply = NoReply
    /\ pc = "send"
    /\ first = None
    /\ sent = 0
    /\ polls = 0
    /\ attempt = 0
    /\ outcome = Undecided

-----------------------------------------------------------------------------
(* The backend.                                                             *)

Respond(q, kind, k) ==
    /\ net' = net \ {q}
    /\ reply' = IF pc \in {"first", "second"} /\ q = sent
                THEN [kind |-> kind, reg |-> k] ELSE reply

\* A registration is created for an unregistered report, and also, wrongly,
\* for a registered one, under a new answer or under that of a replay.
Register(q) ==
    /\ regs < MaxRegistrations
    /\ regs' = regs + 1
    /\ \/ /\ task' = [task EXCEPT ![regs + 1] = "active"]
          /\ \E kind \in {"created", "replayed", "other"} : Respond(q, kind, regs + 1)
       \/ /\ task' = [task EXCEPT ![regs + 1] = "unsubmitted"]
          /\ \E kind \in {"unsubmitted", "other"} : Respond(q, kind, regs + 1)
    /\ UNCHANGED <<shown, stored>>

\* An earlier registration is returned, not always the one of the marker row.
Replay(q) ==
    /\ \E k \in 1..regs :
          \E kind \in {"unsubmitted"} \cup (IF task[k] # "unsubmitted" THEN {"replayed"} ELSE {}) :
             Respond(q, kind, k)
    /\ UNCHANGED registrarVars

Refuse(q) ==
    /\ \E kind \in {"conflict", "other"} : Respond(q, kind, None)
    /\ UNCHANGED registrarVars

EndTask(k) ==
    /\ task[k] = "active"
    /\ \E s \in {"completed", "incomplete", "failed"} : task' = [task EXCEPT ![k] = s]
    /\ UNCHANGED <<regs, shown, stored, wireVars>>

\* Results become visible some time after they are calculated.
StoreRows(k) ==
    /\ task[k] \in {"active", "completed"}
    /\ stored' = stored \cup {k}
    /\ UNCHANGED <<regs, task, shown, wireVars>>

ShowDetail(k) ==
    /\ k \in stored
    /\ shown' = shown \cup {k}
    /\ UNCHANGED <<regs, task, stored, wireVars>>

RegistrarNext ==
    /\ \/ \E q \in net : Register(q) \/ Replay(q) \/ Refuse(q)
       \/ \E k \in Regs : EndTask(k) \/ StoreRows(k) \/ ShowDetail(k)
    /\ UNCHANGED <<pc, localVars, outcome>>

-----------------------------------------------------------------------------
(* The method.                                                              *)

Raise(o) ==
    /\ pc' = "done"
    /\ outcome' = o
    /\ UNCHANGED <<localVars>>

\* register_report_request through _call_flow_request.  The HTTP client does
\* not repeat a POST.
Send(step) ==
    /\ pc' = step
    /\ sent' = sent + 1
    /\ net' = net \cup {sent + 1}
    /\ reply' = NoReply
    /\ UNCHANGED <<registrarVars, first, polls, attempt, outcome>>

SendFirst == pc = "send" /\ Send("first")

\* No validity snapshot, factor name or usable payload: nothing is sent.
NotReady ==
    /\ pc = "send"
    /\ Raise("FAIL_CONTRACT")
    /\ UNCHANGED <<registrarVars, wireVars>>

\* requests.RequestException, whatever became of the request.
Unanswered ==
    /\ pc \in {"first", "second"}
    /\ reply' = NoReply
    /\ Raise("FAIL_TECHNICAL")
    /\ UNCHANGED <<registrarVars, net>>

\* A completed registration (409) is looked up in the database before the
\* failure is raised, and that lookup is not guarded.
Refused ==
    \/ Raise("FAIL_CONTRACT")
    \/ reply.kind = "conflict" /\ Raise("UNCLASSIFIED")

FirstAnswer ==
    /\ pc = "first"
    /\ reply # NoReply
    /\ reply' = NoReply
    /\ UNCHANGED <<registrarVars, net>>
    /\ \/ /\ reply.kind \in {"created", "replayed"}
          /\ pc' = "check"
          /\ first' = reply.reg
          /\ UNCHANGED <<sent, polls, attempt, outcome>>
       \/ reply.kind = "unsubmitted" /\ Raise("FAIL_REFRESH")
       \/ reply.kind \in {"conflict", "other"} /\ Refused

\* The form, version, marker, sub-factor, detail, validity, experiment and source
\* rows must name the registration of the answer; their contents, which the
\* model leaves out, must agree too.  These reads are not guarded: an error of
\* the database leaves the method as it is.
CheckRows ==
    /\ pc = "check"
    /\ \/ first = regs /\ Send("second")
       \/ /\ \E o \in {"FAIL_CONTRACT", "UNCLASSIFIED"} : Raise(o)
          /\ UNCHANGED <<registrarVars, wireVars>>

AcceptAnyReplay ==
    /\ pc = "second"
    /\ reply.kind = "replayed"
    /\ pc' = "poll"
    /\ reply' = NoReply
    /\ UNCHANGED <<registrarVars, net, localVars, outcome>>

\* Only 200 with idempotent_replay=true, the same ids and the same task.
ReplayAnswer ==
    /\ pc = "second"
    /\ reply # NoReply
    /\ reply' = NoReply
    /\ UNCHANGED <<registrarVars, net>>
    /\ \/ /\ reply.kind = "replayed"
          /\ reply.reg = first
          /\ pc' = "poll"
          /\ UNCHANGED <<localVars, outcome>>
       \/ /\ reply.kind = "unsubmitted"
          /\ reply.reg = first
          /\ Raise("FAIL_REFRESH")
       \/ /\ ~(reply.kind \in {"replayed", "unsubmitted"} /\ reply.reg = first)
          /\ Refused

-----------------------------------------------------------------------------
(* poll_performance_refresh                                                 *)

TransportErrorRestartsCount(isTransport) ==
    /\ polls' = IF isTransport THEN 0 ELSE polls + 1
    /\ \/ polls' < MaxRefreshPolls /\ pc' = "poll" /\ UNCHANGED outcome
       \/ /\ pc' = "done"
          /\ outcome' = IF isTransport THEN "FAIL_TECHNICAL" ELSE "FAIL_REFRESH"
    /\ UNCHANGED <<first, sent, attempt>>

\* The read counts and is repeated, unless the count or the deadline is
\* reached; the deadline may pass after any read.  The failure is the one of
\* the last read (last_attempt_was_transport_error).
KeepPolling(isTransport) ==
    /\ polls' = polls + 1
    /\ \/ polls + 1 < MaxRefreshPolls /\ pc' = "poll" /\ UNCHANGED outcome
       \/ /\ pc' = "done"
          /\ outcome' = IF isTransport THEN "FAIL_TECHNICAL" ELSE "FAIL_REFRESH"
    /\ UNCHANGED <<first, sent, attempt>>

PollUnavailable ==
    /\ pc = "poll"
    /\ KeepPolling(TRUE)
    /\ UNCHANGED <<registrarVars, wireVars>>

PollActive ==
    /\ pc = "poll"
    /\ task[first] = "active"
    /\ KeepPolling(FALSE)
    /\ UNCHANGED <<registrarVars, wireVars>>

EndedIsCompleted(k) == task[k] # "active"

\* _validate_completed_refresh: the status is completed, the factor is among
\* the completed ones and every unit is done.
RefreshCompleted(k) == task[k] = "completed"

PollCompleted ==
    /\ pc = "poll"
    /\ RefreshCompleted(first)
    /\ pc' = "detail"
    /\ attempt' = 0
    /\ UNCHANGED <<registrarVars, wireVars, first, sent, polls, outcome>>

PollFailed ==
    /\ pc = "poll"
    /\ task[first] \in {"failed", "incomplete"}
    /\ Raise("FAIL_REFRESH")
    /\ UNCHANGED <<registrarVars, wireVars>>

\* A body that breaks the contract, a foreign task id, or a rejected query.
PollRejected ==
    /\ pc = "poll"
    /\ \E o \in {"FAIL_CONTRACT", "FAIL_REFRESH"} : Raise(o)
    /\ UNCHANGED <<registrarVars, wireVars>>

PollPerformanceRefresh == \/ PollUnavailable \/ PollActive \/ PollCompleted
                          \/ PollFailed \/ PollRejected

-----------------------------------------------------------------------------
(* Reading the refreshed sub-factor back.                                   *)

\* One more attempt, or the failure o when none is left.
RetryOr(o) ==
    \/ /\ attempt < MaxTechnicalRetries
       /\ attempt' = attempt + 1
       /\ UNCHANGED <<pc, first, sent, polls, outcome>>
    \/ attempt >= MaxTechnicalRetries /\ Raise(o)

\* verify_registered_sub_factor: an unavailable or missing detail is asked for
\* again, one without refreshed data is not.
VerifyRegisteredSubFactor ==
    /\ pc = "detail"
    /\ UNCHANGED <<registrarVars, wireVars>>
    /\ \/ RetryOr("FAIL_TECHNICAL")
       \/ first \notin shown /\ RetryOr("FAIL_REFRESH")
       \/ first \notin shown /\ Raise("FAIL_REFRESH")
       \/ Raise("FAIL_CONTRACT")
       \/ /\ first \in shown
          /\ pc' = "evidence"
          /\ attempt' = 0
          /\ UNCHANGED <<first, sent, polls, outcome>>

\* verify_database_refresh_evidence, validate_core_metric_coverage and the last
\* read of the sub-factor.
VerifyDatabaseRefreshEvidence ==
    /\ pc = "evidence"
    /\ UNCHANGED <<registrarVars, wireVars>>
    /\ \/ first \notin stored /\ RetryOr("FAIL_REFRESH")
       \/ \E o \in {"FAIL_TECHNICAL", "FAIL_CONTRACT", "FAIL_REFRESH"} : Raise(o)
       \/ first \in stored /\ Raise("PASS_REGISTERED")

MethodNext == \/ SendFirst \/ NotReady \/ Unanswered \/ FirstAnswer \/ CheckRows \/ ReplayAnswer
              \/ PollPerformanceRefresh \/ VerifyRegisteredSubFactor
              \/ VerifyDatabaseRefreshEvidence

Terminated == pc = "done" /\ UNCHANGED vars

Next == MethodNext \/ RegistrarNext \/ Terminated

Spec == Init /\ [][Next]_vars

\* The method is one thread and its requests time out.
FairSpec == Spec /\ WF_vars(MethodNext)

-----------------------------------------------------------------------------
(* Properties.                                                              *)

\* What RunClient and the cleanup see of the refresh of the last registration.
RefreshOf(k) ==
    CASE k = None \/ task[k] = "unsubmitted"        -> "none"
      [] k # None /\ task[k] = "incomplete"          -> "completed"
      [] k # None /\ task[k] \in {"active", "completed", "failed"} -> task[k]

\* Whatever the backend does, the method ends inside the set of results that
\* ResearchFlow takes as its effect: this is what joins the two modules.
EndsInContract ==
    pc = "done" => [outcome |-> outcome, refresh |-> RefreshOf(regs), late |-> net # {}]
                       \in RegisterResults

\* The method only reports PASS_REGISTERED when the registration it was told of
\* is the only live one (no second one was created by the repeated request, no
\* request is still on its way), its refresh task completed, and both the API
\* and the database held the refreshed results: the reads behind this are
\* seven requests and a dozen queries apart.
PassMeansRefreshed ==
    outcome = "PASS_REGISTERED" =>
        /\ first = regs
        /\ task[first] = "completed"
        /\ first \in shown \cap stored
        /\ net = {}

\* The method ends, also when the refresh never does and when every read fails.
Terminates == <>(pc = "done")

\* README.md: "E2E 在首次响应丢失时可从同请求重试得到的 200/true 恢复": after a lost
\* first answer the same request is sent again.  It does not hold: nothing
\* repeats the request, and the stage ends with FAIL_TECHNICAL.
LostResponseRecovered == outcome = "FAIL_TECHNICAL" => sent = 2
=============================================================================
