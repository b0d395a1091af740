------------------------------ MODULE HttpClient ------------------------------
(***************************************************************************)
(* HTTPClient.request (api/client.py), the one way the API classes send a  *)
(* request: a loop of attempts, repeated on a transport error or a         *)
(* retryable status when the request may be replayed.                      *)
(*                                                                         *)
(* The server is external: it processes an attempt at any time after it    *)
(* was sent, also when the client has given up on it, and every attempt    *)
(* that it processes takes effect, whatever its answer says.               *)
(***************************************************************************)
EXTENDS Integers, FiniteSets

CONSTANT RetryAttempts  \* settings.retry_attempts

ASSUME HttpAssumption == RetryAttempts \in Int

VARIABLES call,      \* method and retryable argument of the call
          attempt,   \* attempt: index of the loop
          sent,      \* attempts sent
          effects,   \* attempts the server processed
          answer,    \* status of the current attempt, once it arrived
          pc,        \* "send", "wait", "failed", "done"
          result     \* how request ended

vars == <<call, attempt, sent, effects, answer, pc, result>>

IdempotentMethods == {"GET", "HEAD", "OPTIONS", "PUT", "DELETE"}
Methods == IdempotentMethods \cup {"POST"}
Retryable == {"default", "yes", "no"}
Calls == [method: Methods, retryable: Retryable]

\* "transient" stands for _RETRYABLE_STATUS_CODES.
Statuses == {"final", "transient"}
NoAnswer == "none"
Undecided == "none"

Attempts == (IF RetryAttempts > 0 THEN RetryAttempts ELSE 0) + 1

RetryWhateverMethod(c) == c.retryable # "no"

RequestIsRetryable(c) ==
    IF c.retryable = "default" THEN c.method \in IdempotentMethods ELSE c.retryable = "yes"

LastAttemptUnused(c, k) == RequestIsRetryable(c) /\ k + 2 < Attempts

ShouldRetry(c, k) == RequestIsRetryable(c) /\ k + 1 < Attempts

TypeOK ==
    /\ call \in Calls
    /\ attempt \in 0..Attempts
    /\ sent \subseteq 0..(Attempts - 1)
    /\ effects \subseteq sent
    /\ answer \in Statuses \cup {NoAnswer}
    /\ pc \in {"send", "wait", "failed", "done"}
    /\ result \in {Undecided, "response", "error", "exhausted"}

Init ==
    /\ call \in Calls
    /\ attempt = 0
    /\ sent = {}
    /\ effects = {}
    /\ answer = NoAnswer
    /\ pc = "send"
    /\ result = Undecided

-----------------------------------------------------------------------------
Process(k) ==
    /\ k \in sent \ effects
    /\ effects' = effects \cup {k}
    /\ answer' \in IF pc = "wait" /\ k = attempt THEN Statuses \cup {NoAnswer} ELSE {answer}
    /\ UNCHANGED <<call, attempt, sent, pc, result>>

\* A proxy may answer for the server.
AnsweredUnprocessed ==
    /\ pc = "wait"
    /\ answer = NoAnswer
    /\ answer' \in Statuses
    /\ UNCHANGED <<call, attempt, sent, effects, pc, result>>

Send ==
    /\ pc = "send"
    /\ sent' = sent \cup {attempt}
    /\ answer' = NoAnswer
    /\ pc' = "wait"
    /\ UNCHANGED <<call, attempt, effects, result>>

\* requests.RequestException: a timeout, a refused or a broken connection.
TransportError ==
    /\ pc = "wait"
    /\ answer = NoAnswer
    /\ pc' = "failed"
    /\ UNCHANGED <<call, attempt, sent, effects, answer, result>>

Response ==
    /\ pc = "wait"
    /\ answer # NoAnswer
    /\ IF answer = "final" THEN pc' = "done" /\ result' = "response"
                           ELSE pc' = "failed" /\ UNCHANGED result
    /\ UNCHANGED <<call, attempt, sent, effects, answer>>

AttemptNotCounted ==
    /\ pc = "failed"
    /\ ShouldRetry(call, attempt)
    /\ pc' = "send"
    /\ UNCHANGED <<call, attempt, sent, effects, answer, result>>

\* The statement after the loop raises RuntimeError.
Retry ==
    /\ pc = "failed"
    /\ ShouldRetry(call, attempt)
    /\ attempt' = attempt + 1
    /\ IF attempt + 1 < Attempts THEN pc' = "send" /\ UNCHANGED result
                                ELSE pc' = "done" /\ result' = "exhausted"
    /\ UNCHANGED <<call, sent, effects, answer>>

GiveUp ==
    /\ pc = "failed"
    /\ ~ShouldRetry(call, attempt)
    /\ pc' = "done"
    /\ result' = IF answer = NoAnswer THEN "error" ELSE "response"
    /\ UNCHANGED <<call, attempt, sent, effects, answer>>

ClientNext == Send \/ TransportError \/ Response \/ Retry \/ GiveUp
Terminated == pc = "done" /\ UNCHANGED vars

Next == \/ ClientNext \/ AnsweredUnprocessed \/ Terminated
        \/ \E k \in 0..(Attempts - 1) : Process(k)

Spec == Init /\ [][Next]_vars

\* request is one thread and every attempt has a timeout.
FairSpec == Spec /\ WF_vars(ClientNext)

-----------------------------------------------------------------------------
\* A POST that is not declared replayable (start_run, submit_form,
\* submit_feedback, register_report, create_*_version, claim_legacy_pipeline,
\* login) takes effect at most once per call, whatever is lost or late.
CreatesAtMostOnce ==
    call.method = "POST" /\ call.retryable # "yes" => Cardinality(effects) <= 1

\* A replayable call reports a failure, or a transient status, only after every
\* attempt the settings allow; no attempt of the budget is left unused.
FailsOnlyAfterAllAttempts ==
    (/\ pc = "done"
     /\ result # "response" \/ answer = "transient"
     /\ RequestIsRetryable(call)) => sent = 0..(Attempts - 1)

\* "HTTP request exhausted without a response" is never raised: the last
\* attempt always returns or raises inside the loop.
NeverExhausted == result # "exhausted"

\* The attempts of the for loop of request are exactly the ones the settings
\* allow: none is left unused by a failing replayable call, and none follows the
\* last.
WholeBudget == FailsOnlyAfterAllAttempts /\ NeverExhausted

\* request returns or raises after finitely many attempts.
Terminates == <>(pc = "done")
=============================================================================
