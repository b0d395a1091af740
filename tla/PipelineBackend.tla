--------------------------- MODULE PipelineBackend ---------------------------
(***************************************************************************)
(* The backend that the test framework drives, seen from one submitted     *)
(* form: the pipeline runs the backend executes for the form, the columns  *)
(* of the form's database row the framework reads (pipeline_run_id and     *)
(* status), and the run-start requests travelling between the two.         *)
(*                                                                         *)
(* The backend is not part of the repository.  It is modelled from the     *)
(* answers service/factor_combo_service.py is written to handle, and is    *)
(* kept as permissive as those answers: a request may be processed after   *)
(* the caller stopped waiting for it, an accepted request may be answered  *)
(* with a 5xx, and force_fresh_pipeline_run always creates a run, even     *)
(* next to an active one.  Only the caller's discipline prevents that.     *)
(***************************************************************************)
EXTENDS Naturals

CONSTANTS MaxRuns,      \* bound on the runs the backend creates for the form
          MaxStarts     \* bound on the run-start requests a client sends

ASSUME BackendAssumption ==
    /\ MaxRuns \in Nat
    /\ MaxStarts \in Nat

VARIABLES runState,     \* run -> what the backend does with it
          runFeedback,  \* run -> feedback it answers, named by the run that got it
          published,    \* runs whose structured result is readable
          formExists,   \* the factor_combo_form row exists
          formRun,      \* factor_combo_form.pipeline_run_id, 0 when NULL
          formDone,     \* factor_combo_form.status is a terminal one
          net,          \* run-start requests not processed yet
          waitFor,      \* id of the request whose answer the client awaits
          reply         \* the answer that reached the client

backendVars == <<runState, runFeedback, published, formExists, formRun,
                 formDone, net, waitFor, reply>>

RunIds == 1..MaxRuns
NoRun == 0
RunStates == {"absent", "active", "completed", "failed"}

\* The body of POST /factor-combo/forms/{id}/runs.  prev is the run the sender
\* had been following: a history component the backend does not look at.
Requests == [id: 1..MaxStarts, fresh: BOOLEAN, fb: 0..MaxRuns, prev: 0..MaxRuns]

\* HTTP classes the framework tells apart: 202, 200, 409, transient 4xx
\* (408, 429), any other 4xx, a 5xx, and a 2xx body that breaks the contract.
ReplyKinds == {"created", "replayed", "conflict", "throttled", "refused",
               "error", "malformed"}
NoReply == [kind |-> "none", run |-> NoRun]
Replies == [kind: ReplyKinds, run: 0..MaxRuns] \cup {NoReply}

BackendTypeOK ==
    /\ runState \in [RunIds -> RunStates]
    /\ runFeedback \in [RunIds -> 0..MaxRuns]
    /\ published \in SUBSET RunIds
    /\ formExists \in BOOLEAN
    /\ formRun \in 0..MaxRuns
    /\ formDone \in BOOLEAN
    /\ net \in SUBSET Requests
    /\ waitFor \in 0..MaxStarts
    /\ reply \in Replies

BackendInit ==
    /\ runState = [r \in RunIds |-> "absent"]
    /\ runFeedback = [r \in RunIds |-> NoRun]
    /\ published = {}
    /\ formExists = TRUE
    /\ formRun = NoRun
    /\ formDone = FALSE
    /\ net = {}
    /\ waitFor = 0
    /\ reply = NoReply

Active(r) == runState[r] = "active"
Busy == \E r \in RunIds : Active(r)

-----------------------------------------------------------------------------
(* The server side of a run start.  Each step takes one request off the    *)
(* network and answers it; an answer nobody waits for is dropped.          *)

Answer(q, kind, r) ==
    /\ net' = net \ {q}
    /\ reply' = IF waitFor = q.id THEN [kind |-> kind, run |-> r] ELSE reply
    /\ waitFor' = waitFor

\* Run ids are handed out in order.
NextRun(r) == /\ runState[r] = "absent"
              /\ \A s \in RunIds : s < r => runState[s] # "absent"

\* A run is created when forced, when the form has none, or when the request
\* carries a feedback the form's current run does not answer.
CreatesRun(q) == \/ q.fresh
                 \/ formRun = NoRun
                 \/ formRun # NoRun /\ runFeedback[formRun] # q.fb

AcceptStart(q) ==
    /\ formExists
    /\ CreatesRun(q)
    /\ \E r \in RunIds :
          /\ NextRun(r)
          /\ runState' = [runState EXCEPT ![r] = "active"]
          /\ runFeedback' = [runFeedback EXCEPT ![r] = q.fb]
          /\ formRun' = r
          /\ formDone' = FALSE
          /\ \E kind \in {"created", "error", "malformed"} : Answer(q, kind, r)
    /\ UNCHANGED <<published, formExists>>

ReplayStart(q) ==
    /\ formExists
    /\ ~CreatesRun(q)
    /\ Answer(q, "replayed", formRun)
    /\ UNCHANGED <<runState, runFeedback, published, formExists, formRun, formDone>>

\* A conflict names no run, or any run of the form so far.
ConflictStart(q) ==
    /\ formExists
    /\ \E r \in {NoRun} \cup {s \in RunIds : runState[s] # "absent"} : Answer(q, "conflict", r)
    /\ UNCHANGED <<runState, runFeedback, published, formExists, formRun, formDone>>

RefuseStart(q) ==
    /\ \E kind \in {"throttled", "refused", "error"} : Answer(q, kind, NoRun)
    /\ UNCHANGED <<runState, runFeedback, published, formExists, formRun, formDone>>

ProcessStart(q) == AcceptStart(q) \/ ReplayStart(q) \/ ConflictStart(q) \/ RefuseStart(q)

-----------------------------------------------------------------------------
(* The runs themselves.                                                     *)

CompleteRun(r) ==
    /\ Active(r)
    /\ runState' = [runState EXCEPT ![r] = "completed"]
    /\ UNCHANGED <<runFeedback, published, formExists, formRun, formDone, net, waitFor, reply>>

\* A run fails while it works, or when its result cannot be assembled.
FailRun(r) ==
    /\ runState[r] \in {"active", "completed"}
    /\ r \notin published
    /\ runState' = [runState EXCEPT ![r] = "failed"]
    /\ UNCHANGED <<runFeedback, published, formExists, formRun, formDone, net, waitFor, reply>>

PublishResult(r) ==
    /\ runState[r] = "completed"
    /\ published' = published \cup {r}
    /\ UNCHANGED <<runState, runFeedback, formExists, formRun, formDone, net, waitFor, reply>>

\* The form's status column follows its run with a delay.
SettleForm ==
    /\ formExists
    /\ formRun # NoRun
    /\ ~Active(formRun)
    /\ formDone' = TRUE
    /\ UNCHANGED <<runState, runFeedback, published, formExists, formRun, net, waitFor, reply>>

BackendNext ==
    \/ \E q \in net : ProcessStart(q)
    \/ \E r \in RunIds : CompleteRun(r) \/ FailRun(r) \/ PublishResult(r)
    \/ SettleForm

=============================================================================
