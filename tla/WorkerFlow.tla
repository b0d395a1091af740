------------------------------ MODULE WorkerFlow ------------------------------
(***************************************************************************)
(* The worker interfaces driven by FactorComboService: submit a form, read *)
(* its work order, claim it, write a version, an experiment, a rejection   *)
(* (feedback), the next version, and register the result.  After every     *)
(* call the client validates the answer and the rows it reads back         *)
(* (ComboPersistence, RegistrationRows).                                   *)
(*                                                                         *)
(* The backend is external: it writes the rows its interface describes, or *)
(* damages one field of one row or of one answer per behaviour (variable   *)
(* fault).  A request may be repeated: the rows of the first call are      *)
(* written again.  Between the two the repository's ..._for_test helpers   *)
(* recreate the state a half-finished call leaves behind.                  *)
(***************************************************************************)
EXTENDS RegistrationRows

CONSTANTS MaxRounds,    \* feedback rounds
          Combo,        \* business id of the combination; version k has id k
          Directions    \* directions a pool member may have

ASSUME WorkerAssumption == /\ MaxRounds \in Nat /\ Combo \in Nat \ {0}
                           /\ Directions \subseteq {-1, 1}

VARIABLES cur,       \* the current row of every table, and the last answer
          past,      \* earlier versions with their components and experiment
          pastFb,    \* earlier feedback rows
          client,    \* the objects the service hands from call to call
          request,   \* payload of the last request
          stage,     \* the last call
          round,     \* feedback rounds begun
          pc,        \* "ready", "check" or "done"
          replayed,  \* the last request was repeated
          cleared,   \* a helper has undone a part of the last call
          tracked,   \* the form is tracked for cleanup
          fault,     \* history: the backend has deviated
          refreshed, \* history: the refresh has already linked its summaries
          outcome

vars == <<cur, past, pastFb, client, request, stage, round, pc, replayed, cleared,
          tracked, fault, refreshed, outcome>>

Stages == {"none", "submit", "order", "claim", "version", "experiment", "feedback", "register"}
Outcomes == {"PASS", "FAIL_CONTRACT", "RuntimeError", "REFUSED"}
Transforms == {"static", "artifact"}

\* Null and Other are none of the values of a correct row or answer.
ASSUME ValueAssumption == /\ Null \notin Int /\ Other \notin Int /\ Null # Other
                          /\ Null \notin Outcomes \cup Transforms

-----------------------------------------------------------------------------
(* What the backend writes.                                                *)

Version(k) == [id |-> k + 1, combo |-> Combo, family |-> 1, pool |-> 1, hash |-> k + 1,
               status |-> "candidate", experiment |-> Null, initial_form |-> 1, method |-> 1]
\* The second component takes its weight from a model artifact.
Content1(k, i) == [sub |-> i, factor |-> 1, direction |-> IF i = 1 THEN 1 ELSE -1,
                   transform |-> IF i = 1 THEN "static" ELSE "artifact", weight |-> IF i = 1 THEN k + 1 ELSE Null]
Requested(k) == {Content1(k, i) : i \in 1..2}
Component(k, i) == [version |-> k + 1, sub |-> i, factor |-> 1, direction |-> Content1(k, i).direction,
                    transform |-> Content1(k, i).transform, weight |-> Content1(k, i).weight]
\* A row is not Null.
ASSUME RowAssumption == \A k \in 0..MaxRounds : Component(k, 1) # Null /\ Component(k, 2) # Null
Member(i, d) == [form |-> 1, pool |-> 1, sub |-> i, order |-> i - 1, detail |-> i, detail_record |-> i,
                 detail_factor |-> i, detail_kind |-> "sub_factor", name |-> i,
                 parents |-> <<[factor |-> 1, code |-> 1]>>, snapshots |-> {d}]
Answered(m) == [component |-> m.order + 1, sub |-> m.sub, factor |-> 1, code |-> 1, name |-> m.name,
                direction |-> IF m.snapshots = {-1} THEN -1 ELSE 1]

\* Columns that hold a key, and the values a damaged column may get.
Key(part) == IF part \in {"form", "pool", "version", "experiment", "feedback", "sub", "detail",
                          "validity", "mapping"} THEN {"id"} ELSE {}
Wrong(f) == CASE f \in {"status", "form_status", "combo_status", "feedback_status", "refresh"} ->
                      {"failed", "processing", "candidate", "locked", Null}
              [] f \in {"replay", "valid", "recorded", "is_sub", "registered"} -> {TRUE, FALSE, Null}
              [] f = "http" -> {200, 201}
              [] f = "components" -> {{}}
              [] f = "snapshots" -> {{}, {-1, 1}, {Other}}
              [] f = "parents" -> {<<>>, <<[factor |-> Other, code |-> 1]>>}
              [] OTHER -> {Null, Other}

\* The rows w, with at most one fault in the parts this call writes.
Written(w, parts) ==
    \/ cur' = w /\ fault' = fault
    \/ /\ ~fault
       /\ \E part \in parts \cup {"answer"} : \E f \in DOMAIN w[part] \ Key(part) :
            \E v \in Wrong(f) \cup (IF part # "answer" /\ cur[part] # Null THEN {cur[part][f]} ELSE {}) :
               /\ v # w[part][f]
               /\ cur' = [w EXCEPT ![part][f] = v]
               /\ fault' = TRUE

Empty == [answer |-> Null, form |-> Null, pool |-> Null, m1 |-> Null, m2 |-> Null, a1 |-> Null,
          version |-> Null, c1 |-> Null, c2 |-> Null, experiment |-> Null, feedback |-> Null,
          sub |-> Null, detail |-> Null, validity |-> Null, mapping |-> Null,
          n_sub |-> Null, n_detail |-> Null, n_validity |-> Null, n_mapping |-> Null]

SubmitRows(d) ==
    [cur EXCEPT !.form = [id |-> 1, session |-> 1, form_no |-> 1, status |-> "submitted", pool |-> 1,
                          run |-> Null, version |-> Null, experiment |-> Null, json |-> 1, spec |-> 1],
                !.pool = [id |-> 1, form |-> 1, filter |-> <<1, 2>>, hash |-> 1, status |-> "draft"],
                !.m1 = Member(1, d), !.m2 = Member(2, 1),
                !.answer = [form |-> 1, pool |-> 1, form_no |-> 1, status |-> "submitted"]]

OrderRows ==
    [cur EXCEPT !.a1 = Answered(cur.m1),
                !.answer = [form |-> 1, pool |-> 1, form_no |-> 1, hash |-> 1, json |-> 1, spec |-> 1,
                            status |-> cur.form.status]]

\* The claim of a form or of a feedback row names the run, the combination,
\* the experiment to write and the components.
ClaimRows ==
    [cur EXCEPT !.form.status = "processing", !.form.run = round + 1, !.pool.status = "locked",
                !.feedback = IF round = 0 THEN @ ELSE [@ EXCEPT !.status = "processing"],
                !.answer = [run |-> round + 1, combo |-> Combo, experiment |-> round + 1,
                            components |-> Requested(round)]]

VersionRows ==
    [cur EXCEPT !.version = Version(round), !.c1 = Component(round, 1), !.c2 = Component(round, 2),
                !.experiment = Null,
                !.form = [@ EXCEPT !.status = "processing", !.run = round + 1,
                                   !.version = round + 1, !.experiment = Null],
                !.feedback = IF round = 0 THEN @
                             ELSE [@ EXCEPT !.next_version = round + 1, !.next_run = round + 1],
                !.answer = [form |-> 1, pool |-> 1, form_status |-> "processing", run |-> round + 1,
                            combo |-> Combo, family |-> 1, hash |-> round + 1, version |-> round + 1,
                            combo_status |-> "candidate", count |-> 2,
                            feedback |-> round, round |-> round, feedback_status |-> "processing",
                            http |-> IF replayed' THEN 200 ELSE 201, replay |-> replayed']]

ExperimentRows(valid) ==
    [cur EXCEPT !.experiment = [id |-> round + 1, external |-> round + 1, combo |-> Combo, valid |-> valid,
                                reason |-> IF valid THEN Null ELSE 1, payload |-> 1],
                !.version.experiment = round + 1,
                !.form.status = "completed", !.form.experiment = round + 1,
                !.feedback = IF round = 0 THEN @
                             ELSE [@ EXCEPT !.status = "completed", !.next_experiment = round + 1],
                !.answer = [experiment |-> round + 1, external |-> round + 1, form |-> 1,
                            version |-> round + 1, combo |-> Combo, form_status |-> "completed",
                            combo_status |-> "candidate", valid |-> valid,
                            http |-> IF replayed' THEN 200 ELSE 201, replay |-> replayed']]

\* k is the number of the rejected version.
FeedbackRows(k) ==
    [cur EXCEPT !.feedback = [id |-> k, form |-> 1, round |-> k, status |-> "pending", source_version |-> k,
                              source_experiment |-> k, source_run |-> k, text |-> 1,
                              next_version |-> Null, next_run |-> Null, next_experiment |-> Null],
                !.version.status = "rejected",
                !.experiment.valid = FALSE, !.experiment.reason = 1,
                !.form = [@ EXCEPT !.status = "processing", !.run = Null, !.version = Null,
                                   !.experiment = Null],
                !.answer = [feedback |-> k, round |-> k, recorded |-> TRUE, replay |-> replayed',
                            status |-> "pending", reply |-> 2, form |-> 1, experiment |-> k,
                            form_status |-> "processing", valid |-> FALSE, rejected |-> k]]

RegisterRows ==
    LET sub == [id |-> 9, name |-> 1, type |-> 1, formula |-> 1, metadata_formula |-> 1, report |-> 1]
        detail == [id |-> 8, factor |-> 9, is_sub |-> TRUE, enabled |-> 1, formula |-> 1,
                   params_formula |-> 1, report |-> 1]
        validity == [id |-> 7, factor |-> 9, is_sub |-> TRUE, snapshot |-> 1, ts_summary |-> Null,
                     cs_summary |-> Null]
        mapping == [id |-> 6, combo |-> Combo, hash |-> cur.version.hash, sub |-> 9]
    IN [cur EXCEPT !.version.status = "active",
                   !.sub = sub, !.detail = detail, !.validity = validity, !.mapping = mapping,
                   !.n_sub = [id |-> 9, name |-> 1, type |-> 1],
                   !.n_detail = [id |-> 8, factor |-> 9, is_sub |-> TRUE, enabled |-> 1],
                   !.n_validity = [id |-> 7, factor |-> 9, is_sub |-> TRUE],
                   !.n_mapping = mapping,
                   !.answer = [form |-> 1, version |-> round + 1, combo |-> Combo, hash |-> round + 1,
                               sub |-> 9, detail |-> 8, validity |-> 7, registration |-> 6, type |-> 1,
                               registered |-> TRUE, replay |-> replayed', refresh |-> "queued", task |-> 1]]

-----------------------------------------------------------------------------
(* Requests.                                                               *)

Call(s, r) == /\ pc = "ready" /\ ~cleared /\ outcome = Null
              /\ pc' = "check" /\ stage' = s /\ request' = r /\ replayed' = FALSE
              /\ UNCHANGED <<client, cleared, refreshed, outcome>>

\* create_form_with_sub_factors names the sub-factors, create_form_with_parent
\* the parent that has them.
FormRequest(direct) == [session |-> 1, json |-> 1, direct |-> direct,
                        names |-> IF direct THEN <<1, 2>> ELSE <<1>>]

\* submit_form and _track_form_response_for_cleanup: the
\* form an answer names is tracked before the answer is validated.
submit_form(d, direct) ==
    /\ stage = "none"
    /\ Call("submit", FormRequest(direct))
    /\ Written(SubmitRows(d), {"form", "pool", "m1"})
    /\ tracked' = {cur'.answer.form} \ {Null}
    /\ UNCHANGED <<past, pastFb, round>>

\* A form that mixes a parent with its own sub-factor is refused; nothing is
\* written and nothing is tracked.
submit_mixed_parent_and_sub_factor_for_rejection ==
    /\ pc = "ready" /\ stage = "none"
    /\ pc' = "done" /\ outcome' = "REFUSED" /\ stage' = "submit"
    /\ request' = [FormRequest(FALSE) EXCEPT !.names = <<1, 2>>]
    /\ UNCHANGED <<cur, past, pastFb, client, round, replayed, cleared, tracked, fault, refreshed>>

get_work_order ==
    /\ stage = "submit"
    /\ Call("order", Null)
    /\ Written(OrderRows, {"a1"})
    /\ UNCHANGED <<past, pastFb, round, tracked>>

\* _claim_initial_worker_form, claim_feedback_for_worker.
claim_legacy_pipeline ==
    /\ stage \in {"submit", "order", "feedback"}
    /\ Call("claim", [run |-> round + 1])
    /\ Written(ClaimRows, {"form", "pool"} \cup (IF round = 0 THEN {} ELSE {"feedback"}))
    /\ UNCHANGED <<past, pastFb, round, tracked>>

\* create_initial_version_request, create_next_version_request.
create_version ==
    /\ stage = "claim"
    /\ Call("version", [run |-> client.claim.run, combo |-> client.claim.combo, method |-> 1,
                        components |-> client.claim.components])
    /\ past' = IF round = 0 THEN past
               ELSE Append(past, [version |-> cur.version, components |-> {cur.c1, cur.c2},
                                  experiment |-> cur.experiment])
    /\ Written(VersionRows, {"form", "version", "c1"} \cup (IF round = 0 THEN {} ELSE {"feedback"}))
    /\ UNCHANGED <<pastFb, round, tracked>>

write_experiment(valid) ==
    /\ stage = "version"
    /\ Call("experiment", [run |-> client.claim.run, valid |-> valid, payload |-> 1,
                           reason |-> IF valid THEN Null ELSE 1])
    /\ Written(ExperimentRows(valid), {"form", "version", "experiment"}
                                         \cup (IF round = 0 THEN {} ELSE {"feedback"}))
    /\ UNCHANGED <<past, pastFb, round, tracked>>

submit_feedback ==
    /\ stage = "experiment" /\ round < MaxRounds
    /\ Call("feedback", [reply |-> 2, session |-> client.task.session, form |-> client.task.form,
                         run |-> client.claim.run, text |-> 1])
    /\ round' = round + 1
    /\ pastFb' = IF round = 0 THEN pastFb ELSE Append(pastFb, cur.feedback)
    /\ Written(FeedbackRows(round + 1), {"form", "version", "experiment", "feedback"})
    /\ UNCHANGED <<past, tracked>>

\* The components of a report.  The registration that is read back carries the
\* pipeline's report as it is (build_real_register_payload), and its components
\* may name rows by id, by code or by name and give a weight with either sign.
Item(i) == [id |-> i, code |-> i, name |-> i, factor |-> 1, direction |-> Content1(round, i).direction,
            weight |-> Content1(round, i).weight]
Signed(weight) == IF weight = Null THEN Null ELSE -weight
OtherItems == {[id |-> i, code |-> c, name |-> Null, factor |-> Null,
                direction |-> Content1(round, k).direction, weight |-> Signed(Content1(round, k).weight)] :
                  i \in {Null, 1, 2}, c \in {Null, 1, 2}, k \in 1..2}
OwnCodes == <<{1}, {2}>>
OtherCodes == {<<{1}, {2}>>, <<{1, 2}, {2}>>, <<{1}, {1}>>}

\* Bound: unusual reports are tried on the undamaged first version.
OtherReports == ~fault /\ round = 0

register_report(items, codes) ==
    /\ stage = "experiment" /\ cur.experiment.valid = TRUE
    /\ Call("register", [session |-> client.task.session, run |-> client.claim.run, report |-> 1,
                         validity |-> 1, formula |-> 1, items |-> items, codes |-> codes])
    /\ Written(RegisterRows, IF items = <<Item(1), Item(2)>> /\ codes = OwnCodes
                             THEN {"version", "sub", "detail", "validity", "mapping",
                                   "n_sub", "n_detail", "n_validity", "n_mapping"} ELSE {})
    /\ UNCHANGED <<past, pastFb, round, tracked>>

\* The same request once more.
replay_request ==
    /\ pc = "ready" /\ ~replayed /\ outcome = Null
    /\ stage \in {"version", "experiment", "feedback", "register"}
    /\ pc' = "check" /\ replayed' = TRUE /\ cleared' = FALSE /\ stage' = stage
    /\ CASE stage = "version" -> Written(VersionRows, {"form", "version", "c1"}
                                            \cup (IF round = 0 THEN {} ELSE {"feedback"}))
         [] stage = "experiment" -> Written(ExperimentRows(request.valid), {"form", "version", "experiment"})
         [] stage = "feedback" -> Written(FeedbackRows(round), {"form", "version", "experiment", "feedback"})
         [] stage = "register" -> Written(RegisterRows, {"version", "mapping"})
    /\ UNCHANGED <<past, pastFb, client, request, round, tracked, refreshed, outcome>>

\* The refresh the registration has queued links its summaries whenever it
\* likes, also before the client has read the validity row.
RefreshLinks ==
    /\ pc = "check" /\ stage = "register" /\ ~refreshed /\ cur.validity.ts_summary = Null
    /\ cur' = [cur EXCEPT !.validity.ts_summary = 1]
    /\ refreshed' = TRUE
    /\ UNCHANGED <<past, pastFb, client, request, stage, round, pc, replayed, cleared, tracked, fault, outcome>>

-----------------------------------------------------------------------------
(* The repository's helpers: each undoes a part of the last call, so that  *)
(* the repeated request meets a half-finished state.  The server counts    *)
(* the rows a statement changed, the helper wants one for each statement;  *)
(* most of them look after the commit.                                     *)

\* They are used on a chain the backend has written correctly so far.
Undo(rows, parts) ==
    /\ pc = "ready" /\ ~cleared /\ ~replayed /\ outcome = Null /\ ~fault
    /\ cur' = rows
    /\ IF \A p \in parts : rows[p] # cur[p]
       THEN cleared' = TRUE /\ UNCHANGED <<pc, outcome>>
       ELSE pc' = "done" /\ outcome' = "RuntimeError" /\ UNCHANGED cleared
    /\ UNCHANGED <<past, pastFb, client, request, stage, round, replayed, tracked, fault, refreshed>>

clear_experiment_links_for_test ==
    /\ stage = "experiment"
    /\ Undo([cur EXCEPT !.form.status = "processing", !.form.experiment = Null, !.version.experiment = Null],
            {"form", "version"})

clear_next_version_links_for_test ==
    /\ stage = "version" /\ round > 0
    /\ Undo([cur EXCEPT !.feedback.status = "processing", !.feedback.next_run = Null,
                        !.feedback.next_version = Null, !.feedback.next_experiment = Null,
                        !.form.status = "processing", !.form.run = Null, !.form.version = Null,
                        !.form.experiment = Null],
            {"feedback", "form"})

clear_next_version_pointer_for_test ==
    /\ stage = "version" /\ round > 0 /\ cur.feedback.form = client.task.form
    /\ \E target \in {<<"feedback", "next_run">>, <<"feedback", "next_version">>,
                      <<"form", "run">>, <<"form", "version">>} :
          Undo([cur EXCEPT ![target[1]][target[2]] = Null], {target[1]})

\* Checks that the rows belong together, then goes back to the moment between
\* the insert of the feedback row and the rejection.
prepare_feedback_partial_replay_for_test ==
    /\ stage = "feedback"
    /\ cur.feedback.form = client.task.form
    /\ cur.feedback.source_version = cur.version.id
    /\ cur.feedback.source_experiment = cur.experiment.id
    /\ cur.experiment.combo = cur.version.combo
    /\ Undo([cur EXCEPT !.feedback = [@ EXCEPT !.status = "preparing", !.next_run = Null,
                                                !.next_version = Null, !.next_experiment = Null],
                        !.version.status = "candidate",
                        !.experiment.valid = TRUE, !.experiment.reason = Null,
                        !.form = [@ EXCEPT !.status = "completed", !.run = client.claim.run,
                                           !.version = cur.version.id, !.experiment = cur.experiment.id]],
            {})

clear_registration_marker_for_test ==
    /\ stage = "register" /\ ~cleared
    /\ cur.mapping.combo = cur.version.combo /\ cur.mapping.hash = cur.version.hash
    /\ Undo([cur EXCEPT !.mapping = Null], {"mapping"})

clear_one_next_version_component_for_test ==
    /\ stage = "version" /\ round > 0
    /\ Undo([cur EXCEPT !.c1 = Null], {"c1"})

\* set_form_status_for_test, set_form_pipeline_run_for_test,
\* set_pool_status_for_test: one condition of the next write is broken, which
\* the backend must refuse.
set_for_test ==
    /\ stage = "claim" /\ round = 0
    /\ \/ \E s \in {"draft", "submitted", "processing", "completed", "failed"} :
             Undo([cur EXCEPT !.form.status = s], {"form"})
       \/ \E s \in {"draft", "locked", "archived"} : Undo([cur EXCEPT !.pool.status = s], {"pool"})
       \/ Undo([cur EXCEPT !.form.run = Other], {"form"})

create_version_refused ==
    /\ pc = "ready" /\ stage = "claim" /\ cleared
    /\ pc' = "done" /\ outcome' = "REFUSED"
    /\ UNCHANGED <<cur, past, pastFb, client, request, stage, round, replayed, cleared, tracked, fault, refreshed>>

\* prepare_form_for_worker with build_components_from_pool: the claim made by
\* hand.  The pool's row is counted inside the transaction, so a pool that is
\* locked already rolls everything back.
ByHand(i, row) == [sub |-> row.sub, factor |-> row.parents[1].factor,
                   direction |-> IF i = 1 THEN 1 ELSE -1, transform |-> Content1(0, i).transform,
                   weight |-> Content1(0, i).weight]
prepare_form_for_worker ==
    /\ pc = "ready" /\ ~cleared /\ outcome = Null
    /\ stage \in {"submit", "order"}
    /\ cur.m1.parents # <<>> /\ cur.m2.parents # <<>>
    /\ IF cur.pool.status = "locked"
       THEN pc' = "done" /\ outcome' = "RuntimeError" /\ UNCHANGED <<cur, client, stage>>
       ELSE /\ cur' = [cur EXCEPT !.pool.status = "locked",
                                  !.form = [@ EXCEPT !.status = "processing", !.run = 1,
                                                     !.version = Null, !.experiment = Null]]
            /\ client' = [client EXCEPT !.claim = [run |-> 1, combo |-> Combo, experiment |-> 1,
                                                   components |-> {ByHand(1, cur.m1), ByHand(2, cur.m2)},
                                                   feedback |-> 0, round |-> Null, source |-> Null]]
            /\ stage' = "claim" /\ UNCHANGED <<pc, outcome>>
    /\ UNCHANGED <<past, pastFb, request, round, replayed, cleared, tracked, fault, refreshed>>

-----------------------------------------------------------------------------
(* Validation of the answer and of the rows behind it.                     *)

Answer == cur.answer
Members == <<cur.m1, cur.m2>>
Components == {cur.c1, cur.c2} \ {Null}
OrderAnswer == [f \in DOMAIN Answer \cup {"members"} |->
                   IF f = "members" THEN <<cur.a1, Answered(cur.m2)>> ELSE Answer[f]]
Task == [session |-> request.session, form |-> Answer.form, pool |-> Answer.pool, form_no |-> Answer.form_no]
Claim == [run |-> Answer.run, combo |-> Answer.combo, experiment |-> Answer.experiment,
          components |-> Answer.components, feedback |-> round, round |-> IF round = 0 THEN Null ELSE round,
          source |-> client.version]
Nested == [sub |-> cur.n_sub, detail |-> cur.n_detail, validity |-> cur.n_validity, mapping |-> cur.n_mapping]
Rows == [sub |-> cur.sub, detail |-> cur.detail, validity |-> cur.validity, mapping |-> cur.mapping]
Relations == SourceGraph(cur.sub.id, cur.mapping, cur.version, {[child |-> 9, factor |-> 1, parent |-> Null]})

SubmitAccepted == /\ SubmittedFormAnswered(Answer)
                  /\ FormPersisted(Answer, request, Task, cur.form, cur.pool, Members)
OrderAccepted == /\ WorkOrderAnswered(OrderAnswer, client.task)
                 /\ WorkOrderPersisted(OrderAnswer, cur.form, cur.pool, Members)
VersionAccepted ==
    IF round = 0
    THEN /\ VersionAnswered(Answer, client.claim, client.task)
         /\ VersionPersisted(Answer, request, cur.form, cur.version, Components)
    ELSE LET source == past[Len(past)] IN
         /\ NextVersionAnswered(Answer, client.claim, client.task, client.claim.source)
         /\ NextVersionPersisted(Answer, request, cur.form, cur.version, Components, cur.feedback,
                                 source.version, source.components)
ExperimentAccepted ==
    /\ ExperimentAnswered(Answer, client.claim, client.task, client.version, request.valid)
    /\ ExperimentPersisted(Answer, request, client.claim.experiment, cur.experiment, cur.form, cur.version)
FeedbackAccepted ==
    /\ FeedbackAnswered(Answer, client.task, client.experiment, "pending")
    /\ FeedbackPersisted(Answer, request, cur.feedback, cur.form, cur.experiment, cur.version)
RegisterAccepted ==
    /\ RegistrationAnswered(Answer, cur.n_sub, cur.n_detail, cur.n_validity, cur.n_mapping)
    /\ RegistrationPersisted(Answer, Nested, request, Rows, cur.version, cur.form, cur.experiment)
    /\ ReportAccepted(request.items, request.formula, <<cur.c1, cur.c2>>, request.codes, cur.sub,
                      cur.detail, Relations)
ReplayAccepted ==
    RegistrationReplayed(Answer, client.registration, cur.n_sub, cur.n_detail, cur.n_validity, cur.n_mapping)

Accepted == CASE stage = "submit" -> SubmitAccepted
              [] stage = "order" -> OrderAccepted
              [] stage = "claim" -> ClaimAnswered(Answer)
              [] stage = "version" -> VersionAccepted
              [] stage = "experiment" -> ExperimentAccepted
              [] stage = "feedback" -> FeedbackAccepted
              [] stage = "register" -> IF replayed THEN ReplayAccepted ELSE RegisterAccepted

\* The objects the service builds from an accepted answer.
Handed == CASE stage = "submit" -> [client EXCEPT !.task = Task]
            [] stage = "claim" -> [client EXCEPT !.claim = Claim]
            [] stage = "version" -> [client EXCEPT !.version = [version |-> Answer.version, combo |-> Answer.combo,
                                                               pool |-> Answer.pool, hash |-> Answer.hash]]
            [] stage = "experiment" -> [client EXCEPT !.experiment = Answer.experiment]
            [] stage = "register" /\ ~replayed -> [client EXCEPT !.registration = Answer]
            [] OTHER -> client

Check ==
    /\ pc = "check"
    /\ IF Accepted
       THEN client' = Handed /\ pc' = "ready" /\ UNCHANGED outcome
       ELSE pc' = "done" /\ outcome' = "FAIL_CONTRACT" /\ UNCHANGED client
    /\ UNCHANGED <<cur, past, pastFb, request, stage, round, replayed, cleared, tracked, fault, refreshed>>

\* A test may end after any accepted call.
Finish ==
    /\ pc = "ready" /\ ~cleared /\ stage # "none"
    /\ pc' = "done" /\ outcome' = "PASS"
    /\ UNCHANGED <<cur, past, pastFb, client, request, stage, round, replayed, cleared, tracked, fault, refreshed>>

Terminated == pc = "done" /\ UNCHANGED vars

Init == /\ cur = Empty /\ past = <<>> /\ pastFb = <<>>
        /\ client = [task |-> Null, claim |-> Null, version |-> Null, experiment |-> Null, registration |-> Null]
        /\ request = Null /\ stage = "none" /\ round = 0 /\ pc = "ready"
        /\ replayed = FALSE /\ cleared = FALSE /\ tracked = {} /\ fault = FALSE
        /\ refreshed = FALSE /\ outcome = Null

Next == \/ \E d \in Directions, direct \in BOOLEAN : submit_form(d, direct)
        \/ submit_mixed_parent_and_sub_factor_for_rejection
        \/ get_work_order
        \/ claim_legacy_pipeline
        \/ create_version
        \/ \E valid \in BOOLEAN : write_experiment(valid)
        \/ submit_feedback
        \/ register_report(<<Item(1), Item(2)>>, OwnCodes)
        \/ /\ OtherReports
           /\ \E a \in OtherItems, b \in OtherItems, codes \in OtherCodes : register_report(<<a, b>>, codes)
        \/ replay_request
        \/ RefreshLinks
        \/ clear_experiment_links_for_test
        \/ clear_next_version_links_for_test
        \/ clear_next_version_pointer_for_test
        \/ prepare_feedback_partial_replay_for_test
        \/ clear_registration_marker_for_test
        \/ clear_one_next_version_component_for_test
        \/ set_for_test
        \/ create_version_refused
        \/ prepare_form_for_worker
        \/ Check
        \/ Finish
        \/ Terminated

Spec == Init /\ [][Next]_vars

-----------------------------------------------------------------------------
(* Properties.                                                             *)

\* Every variable has its type; exactly one version is current once the first
\* has been written, and a source version exists for every round that has
\* reached its next version.
TypeOK ==
    /\ pc \in {"ready", "check", "done"} /\ stage \in Stages /\ round \in 0..MaxRounds
    /\ replayed \in BOOLEAN /\ cleared \in BOOLEAN /\ refreshed \in BOOLEAN /\ fault \in BOOLEAN
    /\ outcome \in Outcomes \cup {Null}
    /\ DOMAIN cur = DOMAIN Empty
    /\ Len(past) \in {round, round - 1} /\ Len(pastFb) = (IF round = 0 THEN 0 ELSE round - 1)
    /\ (pc = "done") = (outcome # Null)

\* The rows after the last call, once validated.  The rows behind a repeated
\* registration are not: they are not read again.
Validated == /\ ~cleared /\ (pc = "ready" \/ outcome = "PASS") /\ stage # "none"
             /\ ~(stage = "register" /\ replayed)

\* Whatever field the backend gets wrong, the rows a test has read back and
\* accepts form one chain: form, pool and members of one task; a version with
\* components of its own in that pool, of the claimed combination; an experiment
\* both form and version point to; a feedback row between each two versions, the
\* earlier rejected, with other content under the same combination.
AcceptedIsOneChain ==
    Validated =>
      /\ tracked = {cur.form.id}
      /\ stage \in {"submit", "order"} =>
            /\ cur.form.pool = cur.pool.id /\ cur.pool.form = cur.form.id
            /\ \A m \in {cur.m1, cur.m2} : m.form = cur.form.id /\ m.pool = cur.pool.id
      /\ stage \in {"version", "experiment", "register"} =>
            /\ cur.form.version = cur.version.id
            /\ stage = "version" => cur.version.pool = cur.form.pool
            /\ round = 0 => cur.version.combo = client.claim.combo
            /\ \A c \in Components : c.version = cur.version.id
      /\ stage \in {"experiment", "register"} =>
            /\ cur.version.experiment = cur.experiment.id
            /\ cur.form.experiment = cur.experiment.id
            /\ cur.experiment.combo = cur.version.combo
      /\ stage = "register" =>
            /\ cur.mapping.hash = cur.version.hash /\ cur.mapping.combo = cur.version.combo
            /\ cur.mapping.sub = cur.sub.id /\ cur.detail.factor = cur.sub.id
            /\ cur.experiment.valid = TRUE
      /\ stage = "version" =>
            \A i \in DOMAIN past :
              LET next == IF i < Len(past) THEN past[i + 1].version ELSE cur.version
              IN /\ past[i].version.status = "rejected"
                 /\ next.combo = past[i].version.combo /\ next.hash # past[i].version.hash
      /\ stage = "version" /\ round > 0 =>
            LET source == past[Len(past)]
            IN /\ cur.feedback.source_version = source.version.id
               /\ cur.feedback.source_experiment = source.experiment.id
               /\ cur.feedback.next_version = cur.version.id

\* A backend that makes no mistake is never blamed: without a fault no call
\* ends in FAIL_CONTRACT, repeated requests and half-finished states included.
\* Three cases are excepted in which the code does blame it: a work order with
\* a member of direction -1 (_required_response_int wants at least 1), a
\* refresh that links its summaries before the client has read the validity
\* row, and a registration whose version id is not the combination's id.
OwnReport == stage = "register" => request.items = <<Item(1), Item(2)>> /\ request.codes = OwnCodes
SoundIsAccepted ==
    /\ ~fault /\ OwnReport
    /\ ~(stage = "order" /\ cur.m1.snapshots = {-1})
    /\ ~refreshed
    /\ ~(stage = "register" /\ cur.version.id # Combo)
    => outcome # "FAIL_CONTRACT"

\* The report's components are matched greedily; when that succeeds no other
\* assignment of report components to rows would have been possible, so every
\* direction and weight was compared with the row it belongs to.
Assignments == {f \in [1..2 -> 1..2] : f[1] # f[2]}
MatchingIsForced ==
    Validated /\ stage = "register" =>
      LET rows == <<cur.c1, cur.c2>>
          possible == {f \in Assignments : \A i \in 1..2 : Names(request.items[i], rows[f[i]], request.codes)}
      IN possible = {Taken(request.items, rows, request.codes)}

\* docs/automation-test-framework-design.md: the mapping's combo_id is the
\* business id of the combination.  A registration that says so, undamaged, is
\* accepted.
BusinessIdAccepted ==
    ~fault /\ OwnReport /\ ~refreshed /\ stage = "register" => outcome # "FAIL_CONTRACT"
=============================================================================
