--------------------------- MODULE ComboPersistence ---------------------------
(***************************************************************************)
(* The response validators of the worker interfaces (require_... of        *)
(* FactorComboService) and the persistence checks                          *)
(* (FactorComboPersistenceMixin): what a test accepts of an answer, and of *)
(* the rows it reads back afterwards.  Every operator is TRUE when the     *)
(* code returns, FALSE when it raises FAIL_CONTRACT (or RuntimeError for   *)
(* require_submitted_form and the claim).                                  *)
(*                                                                         *)
(* Answers and rows are records with the fields the checks read; the       *)
(* queries are SELECT *, so no column of a row is ever absent, and a NULL  *)
(* column is the value Null.  Two fields that are present are compared by  *)
(* the value they stand for, whatever its spelling (a number as a string,  *)
(* a JSON text), and a value is one member of a set here.                  *)
(***************************************************************************)
EXTENDS Integers, Sequences, FiniteSets

CONSTANTS Null,     \* NULL column, JSON null
          Absent,   \* an optional field the answer does not have
          Other     \* a well-formed value of another task

FormStatuses == {"submitted", "processing", "completed"}
ComboStatuses == {"draft", "testing", "candidate", "rejected", "active", "deprecated"}
FeedbackStatuses == {"pending", "processing", "completed", "failed", "legacy_failed"}

\* _compare_explicit_fields: each answered field has the value of its column.
\* Null equals Null; an identity column must hold a value on both sides.
Same(answer, row, pairs) == \A p \in pairs : answer[p[1]] = row[p[2]]
Present(row, fields) == \A f \in fields : row[f] # Null

IdsOf(rows, field) == {rows[i][field] : i \in DOMAIN rows}
Distinct(rows, field) == Cardinality(IdsOf(rows, field)) = Len(rows)

-----------------------------------------------------------------------------
(* Answers.                                                                *)

\* _required_response_int: the least integer accepted is 1.
RequiredInt(x) == x \notin {Null, Other} /\ x >= 1

\* Mutant: only a new row is accepted.
ReplayFlagStrict(a) == a.replay = FALSE /\ a.http = 201
\* An answer that reports what it wrote: 200 is a replay, 201 a new row.
ReplayFlagFits(a) == a.replay = (a.http = 200)

SubmittedFormAnswered(a) ==
    /\ Present(a, {"form", "pool", "form_no"})
    /\ a.status \in FormStatuses

WorkOrderAnswered(a, task) ==
    /\ a.form = task.form /\ a.pool = task.pool
    /\ a.status \in FormStatuses
    /\ task.form_no # Null => a.form_no = task.form_no
    /\ Present(a, {"form_no", "hash", "json", "spec"})
    /\ Len(a.members) >= 2
    /\ Distinct(a.members, "component") /\ Distinct(a.members, "sub")
    /\ \A i \in DOMAIN a.members :
          /\ Present(a.members[i], {"component", "sub", "factor", "code"})
          /\ RequiredInt(a.members[i].direction) /\ a.members[i].direction \in {-1, 1}

\* require_combo_version: the identities are those of the claim.
VersionAnswered(a, claim, task) ==
    /\ a.form = task.form /\ a.pool = task.pool
    /\ a.form_status \in {"processing", "completed"}
    /\ a.run = claim.run /\ a.combo = claim.combo
    /\ Present(a, {"family", "hash", "version"})
    /\ a.combo_status \in ComboStatuses
    /\ a.count = Cardinality(claim.components)
    /\ ReplayFlagFits(a)

\* require_next_version: the source version gives combination and pool, the
\* identity and the content are new.
NextVersionAnswered(a, claim, task, source) ==
    /\ a.form = task.form
    /\ a.form_status \in {"processing", "completed"}
    /\ a.run = claim.run
    /\ a.feedback = claim.feedback
    /\ claim.round # Null => a.round = claim.round
    /\ a.feedback_status \in FeedbackStatuses
    /\ a.combo = source.combo /\ a.pool = source.pool
    /\ Present(a, {"family", "hash", "version", "round"})
    /\ a.version # source.version /\ a.hash # source.hash
    /\ a.combo_status \in ComboStatuses
    /\ a.count = Cardinality(claim.components)
    /\ ReplayFlagFits(a)

ExperimentAnswered(a, claim, task, version, valid) ==
    /\ a.experiment # Null
    /\ a.external = claim.experiment
    /\ a.form = task.form
    /\ a.version = version.version /\ a.combo = version.combo
    /\ a.form_status = "completed"
    /\ a.combo_status \in ComboStatuses
    /\ ReplayFlagFits(a)
    /\ a.valid \in {Absent, valid}

FeedbackAnswered(a, task, experiment, status) ==
    /\ a.recorded = TRUE /\ a.replay \in BOOLEAN
    /\ a.status \in FeedbackStatuses
    /\ status # Null => a.status = status
    /\ a.reply = 2
    /\ a.form = task.form
    /\ a.experiment = experiment
    /\ a.form_status \in {"processing", "completed", "failed"}
    /\ a.valid = FALSE
    /\ Present(a, {"feedback", "round", "rejected"})

\* _worker_form_from_claim.
ClaimAnswered(a) == a.components # {} /\ Present(a, {"run", "combo", "experiment"})

-----------------------------------------------------------------------------
(* Rows.                                                                   *)

\* validate_submitted_form_persistence: one form, one pool, and members that
\* keep the order of the filter.
DetailFits(m) ==
    IF m.detail = Null
    THEN m.detail_record = Null /\ m.detail_factor = Null
    ELSE /\ m.detail_record # Null => m.detail_record = m.detail
         /\ m.detail_factor # Null => m.detail_factor = m.sub

FormRowPersisted(a, request, task, form, pool) ==
    /\ Same(a, form, {<<"form", "id">>, <<"form_no", "form_no">>, <<"status", "status">>, <<"pool", "pool">>})
    /\ Same(request, form, {<<"session", "session">>, <<"json", "json">>})
    /\ request.session = task.session
    /\ Same(a, pool, {<<"pool", "id">>, <<"form", "form">>})
    /\ form.pool # Null /\ form.pool = pool.id

MembersPersisted(request, task, pool, members) ==
    /\ Len(members) >= 2
    /\ \A i \in DOMAIN members :
          /\ members[i].form = task.form /\ members[i].pool = task.pool
          /\ Present(members[i], {"form", "pool", "sub", "order"})
          /\ DetailFits(members[i])
    /\ Distinct(members, "sub")
    /\ IdsOf(members, "order") = 0..(Len(members) - 1)
    /\ pool.filter = [i \in DOMAIN members |-> members[i].sub]
    /\ request.direct /\ Len(request.names) = Len(members) =>
          request.names = [i \in DOMAIN members |-> members[i].name]

FormPersisted(a, request, task, form, pool, members) ==
    FormRowPersisted(a, request, task, form, pool) /\ MembersPersisted(request, task, pool, members)

\* _compare_work_order_members: a row of the pool, the parent the answer names
\* (one of the row's, whose relations are counted, with the code at the same
\* place), and the direction its snapshots agree on.
MemberRowFits(row, form, pool) ==
    /\ row.form = form /\ row.pool = pool
    /\ DetailFits(row)
    /\ row.detail # Null => row.detail_kind \in {Null, "sub_factor"}
ParentFits(m, row) ==
    /\ Distinct(row.parents, "factor") /\ Null \notin IdsOf(row.parents, "code")
    /\ \E i \in DOMAIN row.parents : row.parents[i].factor = m.factor /\ row.parents[i].code = m.code
SnapshotsFit(m, row) == \A d \in row.snapshots : Cardinality(row.snapshots) = 1 /\ m.direction = d

MembersAnswered(a, members) ==
    /\ Len(a.members) = Len(members)
    /\ Distinct(a.members, "sub") /\ Distinct(members, "sub")
    /\ IdsOf(a.members, "sub") = IdsOf(members, "sub")
    /\ \A i \in DOMAIN members : MemberRowFits(members[i], a.form, a.pool)
    /\ \A i \in DOMAIN a.members, j \in DOMAIN members :
          LET m == a.members[i] row == members[j] IN
          m.sub = row.sub => ParentFits(m, row) /\ SnapshotsFit(m, row) /\ m.name = row.name

WorkOrderPersisted(a, form, pool, members) ==
    /\ Same(a, form, {<<"form", "id">>, <<"form_no", "form_no">>, <<"status", "status">>,
                      <<"pool", "pool">>, <<"json", "json">>})
    /\ Same(a, pool, {<<"pool", "id">>, <<"hash", "hash">>})
    /\ a.spec # Null /\ form.spec \in {Null, a.spec}
    /\ MembersAnswered(a, members)

\* _compare_component_collections, and the content of a version's components.
Content(components) == {[sub |-> c.sub, factor |-> c.factor, direction |-> c.direction,
                         transform |-> c.transform, weight |-> c.weight] : c \in components}
OwnComponents(components, version) ==
    /\ \A c \in components : c.version = version /\ Present(c, {"sub", "factor"})
    /\ Cardinality({c.sub : c \in components}) = Cardinality(components)
ComponentsPersisted(requested, components, version) ==
    OwnComponents(components, version) /\ Content(components) = requested

\* _validate_next_version_component_lineage.
ContentIsNew(source, sourceComponents, components) ==
    /\ OwnComponents(sourceComponents, source.id)
    /\ sourceComponents # {}
    /\ \A c \in sourceComponents \cup components : c.direction \in {1, -1} /\ c.transform # Null
    /\ Content(sourceComponents) # Content(components)

VersionRowPersisted(a, request, form, version, components) ==
    /\ Same(a, version, {<<"version", "id">>, <<"combo", "combo">>, <<"family", "family">>,
                         <<"pool", "pool">>, <<"hash", "hash">>, <<"combo_status", "status">>})
    /\ Same(a, form, {<<"form", "id">>, <<"form_status", "status">>, <<"run", "run">>})
    /\ request.method = version.method
    /\ request.run = form.run
    /\ form.version = a.version
    /\ form.pool = version.pool
    /\ ComponentsPersisted(request.components, components, a.version)
    /\ a.count = Cardinality(components)
    /\ version.experiment = Null

VersionPersisted(a, request, form, version, components) ==
    /\ VersionRowPersisted(a, request, form, version, components)
    /\ request.combo = version.combo
    /\ version.initial_form = a.form

\* _validate_next_version_feedback_links.
FeedbackLinked(a, feedback, version, source, form) ==
    /\ a.version # source.id /\ a.hash # source.hash
    /\ Present(source, {"id", "hash", "combo", "family", "pool"})
    /\ Same(a, source, {<<"combo", "combo">>, <<"family", "family">>, <<"pool", "pool">>})
    /\ source.status = "rejected"
    /\ a.feedback = feedback.id
    /\ feedback.source_version = source.id
    /\ feedback.source_experiment = source.experiment
    /\ feedback.form = a.form
    /\ feedback.next_version = a.version
    /\ feedback.next_run # Null /\ feedback.next_run = a.run
    /\ feedback.next_experiment = Null
    /\ form.version = a.version

NextVersionPersisted(a, request, form, version, components, feedback, source, sourceComponents) ==
    /\ VersionRowPersisted(a, request, form, version, components)
    /\ ContentIsNew(source, sourceComponents, components)
    /\ Same(a, feedback, {<<"feedback", "id">>, <<"round", "round">>, <<"feedback_status", "status">>})
    /\ FeedbackLinked(a, feedback, version, source, form)

\* validate_experiment_persistence: the row, the pointers of form and version
\* to it, and the outcome as requested and as answered.
ExperimentRowPersisted(a, external, experiment, form, version) ==
    /\ a.external = external
    /\ Same(a, experiment, {<<"experiment", "id">>, <<"external", "external">>, <<"combo", "combo">>})
    /\ a.version = version.id /\ a.combo = version.combo
    /\ Same(a, form, {<<"form", "id">>, <<"form_status", "status">>}) /\ a.form_status = "completed"

\* Mutant: the form's pointer is not compared.
ExperimentHalfLinked(a, request, form, version) ==
    /\ version.experiment = a.experiment
    /\ form.version = version.id
    /\ request.run = form.run
ExperimentLinked(a, request, form, version) ==
    /\ version.experiment = a.experiment
    /\ form.experiment = a.experiment
    /\ form.version = version.id
    /\ request.run = form.run

OutcomePersisted(a, request, experiment, version) ==
    /\ request.valid = experiment.valid /\ a.valid \in {Absent, request.valid}
    /\ request.valid = (request.reason = Null)
    /\ a.combo_status = version.status

\* _compare_experiment_request_to_database.
ExperimentRequestStored(request, experiment) ==
    Same(request, experiment, {<<"payload", "payload">>, <<"reason", "reason">>})

ExperimentPersisted(a, request, external, experiment, form, version) ==
    /\ ExperimentRowPersisted(a, external, experiment, form, version)
    /\ ExperimentLinked(a, request, form, version)
    /\ OutcomePersisted(a, request, experiment, version)
    /\ ExperimentRequestStored(request, experiment)

\* validate_feedback_persistence: the row, and the rejection it records.
FeedbackRowPersisted(a, request, feedback, form, experiment) ==
    /\ a.reply = 2 /\ request.reply = 2
    /\ Same(a, feedback, {<<"feedback", "id">>, <<"round", "round">>, <<"status", "status">>, <<"form", "form">>,
                          <<"experiment", "source_experiment">>, <<"rejected", "source_version">>})
    /\ Same(request, feedback, {<<"form", "form">>, <<"run", "source_run">>, <<"text", "text">>})
    /\ request.session = form.session
    /\ Same(a, form, {<<"form", "id">>, <<"form_status", "status">>})
    /\ a.experiment = experiment.id

RejectionPersisted(a, request, feedback, form, experiment, version) ==
    /\ a.valid = FALSE /\ experiment.valid = FALSE
    /\ version.status = "rejected"
    /\ a.rejected = version.id
    /\ version.experiment # Null /\ feedback.source_experiment = version.experiment
    /\ feedback.form = form.id
    /\ \A f \in {"next_version", "next_run", "next_experiment"} : feedback[f] = Null
    /\ feedback.source_version = version.id
    /\ request.text # Null /\ request.text = experiment.reason
    /\ \A f \in {"run", "version", "experiment"} : form[f] = Null

FeedbackPersisted(a, request, feedback, form, experiment, version) ==
    /\ FeedbackRowPersisted(a, request, feedback, form, experiment)
    /\ RejectionPersisted(a, request, feedback, form, experiment, version)
=============================================================================
