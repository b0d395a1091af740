--------------------------- MODULE RegistrationRows ---------------------------
(***************************************************************************)
(* What register_real_result_and_refresh accepts of a registration: the    *)
(* answer with its nested objects (_validate_registration_response), the   *)
(* rows behind it (validate_registration_persistence and its helpers) and  *)
(* the report's formula, components and sources                            *)
(* (validate_registered_formula_and_sources).  TRUE is return, FALSE is    *)
(* FAIL_CONTRACT.                                                          *)
(***************************************************************************)
EXTENDS ComboPersistence

RefreshStatuses == {"queued", "running", "completed", "failed", "not_configured", "submit_failed"}
SummaryIds == {"ts_summary", "cs_summary"}

\* _validate_registration_response and _validate_nested_identity: the nested
\* objects repeat the identities of the answer.
NestedIdentitiesFit(a, sub, detail, validity, mapping) ==
    /\ sub.id = a.sub /\ sub.name # Null /\ sub.type = 1
    /\ detail.id = a.detail /\ detail.factor = a.sub /\ detail.is_sub = TRUE
    /\ validity.id = a.validity /\ validity.factor = a.sub /\ validity.is_sub = TRUE
    /\ mapping.id = a.registration /\ mapping.combo = a.version
    /\ mapping.sub = a.sub /\ mapping.hash = a.hash

RegistrationAnswered(a, sub, detail, validity, mapping) ==
    /\ Present(a, {"version", "combo", "sub", "detail", "validity", "registration", "hash"})
    /\ a.type = 1
    /\ NestedIdentitiesFit(a, sub, detail, validity, mapping)

\* What the repetition of a registration has to repeat of the first answer.
ReplayFields == {"version", "combo", "sub", "detail", "validity", "registration", "type", "hash", "task"}

\* The repetition of a registration is only held against the first answer; the
\* rows are not read again.  A repetition with empty nested objects or without
\* the sub-factor's name, which the code lets pass, is no case of its own.
RegistrationReplayed(a, first, sub, detail, validity, mapping) ==
    /\ a.registered = TRUE /\ a.replay = TRUE
    /\ RegistrationAnswered(a, sub, detail, validity, mapping)
    /\ \A f \in ReplayFields : a[f] = first[f]
    /\ a.refresh \in RefreshStatuses \ {"not_configured", "submit_failed"}

\* _validate_registration_cross_entity_pointers.
PointersFit(a, request, version, form, experiment) ==
    /\ form.id = a.form /\ form.session = request.session /\ form.run = request.run
    /\ form.version = version.id
    /\ a.combo = version.combo /\ a.version = version.id /\ a.hash = version.hash
    /\ experiment.combo = version.combo
    /\ version.experiment = experiment.id /\ form.experiment = experiment.id
    /\ experiment.valid = TRUE

\* _compare_registration_request_to_database: the report and the validity
\* snapshot are stored as requested; metadata repeats the report if it has one.
RequestStored(request, sub, detail, validity) ==
    /\ detail.report = request.report
    /\ sub.report \in {Null, request.report}
    /\ validity.snapshot = request.validity

MappingPersisted(a, version, mapping) ==
    /\ Same(a, version, {<<"version", "id">>, <<"combo", "combo">>, <<"hash", "hash">>})
    /\ Same(a, mapping, {<<"registration", "id">>, <<"hash", "hash">>, <<"sub", "sub">>})
    /\ mapping.combo = a.combo
    /\ version.status = "active"

\* The rows are those of an enabled composite sub-factor, its validity row not
\* yet linked to a summary.
FlagsPersisted(r) ==
    /\ r.sub.type = 1 /\ r.detail.is_sub = TRUE /\ r.detail.enabled = 1 /\ r.validity.is_sub = TRUE
    /\ \A f \in SummaryIds : r.validity[f] = Null

\* n is the answer's nested objects, r the rows of the same four tables.
NestedStored(n, r) == \A part \in DOMAIN n : \A f \in DOMAIN n[part] : n[part][f] = r[part][f]

RegistrationPersisted(a, n, request, r, version, form, experiment) ==
    /\ a.registered = TRUE /\ a.replay \in BOOLEAN /\ a.type = 1
    /\ a.refresh \in RefreshStatuses /\ a.task # Null
    /\ a.detail = r.detail.id /\ a.validity = r.validity.id /\ a.sub = r.sub.id
    /\ MappingPersisted(a, version, r.mapping)
    /\ FlagsPersisted(r)
    /\ PointersFit(a, request, version, form, experiment)
    /\ NestedStored(n, r)
    /\ RequestStored(request, r.sub, r.detail, r.validity)

-----------------------------------------------------------------------------
(* The report.                                                             *)

\* The formula of the report is stored in four places.
FormulaStored(formula, sub, detail) ==
    /\ formula # Null
    /\ sub.formula = formula /\ detail.formula = formula
    /\ detail.params_formula = formula /\ sub.metadata_formula = formula

\* A report component with a sub-factor id names a row by it, one without by
\* a code or name; codes[s] are the normalized code, name and serial number of
\* sub-factor s.
Names(item, row, codes) ==
    IF item.id # Null THEN row.sub = item.id
    ELSE \E c \in {item.code, item.name} \ {Null} : c \in codes[row.sub]

\* The rows no earlier component has taken that component i of the report names.
Candidates(before, i, report, rows, codes) ==
    {r \in DOMAIN rows \ {before[j] : j \in DOMAIN before} : Names(report[i], rows[r], codes)}

\* Mutant: the first of several candidates is taken.
TakeFirst(before, i, report, rows, codes) ==
    LET candidates == Candidates(before, i, report, rows, codes) IN
    IF Len(before) = i - 1 /\ candidates # {}
    THEN Append(before, CHOOSE r \in candidates : TRUE)
    ELSE before

\* One turn of the loop over the report's components: component i must have
\* exactly one candidate; after one that has not, nothing is taken any more.
TakeNext(before, i, report, rows, codes) ==
    LET candidates == Candidates(before, i, report, rows, codes) IN
    IF Len(before) = i - 1 /\ Cardinality(candidates) = 1
    THEN Append(before, CHOOSE r \in candidates : TRUE)
    ELSE before

\* The loop: taken[i] maps the first i components to their rows.
Taken(report, rows, codes) ==
    LET taken[i \in 0..Len(report)] ==
          IF i = 0 THEN <<>> ELSE TakeNext(taken[i - 1], i, report, rows, codes)
    IN  taken[Len(report)]

\* Weights are compared without their sign; the tolerance of 1e-8 is far below
\* the unit of the model's weights.
SameMagnitude(reported, stored) ==
    /\ reported \in Int /\ stored \in Int
    /\ reported = stored \/ reported = -stored

\* A matched pair agrees on parent, direction and weight; a row without a weight
\* belongs to a model artifact that names its algorithm, feature or replay
\* ("artifact"), and is reported without one.
PairFits(item, row) ==
    /\ item.factor \in {Null, row.factor}
    /\ item.direction = row.direction
    /\ IF row.weight = Null
       THEN row.transform = "artifact" /\ item.weight = Null
       ELSE SameMagnitude(item.weight, row.weight)

\* get_registered_source_relations: the version the mapping leads to, and the
\* relations of the sub-factor; nothing without a mapping.
SourceGraph(sub, mapping, version, relations) ==
    IF mapping.sub = sub /\ mapping.combo = version.combo /\ mapping.hash = version.hash
    THEN relations ELSE {}

\* At least one relation of the new sub-factor leads to a component.
SourceTraceable(relations, rows, sub) ==
    \E rel \in relations :
        /\ rel.child = sub
        /\ \/ rel.factor # Null /\ \E i \in DOMAIN rows : rows[i].factor = rel.factor
           \/ rel.parent # Null /\ \E i \in DOMAIN rows : rows[i].sub = rel.parent

ReportAccepted(report, formula, rows, codes, sub, detail, relations) ==
    LET taken == Taken(report, rows, codes) IN
    /\ FormulaStored(formula, sub, detail)
    /\ report # <<>> /\ Len(report) = Len(rows)
    /\ Len(taken) = Len(report)
    /\ \A i \in DOMAIN report : PairFits(report[i], rows[taken[i]])
    /\ SourceTraceable(relations, rows, sub.id)
=============================================================================
