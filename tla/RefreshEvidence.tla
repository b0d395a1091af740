---------------------------- MODULE RefreshEvidence ----------------------------
(***************************************************************************)
(* verify_database_refresh_evidence and validate_core_metric_coverage: the *)
(* acceptance of a Performance Refresh from four queries that share no     *)
(* snapshot, compared with an older answer of the detail API.  The caller  *)
(* is the registration flow, which knows the runs from the answer of the   *)
(* refresh task, or the audit of a registered factor, which reads them     *)
(* from the validity rows itself.                                          *)
(*                                                                         *)
(* The calculation backend is external.  A refresh calculates each scope   *)
(* in one run (or both in the same), writes the summary and slice rows of  *)
(* a scope for all windows together, and updates the validity row of each  *)
(* window in place.  Rows become visible in any order that respects the    *)
(* foreign keys, also after the task was reported completed, and a row may *)
(* be rewritten in place with other figures.  Refresh 2                    *)
(* begins when refresh 1 is written and writes its results together, so    *)
(* that only its links and its completion interleave.  The backend writes  *)
(* no rows of other factors, malformed rows or contradicting values.       *)
(***************************************************************************)
EXTENDS Integers, FiniteSets

CONSTANTS Windows,              \* windows, one factor_validity_status row each
          MaxTechnicalRetries   \* settings.max_technical_retries

ASSUME EvidenceAssumption ==
    /\ IsFiniteSet(Windows) /\ Windows # {}
    /\ MaxTechnicalRetries \in Int

VARIABLES setting,    \* who calls, what the refresh answered, how it writes
          completed,  \* runs whose factor_ic_runs row says completed
          summary,    \* <<refresh, scope>> -> factor_ic_summary_metrics rows
          sliced,     \* refreshes with factor_ic_slice_metrics rows
          link,       \* window -> scope -> refresh its summary id refers to
          figures,    \* the other figures of the row the detail API showed
          pc, attempt,
          api,        \* the row shown by the detail API, as it was
          ids,        \* refresh_run_ids
          seen,       \* rows the queries of the attempt returned
          outcome,
          quiet       \* history: nothing was written since the attempt began,
                      \* and the refresh asked for was whole then

dbVars == <<completed, summary, sliced, link, figures>>
vars == <<setting, dbVars, pc, attempt, api, ids, seen, outcome, quiet>>

Refreshes == {1, 2}
None == 0
Scopes == {"time_series", "cross_sectional"}
Parts == Refreshes \X Scopes

\* "per_run": one result object per run; "per_refresh": one object with
\* time_series_run_id and cross_sectional_run_id; "none": no run id at all.
Answers == {"per_run", "per_refresh", "none"}
Settings ==
    [caller: {"flow"}, answer: Answers, split: BOOLEAN, atOnce: BOOLEAN]
        \cup [caller: {"audit"}, answer: {"per_run"}, split: BOOLEAN, atOnce: BOOLEAN]

RunOf(p) == IF setting.split THEN p ELSE <<p[1], "both">>
Runs == {RunOf(p) : p \in Parts}
RunsOf(g) == {RunOf(p) : p \in {g} \X Scopes}

NoLink == [s \in Scopes |-> None]
Unread == [validity |-> [w \in Windows |-> NoLink], calculation |-> {}, details |-> {},
           figures |-> "as_shown"]
NothingShown == [shows |-> "nothing", metrics |-> {}, validity |-> {}]

\* Apart from its links and from whether it has core values, a row has IC,
\* scores, statuses and periods, which may be written again.
Figures == {"as_shown", "rewritten"}

\* Refresh g is calculated, linked and visible as a whole.
Whole(g) ==
    /\ RunsOf(g) \subseteq completed
    /\ \A s \in Scopes : summary[<<g, s>>] = "full"
    /\ g \in sliced
    /\ \A w \in Windows : link[w] = [s \in Scopes |-> g]

Begun(g) ==
    \/ RunsOf(g) \cap completed # {}
    \/ \E s \in Scopes : summary[<<g, s>>] # "absent"
    \/ g \in sliced

Retries == IF MaxTechnicalRetries > 0 THEN MaxTechnicalRetries ELSE 0

Init ==
    /\ setting \in Settings
    /\ LET done == IF setting.caller = "audit" THEN {1} ELSE {}
       IN  /\ completed = UNION {RunsOf(g) : g \in done}
           /\ summary = [p \in Parts |-> IF p[1] \in done THEN "full" ELSE "absent"]
           /\ sliced = done
           /\ link = [w \in Windows |-> [s \in Scopes |-> IF done = {} THEN None ELSE 1]]
    /\ figures = "as_shown"
    /\ pc = "api"
    /\ attempt = 0
    /\ api = NothingShown
    /\ ids = {}
    /\ seen = Unread
    /\ outcome = "none"
    /\ quiet = (setting.caller = "audit")

-----------------------------------------------------------------------------
(* The calculation backend.                                                *)

CompleteRun ==
    /\ \E r \in (UNION {RunsOf(p[1]) : p \in {q \in Parts : summary[q] # "absent"}}) \ completed :
          completed' = completed \cup {r}
    /\ UNCHANGED <<summary, sliced, link, figures>>

\* A row of refresh 1 is inserted with its values, or filled later.
WriteSummary ==
    /\ \E p \in {1} \X Scopes :
          \/ summary[p] = "absent" /\ \E v \in {"null", "full"} : summary' = [summary EXCEPT ![p] = v]
          \/ summary[p] = "null" /\ summary' = [summary EXCEPT ![p] = "full"]
    /\ UNCHANGED <<completed, sliced, link, figures>>

WriteSlices ==
    /\ 1 \notin sliced
    /\ sliced' = sliced \cup {1}
    /\ UNCHANGED <<completed, summary, link, figures>>

\* Refresh 2 writes its results together.
WriteSecond ==
    /\ Whole(1) /\ ~Begun(2)
    /\ summary' = [p \in Parts |-> "full"]
    /\ sliced' = Refreshes
    /\ UNCHANGED <<completed, link, figures>>

\* One statement for the row, or one for each scope.
LinkRow ==
    \E g \in Refreshes, w \in Windows, S \in (IF setting.atOnce THEN {Scopes} ELSE {{s} : s \in Scopes}) :
        /\ \A s \in S : link[w][s] < g /\ summary[<<g, s>>] # "absent"
        /\ link' = [link EXCEPT ![w] = [s \in Scopes |-> IF s \in S THEN g ELSE @[s]]]
        /\ UNCHANGED <<completed, summary, sliced, figures>>

\* The figures of the row that the detail API showed are corrected in place,
\* just before they are read; no query tells an earlier correction, or that of
\* another row, from another order of writing.
RewriteRow ==
    /\ api.shows = "row"
    /\ pc = IF api.validity # {} THEN "validity" ELSE "calculation"
    /\ figures' = "rewritten"
    /\ UNCHANGED <<completed, summary, sliced, link>>

\* Nothing is asked after the call.
Backend ==
    /\ pc # "done"
    /\ CompleteRun \/ WriteSummary \/ WriteSlices \/ WriteSecond \/ LinkRow \/ RewriteRow
    /\ quiet' = FALSE
    /\ UNCHANGED <<setting, pc, attempt, api, ids, seen, outcome>>

-----------------------------------------------------------------------------
(* What the code takes from the rows it read: V the validity rows by       *)
(* window, C the summary rows with the status of their run, D the run      *)
(* master rows.                                                            *)

LinkedRuns(row) == {RunOf(<<row[s], s>>) : s \in {t \in Scopes : row[t] # None}}
RunsLinkedBy(V, W) == UNION {LinkedRuns(V[w]) : w \in W}

Candidates(V) == {w \in Windows : V[w] # NoLink}
Selected(V, I) ==
    IF I = {} THEN Candidates(V) ELSE {w \in Candidates(V) : LinkedRuns(V[w]) \cap I # {}}

FirstOnly(R) == IF R = {} THEN {} ELSE {CHOOSE r \in R : \A q \in R : r[2] = "time_series" \/ q[2] # "time_series"}

\* _extract_refresh_run_ids, and the runs _extract_refresh_run_contexts has a
\* context for: only the first run key of an object.
AnsweredRunIds == IF setting.answer = "none" THEN {} ELSE RunsOf(1)
RunContexts(I) == IF setting.answer = "per_refresh" THEN FirstOnly(I) ELSE I

NotLinked(V, I) == Selected(V, I) = {}

OneRowOnly(V, I) == I = {} /\ Cardinality(Candidates(V)) # 1
NamedRunsOnly(V, I) == I # {} /\ ~(RunsLinkedBy(V, Selected(V, I)) \subseteq I)

\* The selected rows belong to more than one batch of runs.
AmbiguousRuns(V, I) ==
    IF I = {} THEN Cardinality({LinkedRuns(V[w]) : w \in Candidates(V)}) # 1
              ELSE ~(RunsLinkedBy(V, Selected(V, I)) \subseteq I)

ExpectedRuns(V, I) == IF I = {} THEN RunsLinkedBy(V, Selected(V, I)) ELSE I
MetricsOf(C, E) == {c \in C : c.run \in E}

RunNotLinked(V, I) == ~(I \subseteq RunsLinkedBy(V, Selected(V, I)))
RunNotCompleted(M) == \E c \in M : ~c.completed
RunNotPopulated(M, E) == \E r \in E : \A c \in M : c.run = r => c.value = "null"
MasterRowMissing(D, E) == \E r \in E : [run |-> r, completed |-> TRUE] \notin D

ContextMissing(E, I) == RunContexts(I) # {} /\ ~(E \subseteq RunContexts(I))
SummaryMissing(V, M, I) ==
    \E w \in Selected(V, I), s \in Scopes :
        V[w][s] # None /\ <<V[w][s], s>> \notin {c.part : c \in M}

\* _compare_api_and_database_refresh_data with the older answer of the detail
\* API.  A container without a row is refused, and a validity row with a summary
\* id that is null.
ApiIsBare == api.shows = "bare"

\* A summary row it showed must be among the rows of the expected runs, with the
\* figures shown; one shown without core values (explicit nulls) must have none.
MetricFieldsDiffer(S, m, c) == S.figures = "rewritten" \/ c.value # m.value
MetricDiffers(S, M) ==
    \E m \in api.metrics :
        ~\E c \in M : c.part = m.part /\ ~MetricFieldsDiffer(S, m, c)

\* A validity row it showed must be one of the selected rows, with the summary
\* ids and figures shown.
ValidityFieldsDiffer(S) == S.figures = "rewritten"
ValidityDiffers(S, I) ==
    \E v \in api.validity :
        \/ S.validity[v.window] # v.link
        \/ v.window \notin Selected(S.validity, I)
        \/ ValidityFieldsDiffer(S)

\* _validate_database_refresh_evidence, in the order of its checks.
Verdict(S, I) ==
    LET V == S.validity
        E == ExpectedRuns(V, I)
        M == MetricsOf(S.calculation, E)
    IN  IF NotLinked(V, I) THEN "FAIL_REFRESH"
        ELSE IF AmbiguousRuns(V, I) THEN "FAIL_CONTRACT"
        ELSE IF \/ RunNotLinked(V, I) \/ RunNotCompleted(M)
                \/ RunNotPopulated(M, E) \/ MasterRowMissing(S.details, E)
             THEN "FAIL_REFRESH"
        ELSE IF \/ ContextMissing(E, I) \/ SummaryMissing(V, M, I)
                \/ ApiIsBare \/ MetricDiffers(S, M) \/ ValidityDiffers(S, I)
             THEN "FAIL_CONTRACT"
        ELSE "accepted"

\* validate_core_metric_coverage: every scope that an accepted row links has
\* summary rows with core values and raw slices.
LinkedScopes(V, I) == {s \in Scopes : \E w \in Selected(V, I) : V[w][s] # None}
SlicesOnly(S, slices, I) ==
    \A s \in LinkedScopes(S.validity, I) : \E p \in slices : p[2] = s

Covered(S, slices, I) ==
    \A s \in LinkedScopes(S.validity, I) :
        LET rows == {c \in MetricsOf(S.calculation, ExpectedRuns(S.validity, I)) : c.part[2] = s}
        IN  /\ rows # {}
            /\ \A c \in rows : c.value = "full"
            /\ \E p \in slices : p[2] = s

-----------------------------------------------------------------------------
(* The queries and the steps of the caller.                                *)

ValidityRows == link
CalculationRows ==
    {[part |-> p, run |-> RunOf(p), value |-> summary[p],
      completed |-> RunOf(p) \in completed] :
        p \in {q \in Parts : summary[q] # "absent"}}
RunDetails == {[run |-> c.run, completed |-> c.completed] : c \in CalculationRows}
SliceRows(R) == {p \in Parts : p[1] \in sliced /\ RunOf(p) \in R}

\* The rows the detail answer may show: a time-series summary row that some
\* validity row links, or a validity row.  They are compared one by one, so one
\* of them stands for the answer.  A container of the metrics without a row, while
\* nothing is linked, and a validity row without both summary ids are "bare".
LinkedSummaries == {p \in Parts : p[2] = "time_series" /\ \E w \in Windows : link[w][p[2]] = p[1]}
ShownMetrics ==
    {[shows |-> "row", metrics |-> {[part |-> p, value |-> summary[p]]}, validity |-> {}] : p \in LinkedSummaries}
LinkedWindows == {w \in Windows : \A s \in Scopes : link[w][s] # None}
ShownValidity ==
    {[shows |-> "row", metrics |-> {}, validity |-> {[window |-> w, link |-> link[w]]}] : w \in LinkedWindows}

ReadApi ==
    /\ pc = "api"
    /\ \/ api' \in {NothingShown} \cup ShownMetrics \cup ShownValidity
       \/ LinkedWindows # Windows /\ api' = [NothingShown EXCEPT !.shows = "bare"]
    /\ IF setting.caller = "flow"
       THEN ids' = AnsweredRunIds /\ quiet' = (Whole(1) /\ ~Begun(2)) /\ pc' = "validity"
       ELSE UNCHANGED <<ids, quiet>> /\ pc' = "audit"
    /\ UNCHANGED <<setting, dbVars, attempt, seen, outcome>>

\* audit_registered_factor_core_data: the runs of all linked validity rows.
AuditRunIds ==
    /\ pc = "audit"
    /\ ids' = RunsLinkedBy(ValidityRows, Candidates(ValidityRows))
    /\ IF ids' = {} THEN outcome' = "FAIL_REFRESH" /\ pc' = "done"
                    ELSE UNCHANGED outcome /\ pc' = "validity"
    /\ UNCHANGED <<setting, dbVars, attempt, api, seen, quiet>>

Read(from, to, rows) ==
    /\ pc = from
    /\ seen' = rows
    /\ pc' = to
    /\ UNCHANGED <<setting, dbVars, attempt, api, ids, outcome, quiet>>

WithValidity ==
    [seen EXCEPT !.validity = ValidityRows,
                 !.figures = IF api.validity # {} THEN figures ELSE @]
WithCalculation ==
    [seen EXCEPT !.calculation = CalculationRows,
                 !.figures = IF api.metrics # {} THEN figures ELSE @]

CalculationsFirst ==
    \/ Read("validity", "calculation", WithCalculation)
    \/ Read("calculation", "details", WithValidity)

ReadValidity == Read("validity", "calculation", WithValidity)
ReadCalculation == Read("calculation", "details", WithCalculation)
ReadDetails == Read("details", "slices", [seen EXCEPT !.details = RunDetails])

QueryFails ==
    /\ pc \in {"audit", "validity", "calculation", "details", "slices"}
    /\ outcome' = "FAIL_TECHNICAL"
    /\ seen' = Unread
    /\ pc' = "done"
    /\ UNCHANGED <<setting, dbVars, attempt, api, ids, quiet>>

\* get_factor_refresh_calculation_slices, and what is decided from the four
\* results without another query.
SliceRuns == IF ids # {} THEN ids ELSE RunsLinkedBy(seen.validity, Windows)

\* The flow asks for refresh 1; the audit keeps the runs it read.
RetryEvidence ==
    /\ pc = "slices"
    /\ Verdict(seen, ids) = "FAIL_REFRESH"
    /\ attempt < Retries
    /\ attempt' = attempt + 1
    /\ seen' = Unread
    /\ pc' = "validity"
    /\ quiet' = IF setting.caller = "flow" THEN Whole(1) /\ ~Begun(2) ELSE quiet
    /\ UNCHANGED <<setting, dbVars, api, ids, outcome>>

RefuseEvidence ==
    /\ pc = "slices"
    /\ Verdict(seen, ids) # "accepted"
    /\ Verdict(seen, ids) = "FAIL_REFRESH" => attempt >= Retries
    /\ outcome' = Verdict(seen, ids)
    /\ seen' = Unread
    /\ pc' = "done"
    /\ UNCHANGED <<setting, dbVars, attempt, api, ids, quiet>>

\* validate_core_metric_coverage is not repeated.
AcceptEvidence ==
    /\ pc = "slices"
    /\ Verdict(seen, ids) = "accepted"
    /\ outcome' = IF Covered(seen, SliceRows(SliceRuns), ids) THEN "accepted" ELSE "FAIL_REFRESH"
    /\ pc' = "done"
    /\ UNCHANGED <<setting, dbVars, attempt, api, ids, seen, quiet>>

Caller == \/ ReadApi \/ AuditRunIds \/ ReadValidity \/ ReadCalculation \/ ReadDetails
          \/ RetryEvidence \/ RefuseEvidence \/ AcceptEvidence

Terminated == pc = "done" /\ UNCHANGED vars

Next == Caller \/ QueryFails \/ Backend \/ Terminated

Spec == Init /\ [][Next]_vars

-----------------------------------------------------------------------------
TypeOK ==
    /\ setting \in Settings
    /\ completed \subseteq Runs
    /\ summary \in [Parts -> {"absent", "null", "full"}]
    /\ sliced \subseteq Refreshes
    /\ link \in [Windows -> [Scopes -> Refreshes \cup {None}]]
    /\ pc \in {"api", "audit", "validity", "calculation", "details", "slices", "done"}
    /\ attempt \in 0..Retries
    /\ figures \in Figures
    /\ api.shows \in {"nothing", "bare", "row"}
    /\ api.metrics \subseteq [part: Parts, value: {"null", "full"}]
    /\ api.validity \subseteq [window: Windows, link: [Scopes -> Refreshes \cup {None}]]
    /\ ids \subseteq Runs
    /\ outcome \in {"none", "accepted", "FAIL_REFRESH", "FAIL_CONTRACT", "FAIL_TECHNICAL"}
    /\ quiet \in BOOLEAN

\* Evidence put together from four reads at different times is true of the
\* database all the same: its runs are completed there, and the summary rows it
\* links exist with their core values.
AcceptedIsTrue ==
    outcome = "accepted" =>
        /\ ExpectedRuns(seen.validity, ids) \subseteq completed
        /\ \A w \in Selected(seen.validity, ids), s \in Scopes :
              seen.validity[w][s] # None =>
                  summary[<<seen.validity[w][s], s>>] = "full"

\* The rows of accepted evidence are of one refresh, the one the flow waited
\* for if the answer named its runs, although a later refresh relinks rows
\* between the reads.  Without named runs this takes a backend that relinks a
\* row by one statement.
AcceptedIsOneRefresh ==
    outcome = "accepted" /\ setting.caller = "flow" /\ (setting.answer # "none" \/ setting.atOnce) =>
        \E g \in Refreshes :
            /\ RunsLinkedBy(seen.validity, Selected(seen.validity, ids)) = RunsOf(g)
            /\ setting.answer # "none" => g = 1

\* The detail answer, which is read once and not again for a retry, is out of
\* date: it showed no row where one was due or a row not yet linked for both
\* scopes, or the row it showed has been filled, rewritten or relinked since.
AnswerOutdated ==
    \/ ApiIsBare
    \/ figures = "rewritten"
    \/ \E m \in api.metrics : summary[m.part] # m.value
    \/ \E v \in api.validity : link[v.window] # v.link

\* A refresh whose rows only become visible late is waited for: FAIL_CONTRACT,
\* which is never retried, needs another refresh that wrote too, a row shown by
\* the detail API that has changed since, an answer with one object for two
\* runs, or two runs that the answer does not name and that are linked one after
\* the other.
LatenessIsNoContradiction ==
    outcome = "FAIL_CONTRACT" =>
        \/ Begun(2)
        \/ AnswerOutdated
        \/ setting.split /\ setting.answer = "per_refresh"
        \/ setting.split /\ setting.answer = "none" /\ ~setting.atOnce

\* A refresh that is whole before the last attempt begins, and is not followed
\* by another one, is accepted unless a query fails or a row shown by the detail
\* API has changed since.
WholeIsAccepted ==
    pc = "done" /\ quiet /\ ~AnswerOutdated /\ ~(setting.answer = "per_refresh" /\ setting.split) =>
        outcome \in {"accepted", "FAIL_TECHNICAL"}

\* The context of a run that the answer names by its id alone is left to the
\* run master table: naming runs by id never ends in FAIL_CONTRACT while only
\* this refresh writes (docstring of _extract_refresh_run_contexts).  It does not
\* hold: an object with both run ids gives a context for the first only.
NamedRunsSuffice ==
    outcome = "FAIL_CONTRACT" /\ setting.answer # "none" => Begun(2) \/ AnswerOutdated
=============================================================================
