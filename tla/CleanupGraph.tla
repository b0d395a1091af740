----------------------------- MODULE CleanupGraph -----------------------------
(***************************************************************************)
(* FactorComboCleanupMixin.clean_test_graph (db/factor_combo_cleanup.py):  *)
(* in one transaction, everything that hangs on the form of a test scope   *)
(* is found, checked for activity, identity and references from outside,   *)
(* and then deleted table by table.                                        *)
(*                                                                         *)
(* The database is a set of rows and a set of references <<from, column,   *)
(* to>>; a NULL column is a missing reference.  Rows with number 1 were    *)
(* made for the scope's form, rows with number 2 belong to others.  Others *)
(* may add a reference while the transaction runs.                         *)
(*                                                                         *)
(* The schema is external: deleting a row that is still referenced fails,  *)
(* except that a form may keep the number of a deleted pool (the code      *)
(* deletes the pool first) and that the tables with an is_sub_factor_id    *)
(* column hold numbers of two tables and so are under no key.              *)
(***************************************************************************)
EXTENDS Naturals, Sequences, FiniteSets

CONSTANTS MaxForeign,  \* bound on the references from outside
          NullOwners   \* pool members of others may have no form

ASSUME CleanupAssumption ==
    /\ MaxForeign \in Nat
    /\ NullOwners \in BOOLEAN

VARIABLES rows, refs,  \* the database as the transaction sees it
          committed,   \* the database as the others see it
          run,         \* pipeline run of the form: "none", "active", "ended"
          refresh,     \* refresh of the sub-factor: "none", "active", "ended"
          odd,         \* an identity column of the scope's version, experiment,
                       \* metric or registration is missing or disagrees
          step,        \* position in Steps, 0 before the decision
          plan,        \* the rows the decision found
          disturbed,   \* others changed something after the decision
          tracked,     \* _test_parent_factor_ids_by_form of the scope's owners
          result       \* how the cleanup ended

dbVars == <<rows, refs, committed>>
factVars == <<run, refresh, odd>>
vars == <<dbVars, factVars, step, plan, disturbed, tracked, result>>

Row(t, n) == [t |-> t, n |-> n]
Ref(t, n, col, u, k) == <<Row(t, n), col, Row(u, k)>>

Undecided == "none"
Results == {Undecided, "kept", "deleted", "refused", "blocked", "db_error"}

-----------------------------------------------------------------------------
(* The database.                                                            *)

\* What a test leaves behind, by how far its research got.
GraphStages == <<
    {Ref("message", 1, "session", "session", 1)},
    {Ref("form", 1, "session", "session", 1),
     Ref("binding", 1, "parent", "temp", 1), Ref("binding", 1, "child", "sub", 2)},
    {Ref("pool", 1, "form", "form", 1), Ref("form", 1, "pool", "pool", 1),
     Ref("member", 1, "pool", "pool", 1), Ref("member", 1, "form", "form", 1)},
    {Ref("version", 1, "form", "form", 1), Ref("version", 1, "pool", "pool", 1),
     Ref("form", 1, "version", "version", 1), Ref("component", 1, "version", "version", 1),
     Ref("component", 1, "source", "factor", 1)},
    {Ref("version", 1, "experiment", "experiment", 1), Ref("form", 1, "experiment", "experiment", 1),
     Ref("experiment", 1, "metric", "metric", 1), Ref("metric", 1, "experiment", "experiment", 1)},
    {Ref("registration", 1, "sub", "sub", 1), Ref("registration", 1, "version", "version", 1),
     Ref("calculated", 1, "sub", "sub", 1), Ref("refresh", 1, "sub", "sub", 1),
     Ref("detail", 1, "sub", "sub", 1),
     Ref("relation", 1, "child", "sub", 1), Ref("relation", 1, "parent", "factor", 1)},
    {Ref("feedback", 1, "form", "form", 1), Ref("feedback", 1, "version", "version", 1)} >>

\* Everything of the first k stages; a form may turn out to be in session home.
ScopeRefs(k, home) ==
    {r \in UNION {GraphStages[i] : i \in 1..k} : home = 1 \/ r[1].t # "form" \/ r[2] # "session"}
        \cup IF home = 1 THEN {} ELSE {Ref("form", 1, "session", "session", home)}

\* How rows of others may use the scope's rows.
ForeignRefs == {
    Ref("form", 2, "session", "session", 1), Ref("form", 2, "pool", "pool", 1),
    Ref("form", 2, "version", "version", 1), Ref("form", 2, "experiment", "experiment", 1),
    Ref("version", 2, "pool", "pool", 1), Ref("version", 2, "experiment", "experiment", 1),
    Ref("member", 2, "pool", "pool", 1), Ref("member", 2, "sub", "sub", 1),
    Ref("registration", 2, "sub", "sub", 1), Ref("component", 2, "sub", "sub", 1),
    Ref("relation", 2, "parent", "sub", 1), Ref("relation", 3, "child", "sub", 1),
    Ref("feedback", 2, "version", "version", 1), Ref("feedback", 2, "experiment", "experiment", 1),
    Ref("experiment", 2, "metric", "metric", 1),
    Ref("component", 2, "source", "temp", 1), Ref("binding", 2, "parent", "temp", 1)}

RowsOf(s) == {r[1] : r \in s} \cup {r[3] : r \in s}

\* The rest of such a row: a member or feedback has a form unless ownerless.
Companions(r, ownerless) ==
    CASE r[1].t \in {"member", "feedback"} /\ r[1] \notin ownerless ->
            {Ref(r[1].t, r[1].n, "form", "form", 2)}
      [] r[1].t = "component" -> {Ref("component", 2, "version", "version", 2)}
      [] r[1].t = "relation" /\ r[2] = "child" -> {Ref("relation", r[1].n, "parent", "factor", 2)}
      [] OTHER -> {}

WithForeign(s, extra, ownerless) ==
    s \cup extra \cup UNION {Companions(r, ownerless) : r \in extra}

Ownerless == IF NullOwners THEN {Row("member", 2)} ELSE {}

Init ==
    /\ \E k \in 1..Len(GraphStages) : \E home \in 1..(IF k = 2 THEN 2 ELSE 1) :
       LET scope == ScopeRefs(k, home) IN
       \E extra \in {s \in SUBSET {r \in ForeignRefs : r[3] \in RowsOf(scope)} :
                        Cardinality(s) <= MaxForeign} :
          /\ refs = WithForeign(scope, extra, Ownerless)
          /\ run \in (IF k < 2 THEN {"none"} ELSE {"none", "active", "ended"})
          /\ refresh \in (IF k < 6 THEN {"none"} ELSE {"active", "ended"})
          /\ odd \in (IF k < 4 THEN {FALSE} ELSE BOOLEAN)
    /\ rows = RowsOf(refs)
    /\ committed = [rows |-> rows, refs |-> refs]
    /\ step = 0
    /\ plan = {}
    /\ disturbed = FALSE
    /\ tracked = {Row("temp", 1)} \cap rows
    /\ result = Undecided

-----------------------------------------------------------------------------
(* Finding and checking.                                                    *)

To(s, col) == {r[3] : r \in {x \in refs : x[1] \in s /\ x[2] = col}}
From(t, col, s) == {r[1] : r \in {x \in refs : x[1].t = t /\ x[2] = col /\ x[3] \in s}}

\* A form that is gone must not reach the statements.
Forms == {Row("form", 1)} \cap rows

\* _fetch_versions_for_forms
Versions == From("version", "form", Forms) \cup To(Forms, "version")
                \cup To(From("feedback", "form", Forms), "version")
Pools == To(Versions, "pool") \cup To(Forms, "pool")
Experiments == To(Versions, "experiment") \cup To(Forms, "experiment")
Metrics == From("metric", "experiment", Experiments)
Registrations == From("registration", "version", Versions)
SubFactors == To(Registrations, "sub")

\* _expected_lineage_relations: the sources of the scope's own components.
OwnRelations == From("relation", "child", SubFactors)
                    \cap From("relation", "parent", To(From("component", "version", Versions), "source"))

\* "NOT IN": false for NULL.
InOtherForm(s) == {x \in s : To({x}, "form") # {} /\ To({x}, "form") \cap Forms = {}}
InNoForm(s) == {x \in s : To({x}, "form") = {}}

SharedPool ==
    \/ From("version", "pool", Pools) \ Versions # {}
    \/ LET members == From("member", "pool", Pools)
       IN  InOtherForm(members) \cup InNoForm(members) # {}
    \/ From("form", "pool", Pools) \ Forms # {}

LineageNotChecked ==
    \/ From("registration", "sub", SubFactors) \ Registrations # {}
    \/ From("relation", "parent", SubFactors) # {}
    \/ From("component", "sub", SubFactors) \ From("component", "version", Versions) # {}
    \/ InOtherForm(From("member", "sub", SubFactors)) # {}

SharedSubFactor ==
    \/ From("registration", "sub", SubFactors) \ Registrations # {}
    \/ From("relation", "parent", SubFactors) # {}
    \/ From("relation", "child", SubFactors) \ OwnRelations # {}
    \/ From("component", "sub", SubFactors) \ From("component", "version", Versions) # {}
    \/ InOtherForm(From("member", "sub", SubFactors)) # {}

OtherFeedback(s) == InOtherForm(s) \cup InNoForm(s)

SharedExperiment ==
    \/ From("version", "experiment", Experiments) \ Versions # {}
    \/ From("form", "experiment", Experiments) \ Forms # {}
    \/ From("experiment", "metric", Metrics) \ Experiments # {}

SharedVersion ==
    \/ From("form", "version", Versions) \ Forms # {}
    \/ OtherFeedback(From("feedback", "version", Versions)) # {}
    \/ Versions # {} /\ OtherFeedback(From("feedback", "experiment", Experiments)) # {}

PoolsNotChecked == SharedSubFactor \/ SharedExperiment \/ SharedVersion
SubFactorsNotChecked == SharedPool \/ SharedExperiment \/ SharedVersion

HasExternalReferences == SharedPool \/ SharedSubFactor \/ SharedExperiment \/ SharedVersion

HasActivePipelineRuns == Forms # {} /\ run = "active"
HasActiveRefreshes == SubFactors # {} /\ refresh = "active"

\* Sessions with no other form; the scope's own session only.
SessionsWithoutRemainingForms ==
    {s \in {Row("session", 1)} \cap rows : From("form", "session", {s}) \subseteq Forms}

End(r) == result' = r /\ UNCHANGED <<dbVars, factVars, step, plan, disturbed, tracked>>

\* The form is in another session than the test recorded: nothing is read on.
RefuseForeignForm ==
    /\ step = 0
    /\ result = Undecided
    /\ To(Forms, "session") \ {Row("session", 1)} # {}
    /\ End("refused")

\* Any doubt keeps the whole graph, without an error.
Keep ==
    /\ step = 0
    /\ result = Undecided
    /\ To(Forms, "session") \subseteq {Row("session", 1)}
    /\ HasActivePipelineRuns \/ odd \/ HasExternalReferences \/ HasActiveRefreshes
    /\ End("kept")

Decide ==
    /\ step = 0
    /\ result = Undecided
    /\ To(Forms, "session") \subseteq {Row("session", 1)}
    /\ ~(HasActivePipelineRuns \/ odd \/ HasExternalReferences \/ HasActiveRefreshes)
    /\ step' = 1
    /\ plan' = UNION {Forms, Versions, Pools, Experiments, Metrics, Registrations,
                      SubFactors, SessionsWithoutRemainingForms}
    /\ UNCHANGED <<dbVars, factVars, disturbed, tracked, result>>

-----------------------------------------------------------------------------
(* Deleting.                                                                *)

Delete(t, by, of) == [op |-> "delete", t |-> t, by |-> by, of |-> of]
Clear(t, cols) == [op |-> "clear", t |-> t, by |-> "id", of |-> cols]
CleanParents == [op |-> "parents", t |-> "temp", by |-> "id", of |-> {}]

\* The statements of clean_test_graph in their order.
Steps == <<
    Delete("registration", "id", "registration"), Delete("calculated", "sub", "sub"),
    Delete("refresh", "sub", "sub"),
    Delete("feedback", "form", "form"), Delete("component", "version", "version"),
    Delete("member", "form", "form"), Delete("detail", "sub", "sub"),
    Delete("relation", "child", "sub"), Delete("sub", "id", "sub"),
    Clear("form", {"version", "experiment"}), Clear("experiment", {"metric"}),
    Clear("version", {"experiment"}), Delete("metric", "id", "metric"),
    Delete("experiment", "id", "experiment"), Delete("version", "id", "version"),
    Delete("pool", "form", "form"), Delete("form", "id", "form"),
    CleanParents,
    Delete("message", "session", "session"), Delete("session", "id", "session")>>

\* _clean_test_parent_factors: a temporary factor goes with the relations the
\* test gave it, unless anything else uses it.
OwnParents ==
    LET bindings == {Row("binding", 1)} \cap rows
        free == {f \in tracked \cap rows : {r[1] : r \in {x \in refs : x[3] = f}} \subseteq bindings}
    IN  free \cup {b \in bindings : To({b}, "parent") \subseteq free}

\* The rows a statement is about.
Affected(s) ==
    CASE s.op = "parents" -> OwnParents
      [] s.op # "parents" /\ s.by = "id" -> {x \in rows \cap plan : x.t = s.t}
      [] OTHER -> From(s.t, s.by, {x \in plan : x.t = s.of})

UnderNoKey(r) == r[1].t \in {"calculated", "detail"} \/ (r[1].t = "form" /\ r[2] = "pool")

\* Another row still refers to one of xs by a foreign key.
Restricted(xs) == \E r \in refs : r[3] \in xs /\ r[1] \notin xs /\ ~UnderNoKey(r)

NotRolledBack(r) ==
    /\ result' = r
    /\ UNCHANGED <<dbVars, factVars, step, plan, disturbed, tracked>>

RollBack(r) ==
    /\ rows' = committed.rows
    /\ refs' = committed.refs
    /\ result' = r
    /\ UNCHANGED <<committed, factVars, step, plan, disturbed, tracked>>

Statement ==
    /\ step \in 1..Len(Steps)
    /\ result = Undecided
    /\ LET s == Steps[step] IN
       \/ /\ s.op # "clear"
          /\ ~Restricted(Affected(s))
          /\ rows' = rows \ Affected(s)
          /\ refs' = {r \in refs : r[1] \notin Affected(s)}
       \/ /\ s.op = "clear"
          /\ refs' = {r \in refs : ~(r[1] \in Affected(s) /\ r[2] \in s.of)}
          /\ UNCHANGED rows
    /\ step' = step + 1
    /\ UNCHANGED <<committed, factVars, plan, disturbed, tracked, result>>

StatementBlocked ==
    /\ step \in 1..Len(Steps)
    /\ result = Undecided
    /\ Steps[step].op # "clear"
    /\ Restricted(Affected(Steps[step]))
    /\ RollBack("blocked")

\* Any statement, and the commit, may also fail on its own.
DatabaseError ==
    /\ step > 0
    /\ result = Undecided
    /\ RollBack("db_error")

ForgetAllParents ==
    /\ step > Len(Steps)
    /\ result = Undecided
    /\ committed' = [rows |-> rows, refs |-> refs]
    /\ result' = "deleted"
    /\ tracked' = {}
    /\ UNCHANGED <<rows, refs, factVars, step, plan, disturbed>>

\* The commit, and then the temporary factors that are gone are forgotten.
Commit ==
    /\ step > Len(Steps)
    /\ result = Undecided
    /\ committed' = [rows |-> rows, refs |-> refs]
    /\ result' = "deleted"
    /\ tracked' = tracked \cap rows
    /\ UNCHANGED <<rows, refs, factVars, step, plan, disturbed>>

\* Others refer to a row of the scope that they, and the transaction, still see.
Interfere(r) ==
    /\ step > 0
    /\ result = Undecided
    /\ ~disturbed
    /\ r[3] \in rows
    /\ r \notin refs
    /\ refs' = WithForeign(refs, {r}, Ownerless)
    /\ rows' = rows \cup RowsOf(refs' \ refs)
    /\ committed' = [rows |-> committed.rows \cup RowsOf(refs' \ refs),
                     refs |-> committed.refs \cup (refs' \ refs)]
    /\ disturbed' = TRUE
    /\ UNCHANGED <<factVars, step, plan, tracked, result>>

Terminated == result # Undecided /\ UNCHANGED vars

Next == \/ RefuseForeignForm \/ Keep \/ Decide \/ Statement \/ StatementBlocked
        \/ DatabaseError \/ Commit \/ Terminated
        \/ \E r \in ForeignRefs : Interfere(r)

Spec == Init /\ [][Next]_vars

-----------------------------------------------------------------------------
(* Properties.                                                              *)

\* The transaction works on a part of what the others see, and plans to delete
\* only rows that exist.
TypeOK ==
    /\ \A r \in refs : r[1] \in rows
    /\ rows \subseteq committed.rows
    /\ refs \subseteq committed.refs
    /\ result = Undecided => plan \subseteq committed.rows
    /\ step \in 0..Len(Steps) + 1
    /\ tracked \subseteq {Row("temp", 1)}
    /\ run \in {"none", "active", "ended"}
    /\ refresh \in {"none", "active", "ended"}
    /\ odd \in BOOLEAN
    /\ disturbed \in BOOLEAN
    /\ result \in Results

\* No row that stays refers to a deleted one, whatever others added meanwhile;
\* only a form that is pointed at the pool during the deletion may be left so.
NoDanglingReference ==
    result # Undecided =>
        \A r \in refs : r[3] \in rows \/ (disturbed /\ r[1].t = "form" /\ r[2] = "pool")

\* The whole graph of the scope goes or stays: after a deletion nothing of it is
\* left but a session or a temporary factor others use, and every other end
\* leaves all rows as they were, also when a statement in the middle failed.
AllOrNothing ==
    /\ result = "deleted" =>
          \A x \in rows : x.n = 1 => \/ x.t = "factor"
                                     \/ /\ x.t \in {"session", "message"}
                                        /\ Row("form", 2) \in rows
                                     \/ /\ x.t \in {"temp", "binding"}
                                        /\ \E r \in refs : r[3] = Row("temp", 1) /\ r[1].n # 1
    /\ result \notin {Undecided, "deleted"} => rows = committed.rows /\ refs = committed.refs

\* No step of a cleanup deletes a row of others; only a lineage relation to the
\* scope's own sub-factor that they add during the deletion can be lost.
OthersKept ==
    [][\A x \in rows \ rows' : x.n = 1 \/ (disturbed /\ x.t = "relation")]_vars

\* A temporary factor that is still in the database, because others use it or
\* the cleanup did not commit, stays on record for a later cleanup.
LeftoverStaysTracked == committed.rows \cap {Row("temp", 1)} \subseteq tracked

\* The checks see every reference that a foreign key would stop the deletion
\* for, and the statements are in an order the keys allow: unless others
\* interfere, a cleanup that starts to delete is never blocked.
BlockedOnlyByInterference == result = "blocked" => disturbed
=============================================================================
