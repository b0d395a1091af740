------------------------- MODULE CleanupGraphProofs -------------------------
(***************************************************************************)
(* The cleanup of a test graph for any number of references from outside:  *)
(* the graph goes as a whole or stays as a whole, rows of others stay, no  *)
(* reference is left dangling, and only interference blocks a deletion.    *)
(***************************************************************************)
EXTENDS CleanupGraph, TLAPS

-----------------------------------------------------------------------------
(* The references there can be, and the inductive invariant.                *)

\* The references that rows of others bring with them, and all there can be.
Companion == {Ref("member", 2, "form", "form", 2), Ref("feedback", 2, "form", "form", 2),
              Ref("component", 2, "version", "version", 2), Ref("relation", 3, "parent", "factor", 2)}
Universe == (UNION {GraphStages[i] : i \in 1..7}) \cup {Ref("form", 1, "session", "session", 2)}
               \cup ForeignRefs \cup Companion

\* The scope has a row in a table.
Has(t) == Row(t, 1) \in rows

\* Rows and references are those of the schema; what the others see is closed
\* under references, and so is what the transaction sees but for the columns
\* under no key; before the decision the two are the same.
BaseInv ==
    /\ refs \subseteq Universe
    /\ rows \subseteq RowsOf(Universe)
    /\ \A r \in committed.refs : r[1] \in committed.rows /\ r[3] \in committed.rows
    /\ \A r \in refs : r[3] \in rows \/ (step > 0 /\ UnderNoKey(r))
    /\ step = 0 => ~disturbed /\ rows = committed.rows /\ refs = committed.refs

\* A row of the scope that a statement finds by a column has that column set as
\* long as it is there: no statement before it clears the column.
ColumnInv ==
    /\ \A t \in {"calculated", "refresh", "detail"} : Has(t) => Ref(t, 1, "sub", "sub", 1) \in refs
    /\ \A t \in {"feedback", "member", "pool"} : Has(t) => Ref(t, 1, "form", "form", 1) \in refs
    /\ Has("component") => Ref("component", 1, "version", "version", 1) \in refs
    /\ Has("relation") => Ref("relation", 1, "child", "sub", 1) \in refs
    /\ Has("message") => Ref("message", 1, "session", "session", 1) \in refs
    /\ Has("binding") => Ref("binding", 1, "parent", "temp", 1) \in refs

\* When clean_test_graph reads the graph, every row of the scope can be found
\* from the form; unless members may lack a form, those of others have one.
StartInv ==
    step = 0 =>
        /\ Has("version") => Ref("version", 1, "form", "form", 1) \in refs
        /\ Has("pool") => Ref("form", 1, "pool", "pool", 1) \in refs
        /\ Has("experiment") => Ref("form", 1, "experiment", "experiment", 1) \in refs /\ Has("version")
        /\ Has("metric") => Ref("metric", 1, "experiment", "experiment", 1) \in refs
        /\ Has("registration") => Ref("registration", 1, "version", "version", 1) \in refs
        /\ Has("sub") => Ref("registration", 1, "sub", "sub", 1) \in refs
        /\ ~NullOwners => \A r \in refs : r[1] = Row("member", 2) =>
                              Ref("member", 2, "form", "form", 2) \in refs

\* The tables the decision lists by id, and the references of others that stop
\* no deletion of a listed row.
PlannedTypes == {"form", "version", "pool", "experiment", "metric", "registration", "sub"}
Harmless == {Ref("form", 2, "session", "session", 1), Ref("component", 2, "source", "temp", 1),
             Ref("binding", 2, "parent", "temp", 1)}
\* The plan names rows of the scope only, every one that is there or referred
\* to, and the session unless another form is in it; until others interfere, no
\* reference from outside is to a planned row.
PlanInv ==
    step > 0 =>
        /\ \A x \in plan : x.n = 1
        /\ \A t \in PlannedTypes : Has(t) => Row(t, 1) \in plan
        /\ \A r \in refs : r[3].n = 1 /\ r[3].t \in PlannedTypes => r[3] \in plan
        /\ Has("session") => Row("session", 1) \in plan \/ Row("form", 2) \in rows
        /\ ~disturbed => \A r \in refs \cap ForeignRefs :
                            \/ r \in Harmless
                            \/ NullOwners /\ r = Ref("member", 2, "sub", "sub", 1)
        /\ ~disturbed /\ Row("session", 1) \in plan =>
                              Ref("form", 2, "session", "session", 1) \notin refs

\* The statement that deletes the scope's row of a table, and what is gone once
\* the statements before a position have run.
DeletedAt == [registration |-> 1, calculated |-> 2, refresh |-> 3, feedback |-> 4, component |-> 5,
              member |-> 6, detail |-> 7, relation |-> 8, sub |-> 9, metric |-> 13, experiment |-> 14,
              version |-> 15, pool |-> 16, form |-> 17]
GoneInv ==
    /\ \A t \in DOMAIN DeletedAt : step > DeletedAt[t] => ~Has(t)
    /\ step > 10 => /\ Ref("form", 1, "version", "version", 1) \notin refs
                    /\ Ref("form", 1, "experiment", "experiment", 1) \notin refs
    /\ step > 11 => Ref("experiment", 1, "metric", "metric", 1) \notin refs
    /\ step > 12 => Ref("version", 1, "experiment", "experiment", 1) \notin refs
    /\ step > 18 => (Has("temp") \/ Has("binding") =>
                         \E r \in refs : r[3] = Row("temp", 1) /\ r[1].n # 1)
    /\ step > 19 => (Has("message") => Row("session", 1) \notin plan)
    /\ step > 20 => (Has("session") => Row("session", 1) \notin plan)

\* The invariant of a cleanup that has not ended.
WorkInv == BaseInv /\ ColumnInv /\ StartInv /\ PlanInv /\ GoneInv

-----------------------------------------------------------------------------
(* Rows and references.                                                     *)

\* The parts of a row and of a reference.
LEMMA Parts ==
  /\ \A t, n : Row(t, n).t = t /\ Row(t, n).n = n
  /\ \A t, n, c, u, k : /\ Ref(t, n, c, u, k)[1] = Row(t, n)
                        /\ Ref(t, n, c, u, k)[2] = c
                        /\ Ref(t, n, c, u, k)[3] = Row(u, k)
BY DEF Row, Ref

\* Where a reference may come from, by the table it refers to.
OwnSources(r) ==
    /\ r[3].t = "sub" => r[1].t \in {"registration", "calculated", "refresh", "detail", "relation"}
    /\ r[3].t = "metric" => r = Ref("experiment", 1, "metric", "metric", 1)
    /\ r[3].t = "experiment" => \/ r = Ref("version", 1, "experiment", "experiment", 1)
                                \/ r = Ref("form", 1, "experiment", "experiment", 1)
                                \/ r[1].t = "metric"
    /\ r[3].t = "version" => \/ r = Ref("form", 1, "version", "version", 1)
                             \/ r[1].t \in {"component", "registration", "feedback"}
    /\ r[3].t = "pool" => r[1].t \in {"member", "version"} \/ (r[1].t = "form" /\ r[2] = "pool")
    /\ r[3].t = "form" => r[1].t \in {"pool", "member", "version", "feedback"}
    /\ r[3].t = "session" => r[1].t \in {"message", "form"}
    /\ r[3].t = "temp" => r[1].t = "binding"

\* Columns that only rows of the scope fill with a row of the scope, and
\* columns by which a row of the scope refers to rows of the scope only.
OwnColumns == {<<"calculated", "sub">>, <<"refresh", "sub">>, <<"detail", "sub">>,
               <<"feedback", "form">>, <<"member", "form">>, <<"pool", "form">>, <<"version", "form">>,
               <<"component", "version">>, <<"registration", "version">>,
               <<"metric", "experiment">>, <<"message", "session">>}
InnerColumns == {<<"form", "version">>, <<"form", "pool">>, <<"form", "experiment">>,
                 <<"version", "pool">>, <<"version", "experiment">>, <<"feedback", "version">>,
                 <<"registration", "sub">>}
\* The tables no row refers to, and the tables of the scope.
Bottom == {"registration", "calculated", "refresh", "feedback", "component",
           "member", "detail", "relation", "message", "binding"}
OwnTypes == Bottom \cup PlannedTypes \cup {"session", "temp", "factor"}

\* The references of others that are told from the scope's by another column.
OtherColumns(r) ==
    /\ r[1] \in {Row("member", 2), Row("feedback", 2)} /\ r[2] = "form" => r[3] = Row("form", 2)
    /\ r[1] = Row("component", 2) /\ r[2] = "version" => r[3] = Row("version", 2)
    /\ r[1] = Row("relation", 3) /\ r[2] = "parent" => r[3] = Row("factor", 2)
    /\ r[1] = Row("component", 1) /\ r[2] = "source" => r[3] = Row("factor", 1)
    /\ r[1] = Row("binding", 1) /\ r[2] = "parent" => r[3] = Row("temp", 1)

\* What tells the references of the schema apart.
Shape(r) ==
    /\ r[1] = Row(r[1].t, r[1].n) /\ r[3] = Row(r[3].t, r[3].n)
    /\ r[1].n = 1 => r[1].t \in OwnTypes
    /\ r[3].n = 1 => r[3].t \in OwnTypes
    /\ r[3].t \notin Bottom
    /\ r \notin ForeignRefs /\ r[3].n = 1 => r[1].n = 1 /\ OwnSources(r)
    /\ r[3].n = 1 /\ <<r[1].t, r[2]>> \in OwnColumns => r[1].n = 1
    /\ r[1].n = 1 /\ <<r[1].t, r[2]>> \in InnerColumns => r[3] = Row(r[2], 1)
    /\ r[1].t = "relation" /\ r[2] = "child" => r[1].n = 1 \/ r = Ref("relation", 3, "child", "sub", 1)
    /\ r[1].t \in {"calculated", "detail"} => r[1].n = 1
    /\ r[1].t = "form" /\ r[2] = "pool" => r[1].n = 1 \/ r = Ref("form", 2, "pool", "pool", 1)
    /\ r[3].t = "temp" => r[1].t \in {"binding", "component"}
    /\ r[1].t = "form" => r[1].n \in {1, 2}
    /\ OtherColumns(r)

\* A reference is of a stage of the scope's graph or of others.
LEMMA UniverseCases ==
  ASSUME NEW r \in Universe
  PROVE  \/ r \in GraphStages[1] \/ r \in GraphStages[2] \/ r \in GraphStages[3]
         \/ r \in GraphStages[4] \/ r \in GraphStages[5] \/ r \in GraphStages[6]
         \/ r \in GraphStages[7] \/ r = Ref("form", 1, "session", "session", 2)
         \/ r \in ForeignRefs \/ r \in Companion
<1>1. CASE r \in UNION {GraphStages[i] : i \in 1..7}
  <2>1. PICK i \in 1..7 : r \in GraphStages[i]
    BY <1>1
  <2>2. i = 1 \/ i = 2 \/ i = 3 \/ i = 4 \/ i = 5 \/ i = 6 \/ i = 7
    BY <2>1
  <2> QED
    BY <2>1, <2>2
<1>2. \/ r \in UNION {GraphStages[i] : i \in 1..7}
      \/ r = Ref("form", 1, "session", "session", 2) \/ r \in ForeignRefs \/ r \in Companion
  BY Zenon DEF Universe
<1> QED
  BY <1>1, <1>2, Zenon

\* A reference of others goes from a row of others to a row of the scope.
LEMMA ForeignShape ==
  ASSUME NEW r \in ForeignRefs
  PROVE  r[1].n # 1 /\ r[3].n = 1
BY Parts DEF ForeignRefs

\* What every reference of the scope and of others satisfies.
LEMMA UniverseShape ==
  ASSUME NEW r \in Universe
  PROVE  Shape(r)
<1> USE Parts DEF Shape, OwnSources, OwnColumns, InnerColumns, OtherColumns, Bottom, OwnTypes,
                 PlannedTypes
<1>1. CASE r \in GraphStages[1] \/ r \in GraphStages[2] \/ r \in GraphStages[3]
  BY <1>1 DEF GraphStages
<1>2. CASE r \in GraphStages[4] \/ r \in GraphStages[5]
  BY <1>2 DEF GraphStages
<1>3. CASE r \in GraphStages[6] \/ r \in GraphStages[7]
  BY <1>3 DEF GraphStages
<1>4. CASE r = Ref("form", 1, "session", "session", 2) \/ r \in Companion
  BY <1>4 DEF Companion
<1>5. CASE r \in ForeignRefs
  BY <1>5 DEF ForeignRefs
<1> QED
  BY <1>1, <1>2, <1>3, <1>4, <1>5, UniverseCases

-----------------------------------------------------------------------------
(* The statements.                                                          *)

\* The statement that deletes the scope's row of a table.
DeleteOf(t) ==
    IF t \in {"calculated", "refresh", "detail"} THEN Delete(t, "sub", "sub")
    ELSE IF t \in {"feedback", "member", "pool"} THEN Delete(t, "form", "form")
    ELSE IF t = "component" THEN Delete(t, "version", "version")
    ELSE IF t = "relation" THEN Delete(t, "child", "sub")
    ELSE Delete(t, "id", t)

\* The positions of the statements.
LEMMA Statements ==
  /\ Len(Steps) = 20
  /\ \A t \in DOMAIN DeletedAt : DeletedAt[t] \in 1..17 /\ Steps[DeletedAt[t]] = DeleteOf(t)
  /\ Steps[10] = Clear("form", {"version", "experiment"})
  /\ Steps[11] = Clear("experiment", {"metric"})
  /\ Steps[12] = Clear("version", {"experiment"})
  /\ Steps[18] = CleanParents
  /\ Steps[19] = Delete("message", "session", "session")
  /\ Steps[20] = Delete("session", "id", "session")
  /\ \A i \in 1..20 : \/ \E t \in DOMAIN DeletedAt : i = DeletedAt[t]
                      \/ i \in {10, 11, 12, 18, 19, 20}
<1>1. Len(Steps) = 20
  BY DEF Steps
<1>2. DOMAIN DeletedAt = {"registration", "calculated", "refresh", "feedback", "component",
                          "member", "detail", "relation", "sub", "metric", "experiment",
                          "version", "pool", "form"}
  BY DEF DeletedAt
<1>3. \A t \in DOMAIN DeletedAt : DeletedAt[t] \in 1..17 /\ Steps[DeletedAt[t]] = DeleteOf(t)
  BY <1>2 DEF DeletedAt, Steps, DeleteOf
<1>4. /\ Steps[10] = Clear("form", {"version", "experiment"})
      /\ Steps[11] = Clear("experiment", {"metric"})
      /\ Steps[12] = Clear("version", {"experiment"})
      /\ Steps[18] = CleanParents
      /\ Steps[19] = Delete("message", "session", "session")
      /\ Steps[20] = Delete("session", "id", "session")
  BY DEF Steps
<1>5. \A i \in 1..20 : \/ \E t \in DOMAIN DeletedAt : i = DeletedAt[t]
                       \/ i \in {10, 11, 12, 18, 19, 20}
  BY <1>2 DEF DeletedAt
<1> QED
  BY <1>1, <1>3, <1>4, <1>5

\* The rows a statement is about: those it names by id, or by a column.
LEMMA AffectedById ==
  ASSUME NEW s, s.op # "parents", s.by = "id"
  PROVE  Affected(s) = {x \in rows \cap plan : x.t = s.t}
BY DEF Affected

\* The statement that takes the temporary factors and their relations.
LEMMA AffectedParents == Affected(CleanParents) = OwnParents
BY DEF Affected, CleanParents

\* The parts of a statement.
LEMMA Operations ==
  /\ \A t, by, of : /\ Delete(t, by, of).op = "delete" /\ Delete(t, by, of).t = t
                    /\ Delete(t, by, of).by = by /\ Delete(t, by, of).of = of
  /\ \A t, cols : /\ Clear(t, cols).op = "clear" /\ Clear(t, cols).t = t
                  /\ Clear(t, cols).by = "id" /\ Clear(t, cols).of = cols
  /\ CleanParents.op = "parents"
BY DEF Delete, Clear, CleanParents

\* The rows a statement finds by a column.
LEMMA AffectedByColumn ==
  ASSUME NEW t, NEW col, NEW of, col # "id"
  PROVE  Affected(Delete(t, col, of)) = From(t, col, {x \in plan : x.t = of})
<1> DEFINE s == Delete(t, col, of)
<1>1. s.op = "delete" /\ s.t = t /\ s.by = col /\ s.of = of
  BY Operations
<1>2. Affected(s) = From(s.t, s.by, {x \in plan : x.t = s.of})
  BY <1>1 DEF Affected
<1> QED
  BY <1>1, <1>2

\* Rows found by a column.
LEMMA FromElement ==
  ASSUME NEW t, NEW col, NEW s, NEW x
  PROVE  x \in From(t, col, s) <=>
           \E r \in refs : r[1] = x /\ r[1].t = t /\ r[2] = col /\ r[3] \in s
BY DEF From

\* Rows a column refers to.
LEMMA ToElement ==
  ASSUME NEW s, NEW col, NEW x
  PROVE  x \in To(s, col) <=> \E r \in refs : r[3] = x /\ r[1] \in s /\ r[2] = col
BY DEF To

\* Every table but the session's and its messages' has its statement among the
\* first 17.
LEMMA DeletedTables ==
  DOMAIN DeletedAt = {"registration", "calculated", "refresh", "feedback", "component",
                      "member", "detail", "relation", "sub", "metric", "experiment",
                      "version", "pool", "form"}
BY DEF DeletedAt

\* A statement deletes rows of its table.
LEMMA AffectedTable ==
  ASSUME NEW s, s.op # "parents", NEW x \in Affected(s)
  PROVE  x.t = s.t
<1>1. CASE s.by = "id"
  BY <1>1, AffectedById
<1>2. CASE s.by # "id"
  <2>1. x \in From(s.t, s.by, {y \in plan : y.t = s.of})
    BY <1>2 DEF Affected
  <2> QED
    BY <2>1, FromElement
<1> QED
  BY <1>1, <1>2

\* The scope's row of a table is deleted by the table's statement.
LEMMA DeletesOwn ==
  ASSUME TypeOK, WorkInv, NEW t \in DOMAIN DeletedAt, step = DeletedAt[t], Has(t)
  PROVE  Row(t, 1) \in Affected(Steps[step])
<1>1. Steps[step] = DeleteOf(t) /\ step > 0
  BY Statements
<1>2. Row(t, 1).t = t
  BY Parts
<1>3. CASE t \in {"registration", "sub", "metric", "experiment", "version", "form"}
  <2>1. DeleteOf(t) = Delete(t, "id", t)
    BY <1>3 DEF DeleteOf
  <2>2. Affected(Steps[step]) = {x \in rows \cap plan : x.t = t}
    BY <1>1, <2>1, AffectedById, Operations
  <2>3. Row(t, 1) \in plan
    BY <1>1, <1>3 DEF WorkInv, PlanInv, PlannedTypes
  <2> QED
    BY <1>2, <2>2, <2>3 DEF Has
<1>4. ASSUME NEW col, NEW of, DeleteOf(t) = Delete(t, col, of), col # "id",
             Ref(t, 1, col, of, 1) \in refs, of \in PlannedTypes
      PROVE  Row(t, 1) \in Affected(Steps[step])
  <2>1. Affected(Steps[step]) = From(t, col, {x \in plan : x.t = of})
    BY <1>1, <1>4, AffectedByColumn
  <2> DEFINE r == Ref(t, 1, col, of, 1)
  <2>2. r[1] = Row(t, 1) /\ r[2] = col /\ r[3] = Row(of, 1)
    BY Parts
  <2>3. Row(of, 1).n = 1 /\ Row(of, 1).t = of
    BY Parts
  <2>4. r[3] \in plan
    BY <1>1, <1>4, <2>2, <2>3 DEF WorkInv, PlanInv
  <2>5. \E q \in refs : q[1] = Row(t, 1) /\ q[1].t = t /\ q[2] = col /\ q[3] \in {x \in plan : x.t = of}
    BY <1>2, <1>4, <2>2, <2>3, <2>4
  <2> QED
    BY <2>1, <2>5, FromElement
<1>5. CASE t \in {"calculated", "refresh", "detail"}
  BY <1>4, <1>5 DEF DeleteOf, WorkInv, ColumnInv, PlannedTypes
<1>6. CASE t \in {"feedback", "member", "pool"}
  BY <1>4, <1>6 DEF DeleteOf, WorkInv, ColumnInv, PlannedTypes
<1>7. CASE t = "component"
  BY <1>4, <1>7 DEF DeleteOf, WorkInv, ColumnInv, PlannedTypes
<1>8. CASE t = "relation"
  BY <1>4, <1>8 DEF DeleteOf, WorkInv, ColumnInv, PlannedTypes
<1> QED
  BY <1>3, <1>5, <1>6, <1>7, <1>8, DeletedTables

\* A statement is about rows of the scope that are there, or about a lineage
\* relation that others added to the scope's sub-factor during the deletion.
LEMMA AffectedOwn ==
  ASSUME TypeOK, WorkInv, step \in 1..20, NEW x \in Affected(Steps[step])
  PROVE  x \in rows /\ (x.n = 1 \/ (disturbed /\ x = Row("relation", 3)))
<1>1. ASSUME NEW s, s.op # "parents", s.by = "id", x \in Affected(s) PROVE x \in rows /\ x.n = 1
  BY <1>1, AffectedById DEF WorkInv, PlanInv
<1>2. ASSUME NEW t, NEW col, NEW of, col # "id", x \in Affected(Delete(t, col, of)),
             <<t, col>> \in OwnColumns \/ <<t, col>> = <<"relation", "child">>
      PROVE  x \in rows /\ (x.n = 1 \/ (disturbed /\ x = Row("relation", 3)))
  <2>1. x \in From(t, col, {y \in plan : y.t = of})
    BY <1>2, AffectedByColumn
  <2>2. PICK r \in refs : r[1] = x /\ r[1].t = t /\ r[2] = col /\ r[3] \in plan
    BY <2>1, FromElement
  <2>3. x \in rows /\ r \in Universe /\ r[3].n = 1
    BY <2>2 DEF TypeOK, WorkInv, BaseInv, PlanInv
  <2>4. Shape(r)
    BY <2>3, UniverseShape
  <2>5. CASE <<t, col>> \in OwnColumns
    BY <2>2, <2>3, <2>4, <2>5 DEF Shape
  <2>6. CASE <<t, col>> = <<"relation", "child">>
    <3>1. x.n = 1 \/ r = Ref("relation", 3, "child", "sub", 1)
      BY <2>2, <2>4, <2>6 DEF Shape
    <3>2. ASSUME r = Ref("relation", 3, "child", "sub", 1) PROVE disturbed /\ x = Row("relation", 3)
      <4>1. x = Row("relation", 3) /\ r[3] = Row("sub", 1)
        BY <2>2, <3>2, Parts
      <4>2. r \in ForeignRefs
        BY <3>2 DEF ForeignRefs
      <4>3. r \notin Harmless /\ r # Ref("member", 2, "sub", "sub", 1)
        BY <4>1, <2>2, Parts DEF Harmless
      <4> QED
        BY <4>1, <4>2, <4>3, <2>2 DEF WorkInv, PlanInv
    <3> QED
      BY <2>3, <3>1, <3>2
  <2> QED
    BY <1>2, <2>5, <2>6
<1>3. CASE \E t \in DOMAIN DeletedAt : step = DeletedAt[t]
  <2>1. PICK t \in DOMAIN DeletedAt : step = DeletedAt[t]
    BY <1>3
  <2>2. Steps[step] = DeleteOf(t)
    BY <2>1, Statements
  <2>3. CASE t \in {"registration", "sub", "metric", "experiment", "version", "form"}
    <3>1. DeleteOf(t) = Delete(t, "id", t)
      BY <2>3 DEF DeleteOf
    <3> QED
      BY <1>1, <2>2, <3>1, Operations
  <2>4. CASE t \in {"calculated", "refresh", "detail"}
    <3>1. DeleteOf(t) = Delete(t, "sub", "sub") /\ <<t, "sub">> \in OwnColumns
      BY <2>4 DEF DeleteOf, OwnColumns
    <3> QED
      BY <1>2, <2>2, <3>1
  <2>5. CASE t \in {"feedback", "member", "pool"}
    <3>1. DeleteOf(t) = Delete(t, "form", "form") /\ <<t, "form">> \in OwnColumns
      BY <2>5 DEF DeleteOf, OwnColumns
    <3> QED
      BY <1>2, <2>2, <3>1
  <2>6. CASE t = "component"
    <3>1. DeleteOf(t) = Delete(t, "version", "version") /\ <<t, "version">> \in OwnColumns
      BY <2>6 DEF DeleteOf, OwnColumns
    <3> QED
      BY <1>2, <2>2, <3>1
  <2>7. CASE t = "relation"
    <3>1. DeleteOf(t) = Delete(t, "child", "sub") /\ <<t, "child">> = <<"relation", "child">>
      BY <2>7 DEF DeleteOf
    <3> QED
      BY <1>2, <2>2, <3>1
  <2> QED
    BY <2>3, <2>4, <2>5, <2>6, <2>7, DeletedTables
<1>4. CASE step \in {10, 11, 12}
  BY <1>1, <1>4, Statements, Operations
<1>5. CASE step = 18
  <2>1. x \in OwnParents
    BY <1>5, Statements, AffectedParents
  <2>2. x \in rows /\ (x = Row("temp", 1) \/ x = Row("binding", 1))
    BY <2>1 DEF OwnParents, TypeOK
  <2> QED
    BY <2>2, Parts
<1>6. CASE step = 19
  <2>1. <<"message", "session">> \in OwnColumns
    BY DEF OwnColumns
  <2> QED
    BY <1>2, <1>6, <2>1, Statements
<1>7. CASE step = 20
  BY <1>1, <1>7, Statements, Operations
<1> QED
  BY <1>3, <1>4, <1>5, <1>6, <1>7, Statements

-----------------------------------------------------------------------------
(* A statement of the deletion.                                             *)

\* What a deletion removes, no later step brings back, and nothing that stays
\* refers to it by a foreign key.
LEMMA DeletionStep ==
  ASSUME TypeOK, LeftoverStaysTracked, WorkInv, step \in 1..20, Steps[step].op # "clear",
         NEW xs, xs = Affected(Steps[step]), ~Restricted(xs),
         rows' = rows \ xs, refs' = {r \in refs : r[1] \notin xs}, step' = step + 1,
         UNCHANGED <<committed, factVars, plan, disturbed, tracked, result>>
  PROVE  TypeOK' /\ WorkInv'
<1> USE DEF WorkInv
<1>1. \A x \in xs : x \in rows /\ (x.n = 1 \/ (disturbed /\ x = Row("relation", 3)))
  BY AffectedOwn
<1>2. \A t : Row(t, 1).n = 1 /\ Row(t, 1).t = t
  BY Parts
<1>3. \A t : Has(t)' => Has(t) /\ Row(t, 1) \notin xs
  BY DEF Has
<1>4. \A r \in refs : r[1] \notin xs => r \in refs'
  OBVIOUS
<1>5. \A r \in refs' : r \in refs /\ r[1] \in rows' /\ r[1] \notin xs
  BY DEF TypeOK
<1>6. TypeOK'
  BY <1>5, Statements DEF TypeOK, factVars
<1>7. BaseInv'
  <2>1. \A r \in refs' : r[3] \in rows' \/ UnderNoKey(r)
    <3> TAKE r \in refs'
    <3>1. r[3] \in rows \/ UnderNoKey(r)
      BY <1>5 DEF BaseInv
    <3>2. r[3] \in xs => UnderNoKey(r)
      BY <1>5 DEF Restricted
    <3> QED
      BY <3>1, <3>2
  <2>2. step' > 0
    OBVIOUS
  <2>3. refs' \subseteq Universe /\ rows' \subseteq RowsOf(Universe)
    BY <1>5 DEF BaseInv
  <2> QED
    BY <2>1, <2>2, <2>3 DEF BaseInv, UnderNoKey
<1>8. ColumnInv'
  <2>1. \A t, c, u : Ref(t, 1, c, u, 1)[1] = Row(t, 1)
    BY Parts
  <2>2. \A t, c, u : Has(t)' /\ Ref(t, 1, c, u, 1) \in refs => Ref(t, 1, c, u, 1) \in refs'
    BY <1>3, <1>4, <2>1
  <2> QED
    BY <1>3, <2>2 DEF ColumnInv
<1>9. StartInv'
  BY DEF StartInv
<1>10. PlanInv'
  <2>1. Row("form", 2) \in rows => Row("form", 2) \in rows'
    <3>1. Row("form", 2).n = 2 /\ Row("form", 2).t = "form" /\ Row("relation", 3).t = "relation"
      BY Parts
    <3> QED
      BY <1>1, <3>1
  <2>2. step > 0
    OBVIOUS
  <2> QED
    BY <1>3, <1>5, <2>1, <2>2 DEF PlanInv
<1>11. GoneInv'
  <2>1. ASSUME NEW t \in DOMAIN DeletedAt, step' > DeletedAt[t] PROVE ~Has(t)'
    <3>1. DeletedAt[t] \in 1..17
      BY Statements
    <3>2. CASE step > DeletedAt[t]
      BY <1>3, <3>2 DEF GoneInv
    <3>3. CASE step = DeletedAt[t]
      BY <1>3, <3>3, DeletesOwn
    <3> QED
      BY <2>1, <3>1, <3>2, <3>3
  <2>2. step # 10 /\ step # 11 /\ step # 12
    BY Statements, Operations
  <2>3. /\ step' > 10 => /\ Ref("form", 1, "version", "version", 1) \notin refs'
                         /\ Ref("form", 1, "experiment", "experiment", 1) \notin refs'
        /\ step' > 11 => Ref("experiment", 1, "metric", "metric", 1) \notin refs'
        /\ step' > 12 => Ref("version", 1, "experiment", "experiment", 1) \notin refs'
    BY <1>5, <2>2 DEF GoneInv
  <2>4. ASSUME step' > 18, Has("temp")' \/ Has("binding")'
        PROVE  \E r \in refs' : r[3] = Row("temp", 1) /\ r[1].n # 1
    <3>1. ASSUME NEW r \in refs, r[3] = Row("temp", 1), r[1].n # 1 PROVE r \in refs'
      <4>1. Shape(r) /\ r[3].t = "temp" /\ Row("relation", 3).t = "relation"
        BY <3>1, UniverseShape, Parts DEF BaseInv
      <4>2. r[1].t # "relation"
        BY <4>1 DEF Shape
      <4> QED
        BY <1>1, <1>4, <3>1, <4>1, <4>2
    <3>2. CASE step > 18
      BY <1>3, <2>4, <3>1, <3>2 DEF GoneInv
    <3>3. CASE step = 18
      <4> DEFINE bindings == {Row("binding", 1)} \cap rows
                 free == {f \in tracked \cap rows : {r[1] : r \in {x \in refs : x[3] = f}} \subseteq bindings}
      <4>1. xs = free \cup {b \in bindings : To({b}, "parent") \subseteq free}
        BY <3>3, Statements, AffectedParents DEF OwnParents
      <4>2. Row("temp", 1) \notin free
        <5> SUFFICES ASSUME Row("temp", 1) \in free PROVE FALSE
          OBVIOUS
        <5>1. Row("temp", 1) \in xs
          BY <4>1
        <5>2. Has("binding") /\ Row("binding", 1) \notin xs
          BY <1>3, <2>4, <5>1
        <5>3. \A y \in To({Row("binding", 1)}, "parent") : y = Row("temp", 1)
          <6> TAKE y \in To({Row("binding", 1)}, "parent")
          <6>1. PICK r \in refs : r[3] = y /\ r[1] = Row("binding", 1) /\ r[2] = "parent"
            BY ToElement
          <6> QED
            BY <6>1, UniverseShape DEF BaseInv, Shape, OtherColumns
        <5> QED
          BY <4>1, <5>2, <5>3 DEF Has
      <4>3. Has("temp") /\ Row("temp", 1) \in tracked
        <5>1. Has("temp") \/ Has("binding")
          BY <1>3, <2>4
        <5>2. Has("binding") => Ref("binding", 1, "parent", "temp", 1) \in refs
          BY DEF ColumnInv
        <5>3. /\ Ref("binding", 1, "parent", "temp", 1)[3] = Row("temp", 1)
              /\ Ref("binding", 1, "parent", "temp", 1)[1].t = "binding"
          BY Parts
        <5>4. Has("binding") => Has("temp")
          BY <5>2, <5>3 DEF BaseInv, UnderNoKey, Has
        <5> QED
          BY <5>1, <5>4 DEF TypeOK, Has, LeftoverStaysTracked
      <4>4. PICK r \in refs : r[3] = Row("temp", 1) /\ r[1] \notin bindings
        BY <4>2, <4>3 DEF Has
      <4>5. r[1] \in rows /\ r \in Universe
        BY DEF TypeOK, BaseInv
      <4>6. r[1].n # 1
        <5>1. Shape(r) /\ r[3].t = "temp" /\ r[3].n = 1
          BY <4>4, <4>5, UniverseShape, Parts
        <5>2. r \in ForeignRefs \/ r[1] = Row("binding", r[1].n)
          BY <5>1 DEF Shape, OwnSources
        <5> QED
          BY <4>4, <4>5, <5>2, ForeignShape
      <4> QED
        BY <3>1, <4>4, <4>6
    <3> QED
      BY <2>4, <3>2, <3>3
  <2>5. step' > 19 => (Has("message")' => Row("session", 1) \notin plan)
    <3>1. CASE step > 19
      BY <1>3, <3>1 DEF GoneInv
    <3>2. ASSUME step = 19, Has("message"), Row("session", 1) \in plan PROVE Row("message", 1) \in xs
      <4> DEFINE r == Ref("message", 1, "session", "session", 1)
      <4>1. r \in refs
        BY <3>2 DEF ColumnInv
      <4>2. r[1] = Row("message", 1) /\ r[2] = "session" /\ r[3] = Row("session", 1)
        BY Parts
      <4>3. xs = From("message", "session", {x \in plan : x.t = "session"})
        BY <3>2, Statements, AffectedByColumn
      <4> QED
        BY <1>2, <3>2, <4>1, <4>2, <4>3, FromElement
    <3> QED
      BY <1>3, <3>1, <3>2
  <2>6. step' > 20 => (Has("session")' => Row("session", 1) \notin plan)
    <3>1. step = 20 => xs = {x \in rows \cap plan : x.t = "session"}
      BY Statements, Operations, AffectedById
    <3> QED
      BY <1>2, <1>3, <3>1 DEF Has
  <2> QED
    BY <2>1, <2>3, <2>4, <2>5, <2>6 DEF GoneInv
<1> QED
  BY <1>6, <1>7, <1>8, <1>9, <1>10, <1>11

\* The references that hold each other are cleared, and no others.
LEMMA ClearStep ==
  ASSUME TypeOK, WorkInv, step \in 1..20, Steps[step].op = "clear",
         refs' = {r \in refs : ~(r[1] \in Affected(Steps[step]) /\ r[2] \in Steps[step].of)},
         step' = step + 1,
         UNCHANGED <<rows, committed, factVars, plan, disturbed, tracked, result>>
  PROVE  TypeOK' /\ WorkInv'
<1> USE DEF WorkInv
<1> DEFINE s == Steps[step]
<1>1. /\ \A t : Has(t)' = Has(t)
      /\ step > 0 /\ step' > 0
      /\ \A r \in refs' : r \in refs
  BY DEF Has
<1>2. \A t \in DOMAIN DeletedAt : DeleteOf(t).op = "delete"
  BY Operations DEF DeleteOf
<1>3. \/ step = 10 /\ s = Clear("form", {"version", "experiment"})
      \/ step = 11 /\ s = Clear("experiment", {"metric"})
      \/ step = 12 /\ s = Clear("version", {"experiment"})
  BY <1>2, Statements, Operations
<1>4. s.op # "parents" /\ s.by = "id" /\ s.t \in {"form", "experiment", "version"}
  BY <1>3, Operations
<1>5. Affected(s) = {x \in rows \cap plan : x.t = s.t}
  BY <1>4, AffectedById
<1>6. TypeOK'
  BY <1>1, Statements DEF TypeOK, factVars
<1>7. BaseInv'
  BY <1>1 DEF BaseInv, UnderNoKey
<1>8. ColumnInv'
  <2>1. \A t, c, u : Ref(t, 1, c, u, 1)[1].t = t
    BY Parts
  <2>2. \A t, c, u : t \notin {"form", "experiment", "version"} /\ Ref(t, 1, c, u, 1) \in refs
          => Ref(t, 1, c, u, 1) \in refs'
    BY <1>4, <1>5, <2>1
  <2> QED
    BY <1>1, <2>2 DEF ColumnInv
<1>9. StartInv'
  BY DEF StartInv
<1>10. PlanInv'
  BY <1>1 DEF PlanInv
<1>11. GoneInv'
  <2>1. \A t \in DOMAIN DeletedAt : DeletedAt[t] # step
    BY <1>2, Statements, Operations
  <2>2. \A t \in DOMAIN DeletedAt : step' > DeletedAt[t] => ~Has(t)'
    BY <1>1, <2>1, Statements DEF GoneInv
  <2>3. ASSUME NEW t, NEW c, NEW u, t \in PlannedTypes, s.t = t, c \in s.of,
               Ref(t, 1, c, u, 1) \in refs
        PROVE  Ref(t, 1, c, u, 1) \notin refs'
    <3> DEFINE r == Ref(t, 1, c, u, 1)
    <3>1. r[1] = Row(t, 1) /\ r[2] = c /\ Row(t, 1).t = t
      BY Parts
    <3>2. r[1] \in rows
      BY <2>3 DEF TypeOK
    <3>3. Row(t, 1) \in plan
      BY <1>1, <2>3, <3>1, <3>2 DEF PlanInv, Has
    <3> QED
      BY <1>5, <2>3, <3>1, <3>2, <3>3
  <2>4. step = 10 => /\ Ref("form", 1, "version", "version", 1) \notin refs'
                     /\ Ref("form", 1, "experiment", "experiment", 1) \notin refs'
    BY <1>1, <1>3, <2>3, Operations DEF PlannedTypes
  <2>5. step = 11 => Ref("experiment", 1, "metric", "metric", 1) \notin refs'
    BY <1>1, <1>3, <2>3, Operations DEF PlannedTypes
  <2>6. step = 12 => Ref("version", 1, "experiment", "experiment", 1) \notin refs'
    BY <1>1, <1>3, <2>3, Operations DEF PlannedTypes
  <2>7. step \in {10, 11, 12}
    BY <1>3
  <2> QED
    BY <1>1, <2>2, <2>4, <2>5, <2>6, <2>7 DEF GoneInv
<1> QED
  BY <1>6, <1>7, <1>8, <1>9, <1>10, <1>11

\* Nothing refers by a foreign key to what a statement deletes: the order of
\* the statements and the checks before them see to it, unless others interfere.
LEMMA Unblocked ==
  ASSUME TypeOK, WorkInv, step \in 1..20, ~disturbed, ~NullOwners, Steps[step].op # "clear"
  PROVE  ~Restricted(Affected(Steps[step]))
<1> USE DEF WorkInv
<1> DEFINE xs == Affected(Steps[step])
<1> SUFFICES ASSUME NEW r \in refs, r[3] \in xs, r[1] \notin xs, ~UnderNoKey(r) PROVE FALSE
  BY DEF Restricted
<1>1. r[3] \in rows /\ r[3].n = 1 /\ r[1] \in rows /\ r \in Universe /\ step > 0
  BY AffectedOwn DEF TypeOK, BaseInv
<1>2. Shape(r)
  BY <1>1, UniverseShape
<1>3. r[1] = Row(r[1].t, r[1].n) /\ r[3] = Row(r[3].t, 1) /\ r[3].t \notin Bottom
  BY <1>1, <1>2 DEF Shape
<1>4. \A t \in DOMAIN DeletedAt : step > DeletedAt[t] => Row(t, 1) \notin rows
  BY DEF GoneInv, Has
<1>5. r \in ForeignRefs => r \in Harmless
  BY <1>1 DEF PlanInv
<1>6. r \notin ForeignRefs => r[1] = Row(r[1].t, 1) /\ OwnSources(r)
  BY <1>1, <1>2 DEF Shape
<1>7. CASE step = 18
  <2> DEFINE bindings == {Row("binding", 1)} \cap rows
             free == {f \in tracked \cap rows : {q[1] : q \in {x \in refs : x[3] = f}} \subseteq bindings}
  <2>1. xs = free \cup {b \in bindings : To({b}, "parent") \subseteq free}
    BY <1>7, Statements, AffectedParents DEF OwnParents
  <2>2. Row("binding", 1).t = "binding"
    BY Parts
  <2>3. r[3] \in free
    BY <1>3, <2>1, <2>2 DEF Bottom
  <2>4. r[1] = Row("binding", 1) /\ r[1] \in bindings
    BY <2>3
  <2>5. r[3] = Row("temp", 1)
    BY <2>3 DEF TypeOK
  <2>6. \A y \in To({Row("binding", 1)}, "parent") : y = Row("temp", 1)
    <3> TAKE y \in To({Row("binding", 1)}, "parent")
    <3>1. PICK q \in refs : q[3] = y /\ q[1] = Row("binding", 1) /\ q[2] = "parent"
      BY ToElement
    <3> QED
      BY <3>1, UniverseShape DEF BaseInv, Shape, OtherColumns
  <2> QED
    BY <2>1, <2>3, <2>4, <2>5, <2>6
<1>8. CASE step = 19
  <2>1. r[3].t = "message"
    BY <1>8, Statements, Operations, AffectedTable
  <2> QED
    BY <1>3, <2>1 DEF Bottom
<1>9. CASE step = 20
  <2>1. r[3].t = "session" /\ r[3] \in plan
    BY <1>9, Statements, Operations, AffectedById
  <2>2. CASE r \in ForeignRefs
    <3>1. r = Ref("form", 2, "session", "session", 1)
      BY <1>5, <2>1, <2>2, Parts DEF Harmless
    <3> QED
      BY <1>1, <1>3, <2>1, <3>1 DEF PlanInv
  <2>3. CASE r \notin ForeignRefs
    <3>1. r[1].t \in {"message", "form"}
      BY <1>6, <2>1, <2>3 DEF OwnSources
    <3>2. Row("form", 1) \notin rows
      BY <1>4, <1>9, DeletedTables, Statements
    <3>3. Row("message", 1) \notin rows
      BY <1>3, <1>9, <2>1 DEF GoneInv, Has
    <3> QED
      BY <1>1, <1>6, <2>3, <3>1, <3>2, <3>3
  <2> QED
    BY <2>2, <2>3
<1>10. CASE \E t \in DOMAIN DeletedAt : step = DeletedAt[t]
  <2>1. PICK t \in DOMAIN DeletedAt : step = DeletedAt[t]
    BY <1>10
  <2>2. DeleteOf(t).op = "delete" /\ DeleteOf(t).t = t
    BY Operations DEF DeleteOf
  <2>3. r[3].t = t
    BY <2>1, <2>2, Statements, AffectedTable
  <2>4. r \notin ForeignRefs
    <3>1. \A q \in Harmless : q[3].t \in {"session", "temp"}
      BY Parts DEF Harmless
    <3> QED
      BY <1>5, <2>3, <3>1, DeletedTables
  <2>5. r[1] = Row(r[1].t, 1) /\ OwnSources(r) /\ r[1] \in rows
    BY <1>1, <1>6, <2>4
  <2>6. \A u \in DOMAIN DeletedAt : step > DeletedAt[u] => r[1].t # u
    BY <1>4, <2>5
  <2>7. r[1].t \notin {"calculated", "detail"} /\ ~(r[1].t = "form" /\ r[2] = "pool")
    BY DEF UnderNoKey
  <2>8. t \in {"sub", "metric", "experiment", "version", "pool", "form"}
    BY <1>3, <2>3, DeletedTables DEF Bottom
  <2>9. CASE t = "sub"
    <3>1. step = 9
      BY <2>1, <2>9 DEF DeletedAt
    <3>2. r[1].t \notin {"registration", "refresh", "relation"}
      BY <2>6, <3>1 DEF DeletedAt
    <3> QED
      BY <2>3, <2>5, <2>7, <2>9, <3>2 DEF OwnSources
  <2>10. CASE t = "metric"
    <3>1. step = 13
      BY <2>1, <2>10 DEF DeletedAt
    <3> QED
      BY <2>3, <2>5, <2>10, <3>1 DEF OwnSources, GoneInv
  <2>11. CASE t = "experiment"
    <3>1. step = 14
      BY <2>1, <2>11 DEF DeletedAt
    <3>2. r[1].t # "metric"
      BY <2>6, <3>1 DEF DeletedAt
    <3> QED
      BY <2>3, <2>5, <2>11, <3>1, <3>2 DEF OwnSources, GoneInv
  <2>12. CASE t = "version"
    <3>1. step = 15
      BY <2>1, <2>12 DEF DeletedAt
    <3>2. r[1].t \notin {"component", "registration", "feedback"}
      BY <2>6, <3>1 DEF DeletedAt
    <3> QED
      BY <2>3, <2>5, <2>12, <3>1, <3>2 DEF OwnSources, GoneInv
  <2>13. CASE t = "pool"
    <3>1. step = 16
      BY <2>1, <2>13 DEF DeletedAt
    <3>2. r[1].t \notin {"member", "version"}
      BY <2>6, <3>1 DEF DeletedAt
    <3> QED
      BY <2>3, <2>5, <2>7, <2>13, <3>2 DEF OwnSources
  <2>14. CASE t = "form"
    <3>1. step = 17
      BY <2>1, <2>14 DEF DeletedAt
    <3>2. r[1].t \notin {"pool", "member", "version", "feedback"}
      BY <2>6, <3>1 DEF DeletedAt
    <3> QED
      BY <2>3, <2>5, <2>14, <3>2 DEF OwnSources
  <2> QED
    BY <2>8, <2>9, <2>10, <2>11, <2>12, <2>13, <2>14
<1>11. CASE step \in {10, 11, 12}
  BY <1>11, Statements, Operations
<1> QED
  BY <1>7, <1>8, <1>9, <1>10, <1>11, Statements

-----------------------------------------------------------------------------
(* The decision.                                                            *)

\* What is found of the scope's form is the scope's row of each table.
LEMMA Found ==
  ASSUME TypeOK, WorkInv, step = 0
  PROVE  /\ Forms = {Row("form", 1)} \cap rows
         /\ Versions = {Row("version", 1)} \cap rows
         /\ Pools = {Row("pool", 1)} \cap rows
         /\ Experiments = {Row("experiment", 1)} \cap rows
         /\ Metrics = {Row("metric", 1)} \cap rows
         /\ Registrations = {Row("registration", 1)} \cap rows
         /\ SubFactors = {Row("sub", 1)} \cap rows
<1> USE DEF WorkInv
<1>1. \A r \in refs : r[1] \in rows /\ r[3] \in rows /\ Shape(r)
  BY UniverseShape DEF TypeOK, BaseInv
<1>2. \A t, n, c, u, k : Ref(t, n, c, u, k) \in refs =>
        Row(t, n) \in rows /\ Row(u, k) \in rows
  BY <1>1, Parts
<1>3. \A t, n, c, u, k, S : Ref(t, n, c, u, k) \in refs /\ Row(u, k) \in S => Row(t, n) \in From(t, c, S)
  BY FromElement, Parts
<1>4. \A t, n, c, u, k, S : Ref(t, n, c, u, k) \in refs /\ Row(t, n) \in S => Row(u, k) \in To(S, c)
  BY ToElement, Parts
\* By a column that only rows of the scope fill.
<1>5. ASSUME NEW t, NEW c, NEW S, \A y \in S : y.n = 1, <<t, c>> \in OwnColumns, NEW x \in From(t, c, S)
      PROVE  x = Row(t, 1) /\ x \in rows
  <2>1. PICK r \in refs : r[1] = x /\ r[1].t = t /\ r[2] = c /\ r[3] \in S
    BY FromElement
  <2> QED
    BY <1>1, <1>5, <2>1 DEF Shape
\* By a column that refers to rows of the scope.
<1>6. ASSUME NEW t, NEW c, NEW S, S \subseteq {Row(t, 1)}, <<t, c>> \in InnerColumns, NEW x \in To(S, c)
      PROVE  x = Row(c, 1) /\ x \in rows
  <2>1. PICK r \in refs : r[3] = x /\ r[1] \in S /\ r[2] = c
    BY ToElement
  <2>2. r[1].t = t /\ r[1].n = 1
    BY <1>6, <2>1, Parts
  <2> QED
    BY <1>1, <1>6, <2>1, <2>2 DEF Shape
<1>7. \A t : Row(t, 1).n = 1
  BY Parts
<1>8. Forms = {Row("form", 1)} \cap rows
  BY DEF Forms
<1>9. Versions = {Row("version", 1)} \cap rows
  <2>1. \A x \in From("version", "form", Forms) : x = Row("version", 1) /\ x \in rows
    BY <1>5, <1>7, <1>8 DEF OwnColumns
  <2>2. \A x \in To(Forms, "version") : x = Row("version", 1) /\ x \in rows
    BY <1>6, <1>8 DEF InnerColumns
  <2>3. \A x \in From("feedback", "form", Forms) : x = Row("feedback", 1)
    BY <1>5, <1>7, <1>8 DEF OwnColumns
  <2>4. \A x \in To(From("feedback", "form", Forms), "version") : x = Row("version", 1) /\ x \in rows
    BY <1>6, <2>3 DEF InnerColumns
  <2>5. Row("version", 1) \in rows => Row("version", 1) \in From("version", "form", Forms)
    BY <1>2, <1>3, <1>8 DEF StartInv, Has
  <2> QED
    BY <2>1, <2>2, <2>4, <2>5 DEF Versions
<1>10. Pools = {Row("pool", 1)} \cap rows
  <2>1. \A x \in To(Versions, "pool") : x = Row("pool", 1) /\ x \in rows
    BY <1>6, <1>9 DEF InnerColumns
  <2>2. \A x \in To(Forms, "pool") : x = Row("pool", 1) /\ x \in rows
    BY <1>6, <1>8 DEF InnerColumns
  <2>3. Row("pool", 1) \in rows => Row("pool", 1) \in To(Forms, "pool")
    BY <1>2, <1>4, <1>8 DEF StartInv, Has
  <2> QED
    BY <2>1, <2>2, <2>3 DEF Pools
<1>11. Experiments = {Row("experiment", 1)} \cap rows
  <2>1. \A x \in To(Versions, "experiment") : x = Row("experiment", 1) /\ x \in rows
    BY <1>6, <1>9 DEF InnerColumns
  <2>2. \A x \in To(Forms, "experiment") : x = Row("experiment", 1) /\ x \in rows
    BY <1>6, <1>8 DEF InnerColumns
  <2>3. Row("experiment", 1) \in rows => Row("experiment", 1) \in To(Forms, "experiment")
    BY <1>2, <1>4, <1>8 DEF StartInv, Has
  <2> QED
    BY <2>1, <2>2, <2>3 DEF Experiments
<1>12. Metrics = {Row("metric", 1)} \cap rows
  <2>1. \A x \in From("metric", "experiment", Experiments) : x = Row("metric", 1) /\ x \in rows
    BY <1>5, <1>7, <1>11 DEF OwnColumns
  <2>2. Row("metric", 1) \in rows => Row("metric", 1) \in From("metric", "experiment", Experiments)
    BY <1>2, <1>3, <1>11 DEF StartInv, Has
  <2> QED
    BY <2>1, <2>2 DEF Metrics
<1>13. Registrations = {Row("registration", 1)} \cap rows
  <2>1. \A x \in From("registration", "version", Versions) : x = Row("registration", 1) /\ x \in rows
    BY <1>5, <1>7, <1>9 DEF OwnColumns
  <2>2. Row("registration", 1) \in rows =>
          Row("registration", 1) \in From("registration", "version", Versions)
    BY <1>2, <1>3, <1>9 DEF StartInv, Has
  <2> QED
    BY <2>1, <2>2 DEF Registrations
<1>14. SubFactors = {Row("sub", 1)} \cap rows
  <2>1. \A x \in To(Registrations, "sub") : x = Row("sub", 1) /\ x \in rows
    BY <1>6, <1>13 DEF InnerColumns
  <2>2. Row("sub", 1) \in rows => Row("sub", 1) \in To(Registrations, "sub")
    BY <1>2, <1>4, <1>13 DEF StartInv, Has
  <2> QED
    BY <2>1, <2>2 DEF SubFactors
<1> QED
  BY <1>8, <1>9, <1>10, <1>11, <1>12, <1>13, <1>14

\* The checks see every reference of others, except to the session and to the
\* temporary factor, which are decided on their own, and except that a pool
\* member without a form may use the sub-factor.
LEMMA ChecksSeeOthers ==
  ASSUME TypeOK, WorkInv, step = 0, ~HasExternalReferences, NEW r \in refs, r \in ForeignRefs
  PROVE  \/ r \in Harmless
         \/ NullOwners /\ r = Ref("member", 2, "sub", "sub", 1)
<1> USE DEF WorkInv
<1>1. ~SharedPool /\ ~SharedSubFactor /\ ~SharedExperiment /\ ~SharedVersion
  BY DEF HasExternalReferences
<1>2. /\ Forms = {Row("form", 1)} \cap rows
      /\ Versions = {Row("version", 1)} \cap rows
      /\ Pools = {Row("pool", 1)} \cap rows
      /\ Experiments = {Row("experiment", 1)} \cap rows
      /\ Metrics = {Row("metric", 1)} \cap rows
      /\ Registrations = {Row("registration", 1)} \cap rows
      /\ SubFactors = {Row("sub", 1)} \cap rows
  BY Found
<1>3. \A q \in refs : q[1] \in rows /\ q[3] \in rows /\ Shape(q)
  BY UniverseShape DEF TypeOK, BaseInv
\* Whoever refers to a row of the scope is found by the column.
<1>4. \A t, n, c, u, S : r = Ref(t, n, c, u, 1) /\ S = {Row(u, 1)} \cap rows => Row(t, n) \in From(t, c, S)
  BY <1>3, FromElement, Parts
<1>5. \A t, S : S = {Row(t, 1)} \cap rows => Row(t, 2) \notin S
  BY Parts
\* A member or feedback of others belongs to no form of the scope.
<1>6. ASSUME NEW x \in {Row("member", 2), Row("feedback", 2)} PROVE To({x}, "form") \cap Forms = {}
  <2> SUFFICES ASSUME NEW y \in To({x}, "form"), y \in Forms PROVE FALSE
    OBVIOUS
  <2>1. PICK q \in refs : q[3] = y /\ q[1] = x /\ q[2] = "form"
    BY ToElement
  <2>2. y = Row("form", 2)
    BY <1>3, <1>6, <2>1 DEF Shape, OtherColumns
  <2> QED
    BY <1>2, <1>5, <2>2
<1>7. \A S : \A x \in {Row("member", 2), Row("feedback", 2)} :
        x \in S => x \in InOtherForm(S) \cup InNoForm(S)
  BY <1>6 DEF InOtherForm, InNoForm
<1>8. CASE r = Ref("version", 2, "pool", "pool", 1) \/ r = Ref("form", 2, "pool", "pool", 1)
  BY <1>1, <1>2, <1>4, <1>5, <1>8 DEF SharedPool
<1>9. CASE r = Ref("member", 2, "pool", "pool", 1)
  BY <1>1, <1>2, <1>4, <1>7, <1>9 DEF SharedPool
<1>10. CASE r = Ref("registration", 2, "sub", "sub", 1) \/ r = Ref("relation", 2, "parent", "sub", 1)
  BY <1>1, <1>2, <1>4, <1>5, <1>10 DEF SharedSubFactor
<1>11. ~(Row("component", 2) \in From("component", "version", Versions))
  <2> SUFFICES ASSUME Row("component", 2) \in From("component", "version", Versions) PROVE FALSE
    OBVIOUS
  <2>1. PICK q \in refs : q[1] = Row("component", 2) /\ q[2] = "version" /\ q[3] \in Versions
    BY FromElement
  <2>2. q[3] = Row("version", 2)
    BY <1>3, <2>1 DEF Shape, OtherColumns
  <2> QED
    BY <1>2, <1>5, <2>1, <2>2
<1>12. CASE r = Ref("component", 2, "sub", "sub", 1)
  BY <1>1, <1>2, <1>4, <1>11, <1>12 DEF SharedSubFactor
<1>13. CASE r = Ref("relation", 3, "child", "sub", 1)
  <2>1. Row("relation", 3) \in From("relation", "child", SubFactors)
    BY <1>2, <1>4, <1>13
  <2>2. ASSUME Row("relation", 3) \in OwnRelations PROVE FALSE
    <3> DEFINE components == From("component", "version", Versions)
    <3>1. Row("relation", 3) \in From("relation", "parent", To(components, "source"))
      BY <2>2 DEF OwnRelations
    <3>2. PICK q \in refs : /\ q[1] = Row("relation", 3) /\ q[2] = "parent"
                            /\ q[3] \in To(components, "source")
      BY <3>1, FromElement
    <3>3. q[3] = Row("factor", 2)
      BY <1>3, <3>2 DEF Shape, OtherColumns
    <3>4. PICK p \in refs : p[3] = q[3] /\ p[1] \in components /\ p[2] = "source"
      BY <3>2, ToElement
    <3>5. PICK o \in refs : /\ o[1] = p[1] /\ o[1].t = "component" /\ o[2] = "version"
                            /\ o[3] \in Versions
      BY <3>4, FromElement
    <3>6. o[3].n = 1
      BY <1>2, <3>5, Parts
    <3>7. p[1] = Row("component", 1)
      BY <1>3, <3>5, <3>6 DEF Shape, OwnColumns
    <3>8. p[3] = Row("factor", 1)
      BY <1>3, <3>4, <3>7 DEF Shape, OtherColumns
    <3> QED
      BY <3>3, <3>4, <3>8, Parts
  <2> QED
    BY <1>1, <2>1, <2>2 DEF SharedSubFactor
<1>14. CASE r = Ref("member", 2, "sub", "sub", 1) /\ ~NullOwners
  <2>1. Row("member", 2) \in From("member", "sub", SubFactors)
    BY <1>2, <1>4, <1>14
  <2>2. Ref("member", 2, "form", "form", 2) \in refs
    BY <1>14, Parts DEF StartInv
  <2>3. Row("form", 2) \in To({Row("member", 2)}, "form")
    BY <2>2, ToElement, Parts
  <2>4. Row("member", 2) \in InOtherForm(From("member", "sub", SubFactors))
    BY <1>6, <2>1, <2>3 DEF InOtherForm
  <2> QED
    BY <1>1, <2>4 DEF SharedSubFactor
<1>15. CASE r = Ref("version", 2, "experiment", "experiment", 1) \/ r = Ref("form", 2, "experiment", "experiment", 1)
  BY <1>1, <1>2, <1>4, <1>5, <1>15 DEF SharedExperiment
<1>16. CASE r = Ref("experiment", 2, "metric", "metric", 1)
  BY <1>1, <1>2, <1>4, <1>5, <1>16 DEF SharedExperiment
<1>17. CASE r = Ref("form", 2, "version", "version", 1)
  BY <1>1, <1>2, <1>4, <1>5, <1>17 DEF SharedVersion
<1>18. CASE r = Ref("feedback", 2, "version", "version", 1)
  BY <1>1, <1>2, <1>4, <1>7, <1>18 DEF SharedVersion, OtherFeedback
<1>19. CASE r = Ref("feedback", 2, "experiment", "experiment", 1)
  <2>1. Row("experiment", 1) \in rows
    BY <1>3, <1>19, Parts
  <2>2. Versions # {}
    BY <1>2, <2>1 DEF StartInv, Has
  <2> QED
    BY <1>1, <1>2, <1>4, <1>7, <1>19, <2>2 DEF SharedVersion, OtherFeedback
<1>20. CASE r = Ref("member", 2, "sub", "sub", 1) /\ NullOwners
  BY <1>20
<1>21. \/ r \in Harmless
       \/ r \in {Ref("form", 2, "pool", "pool", 1), Ref("version", 2, "pool", "pool", 1),
                 Ref("member", 2, "pool", "pool", 1)}
       \/ r \in {Ref("registration", 2, "sub", "sub", 1), Ref("relation", 2, "parent", "sub", 1),
                 Ref("component", 2, "sub", "sub", 1), Ref("relation", 3, "child", "sub", 1),
                 Ref("member", 2, "sub", "sub", 1)}
       \/ r \in {Ref("version", 2, "experiment", "experiment", 1), Ref("form", 2, "experiment", "experiment", 1),
                 Ref("experiment", 2, "metric", "metric", 1)}
       \/ r \in {Ref("form", 2, "version", "version", 1), Ref("feedback", 2, "version", "version", 1),
                 Ref("feedback", 2, "experiment", "experiment", 1)}
  BY DEF ForeignRefs, Harmless
<1> QED
  BY <1>8, <1>9, <1>10, <1>12, <1>13, <1>14, <1>15, <1>16, <1>17, <1>18, <1>19, <1>20, <1>21

\* A decision to delete plans the whole scope and nothing of others.
LEMMA DecideStep ==
  ASSUME TypeOK, WorkInv, Decide
  PROVE  TypeOK' /\ WorkInv'
<1> USE DEF WorkInv
<1>1. /\ step = 0 /\ step' = 1 /\ result = Undecided /\ ~HasExternalReferences
      /\ plan' = UNION {Forms, Versions, Pools, Experiments, Metrics, Registrations,
                        SubFactors, SessionsWithoutRemainingForms}
      /\ UNCHANGED <<rows, refs, committed, factVars, disturbed, tracked, result>>
  BY DEF Decide, dbVars
<1>2. /\ Forms = {Row("form", 1)} \cap rows
      /\ Versions = {Row("version", 1)} \cap rows
      /\ Pools = {Row("pool", 1)} \cap rows
      /\ Experiments = {Row("experiment", 1)} \cap rows
      /\ Metrics = {Row("metric", 1)} \cap rows
      /\ Registrations = {Row("registration", 1)} \cap rows
      /\ SubFactors = {Row("sub", 1)} \cap rows
  BY <1>1, Found
<1>3. SessionsWithoutRemainingForms \subseteq {Row("session", 1)} \cap rows
  BY DEF SessionsWithoutRemainingForms
<1>4. \A x : x \in plan' <=> \/ x \in Forms \/ x \in Versions \/ x \in Pools \/ x \in Experiments
                             \/ x \in Metrics \/ x \in Registrations \/ x \in SubFactors
                             \/ x \in SessionsWithoutRemainingForms
  BY <1>1
<1>5. \A t : Row(t, 1).n = 1 /\ Row(t, 1).t = t
  BY Parts
<1>6. \A x \in plan' : x \in rows /\ x.n = 1
  BY <1>2, <1>3, <1>4, <1>5
<1>7. \A t : Has(t)' = Has(t)
  BY <1>1 DEF Has
<1>8. TypeOK'
  <2>1. plan' \subseteq committed'.rows
    BY <1>1, <1>6 DEF TypeOK
  <2>2. step' \in 0..Len(Steps) + 1
    BY <1>1, Statements
  <2> QED
    BY <1>1, <2>1, <2>2 DEF TypeOK, factVars
<1>9. BaseInv' /\ ColumnInv' /\ StartInv'
  BY <1>1, <1>7 DEF BaseInv, ColumnInv, StartInv, UnderNoKey
<1>10. PlanInv'
  <2>1. \A t \in PlannedTypes : Has(t) => Row(t, 1) \in plan'
    BY <1>2, <1>4 DEF Has, PlannedTypes
  <2>2. \A r \in refs : r[3].n = 1 /\ r[3].t \in PlannedTypes => r[3] \in plan'
    <3> TAKE r \in refs
    <3>1. r[3] \in rows /\ Shape(r)
      BY <1>1, UniverseShape DEF BaseInv
    <3>2. r[3] = Row(r[3].t, r[3].n)
      BY <3>1 DEF Shape
    <3> QED
      BY <2>1, <3>1, <3>2 DEF Has
  <2>3. Has("session") => Row("session", 1) \in plan' \/ Row("form", 2) \in rows
    <3> SUFFICES ASSUME Has("session"), Row("session", 1) \notin plan' PROVE Row("form", 2) \in rows
      OBVIOUS
    <3>1. ~(From("form", "session", {Row("session", 1)}) \subseteq Forms)
      BY <1>4 DEF SessionsWithoutRemainingForms, Has
    <3>2. PICK x \in From("form", "session", {Row("session", 1)}) : x \notin Forms
      BY <3>1
    <3>3. PICK r \in refs : r[1] = x /\ r[1].t = "form"
      BY <3>2, FromElement
    <3>4. x \in rows /\ Shape(r)
      BY <3>3, UniverseShape DEF TypeOK, BaseInv
    <3>5. x = Row("form", 1) \/ x = Row("form", 2)
      BY <3>3, <3>4 DEF Shape
    <3> QED
      BY <1>2, <3>2, <3>4, <3>5
  <2>4. \A r \in refs \cap ForeignRefs : \/ r \in Harmless
                                         \/ NullOwners /\ r = Ref("member", 2, "sub", "sub", 1)
    BY <1>1, ChecksSeeOthers
  <2>5. Row("session", 1) \in plan' => Ref("form", 2, "session", "session", 1) \notin refs
    <3> SUFFICES ASSUME Row("session", 1) \in plan', Ref("form", 2, "session", "session", 1) \in refs
                 PROVE  FALSE
      OBVIOUS
    <3>1. Row("session", 1) \in SessionsWithoutRemainingForms
      BY <1>2, <1>4, Parts
    <3>2. Row("form", 2) \in From("form", "session", {Row("session", 1)})
      BY FromElement, Parts
    <3>3. Row("form", 2) \in Forms
      BY <3>1, <3>2 DEF SessionsWithoutRemainingForms
    <3> QED
      BY <1>2, <3>3, Parts
  <2> QED
    BY <1>1, <1>6, <1>7, <2>1, <2>2, <2>3, <2>4, <2>5 DEF PlanInv
<1>11. GoneInv'
  BY <1>1, Statements DEF GoneInv
<1> QED
  BY <1>8, <1>9, <1>10, <1>11

-----------------------------------------------------------------------------
(* Others.                                                                  *)

\* The rest of a row of others refers to rows of others.
LEMMA CompanionShape ==
  ASSUME NEW r \in ForeignRefs, NEW o, NEW c \in Companions(r, o)
  PROVE  c \in Companion /\ c[1] = r[1] /\ c[3].n = 2
<1>1. r[1] = Row(r[1].t, r[1].n)
  BY UniverseShape DEF Universe, Shape
<1>2. r[1].t \in {"member", "feedback", "component"} => r[1].n = 2
  BY Parts DEF ForeignRefs
<1>3. r[1].t = "relation" /\ r[2] = "child" => r[1].n = 3
  BY Parts DEF ForeignRefs
<1>4. \/ r[1].t \in {"member", "feedback"} /\ c = Ref(r[1].t, r[1].n, "form", "form", 2)
      \/ r[1].t = "component" /\ c = Ref("component", 2, "version", "version", 2)
      \/ /\ r[1].t = "relation" /\ r[2] = "child"
         /\ c = Ref("relation", r[1].n, "parent", "factor", 2)
  BY DEF Companions
<1> QED
  BY <1>1, <1>2, <1>3, <1>4, Parts DEF Companion

\* The references there are once others have added theirs.
LEMMA WithForeignElement ==
  ASSUME NEW s, NEW extra, NEW o, NEW x
  PROVE  x \in WithForeign(s, extra, o) <=>
           x \in s \/ x \in extra \/ \E r \in extra : x \in Companions(r, o)
BY DEF WithForeign

\* The rows at both ends of references.
LEMMA RowsOfElement ==
  ASSUME NEW s, NEW x
  PROVE  x \in RowsOf(s) <=> \E r \in s : x = r[1] \/ x = r[3]
BY DEF RowsOf

\* What others add is in the universe.
LEMMA OthersInUniverse == ForeignRefs \subseteq Universe /\ Companion \subseteq Universe
BY DEF Universe

\* What others add refers to rows that are there.
LEMMA InterfereStep ==
  ASSUME TypeOK, LeftoverStaysTracked, WorkInv, NEW r \in ForeignRefs, Interfere(r)
  PROVE  TypeOK' /\ LeftoverStaysTracked' /\ WorkInv'
<1> USE DEF WorkInv
<1> DEFINE N == refs' \ refs
<1>1. /\ step > 0 /\ result = Undecided /\ r[3] \in rows
      /\ refs' = WithForeign(refs, {r}, Ownerless)
      /\ rows' = rows \cup RowsOf(N)
      /\ committed' = [rows |-> committed.rows \cup RowsOf(N), refs |-> committed.refs \cup N]
      /\ disturbed' = TRUE
      /\ UNCHANGED <<factVars, step, plan, tracked, result>>
  BY DEF Interfere
<1>2. committed'.rows = committed.rows \cup RowsOf(N) /\ committed'.refs = committed.refs \cup N
  BY <1>1
<1>3. \A q : q \in refs' <=> q \in refs \/ q = r \/ q \in Companions(r, Ownerless)
  BY <1>1, WithForeignElement
<1>4. \A q \in N : /\ q \in Universe /\ q[1] = r[1] /\ q[1].n # 1
                   /\ q[3] = r[3] \/ q[3].n = 2
  BY <1>3, CompanionShape, ForeignShape, OthersInUniverse
<1>5. \A x \in RowsOf(N) : x.n = 1 => x \in rows
  <2> TAKE x \in RowsOf(N)
  <2>1. PICK q \in N : x = q[1] \/ x = q[3]
    BY RowsOfElement
  <2> QED
    BY <1>1, <1>4, <2>1
<1>6. \A q \in N : q[1] \in RowsOf(N) /\ q[3] \in RowsOf(N)
  BY RowsOfElement
<1>7. refs \subseteq refs' /\ \A q \in refs' : q \in refs \/ q \in N
  BY <1>3
<1>8. \A t : Row(t, 1).n = 1 /\ Row(t, 1).t = t
  BY Parts
<1>9. \A t : Has(t)' <=> Has(t)
  BY <1>1, <1>5, <1>8 DEF Has
<1>10. TypeOK'
  <2>1. disturbed' \in BOOLEAN
    BY <1>1
  <2>2. \A q \in refs' : q[1] \in rows'
    BY <1>1, <1>6, <1>7 DEF TypeOK
  <2>3. rows' \subseteq committed'.rows /\ refs' \subseteq committed'.refs /\ plan' \subseteq committed'.rows
    BY <1>1, <1>2, <1>7 DEF TypeOK
  <2> QED
    BY <1>1, <2>1, <2>2, <2>3 DEF TypeOK, factVars
<1>11. LeftoverStaysTracked'
  <2>1. Row("temp", 1) \in committed'.rows => Row("temp", 1) \in committed.rows
    BY <1>2, <1>5, <1>8 DEF TypeOK
  <2> QED
    BY <1>1, <2>1 DEF LeftoverStaysTracked
<1>12. BaseInv'
  <2>1. refs' \subseteq Universe
    BY <1>4, <1>7 DEF BaseInv
  <2>2. \A x \in RowsOf(N) : x \in RowsOf(Universe)
    BY <1>4, RowsOfElement
  <2>3. rows' \subseteq RowsOf(Universe)
    BY <1>1, <2>2 DEF BaseInv
  <2>4. \A q \in committed'.refs : q[1] \in committed'.rows /\ q[3] \in committed'.rows
    BY <1>2, <1>6 DEF BaseInv
  <2>5. \A q \in refs' : q[3] \in rows' \/ (step' > 0 /\ UnderNoKey(q))
    BY <1>1, <1>6, <1>7 DEF BaseInv
  <2>6. step' # 0
    BY <1>1 DEF TypeOK
  <2> QED
    BY <2>1, <2>3, <2>4, <2>5, <2>6 DEF BaseInv, UnderNoKey
<1>13. ColumnInv'
  BY <1>7, <1>9 DEF ColumnInv
<1>14. StartInv'
  BY <1>1 DEF StartInv
<1>15. PlanInv'
  <2>1. \A q \in refs' : q[3].n = 1 /\ q[3].t \in PlannedTypes => q[3] \in plan
    <3> TAKE q \in refs'
    <3>1. CASE q \in refs
      BY <1>1, <3>1 DEF PlanInv
    <3>2. CASE q \in N /\ q[3].n = 1
      <4>1. q[3] \in rows /\ q[3] = Row(q[3].t, 1)
        <5>1. q[3] = Row(q[3].t, q[3].n)
          BY <1>4, <3>2, UniverseShape DEF Shape
        <5> QED
          BY <1>5, <1>6, <3>2, <5>1
      <4> QED
        BY <1>1, <4>1 DEF PlanInv, Has
    <3> QED
      BY <1>7, <3>1, <3>2
  <2> QED
    BY <1>1, <1>9, <2>1 DEF PlanInv
<1>16. GoneInv'
  <2>1. \A t, c, u : Ref(t, 1, c, u, 1) \in refs' => Ref(t, 1, c, u, 1) \in refs
    <3> TAKE t, c, u
    <3>1. Ref(t, 1, c, u, 1)[1].n = 1
      BY Parts
    <3> QED
      BY <1>4, <1>7, <3>1
  <2> QED
    BY <1>1, <1>7, <1>9, <2>1 DEF GoneInv
<1> QED
  BY <1>10, <1>11, <1>12, <1>13, <1>14, <1>15, <1>16

-----------------------------------------------------------------------------
(* The start.                                                               *)

\* The stage in which a table gets the scope's row.
FirstStage == [message |-> 1, session |-> 1, form |-> 2, binding |-> 2, temp |-> 2, pool |-> 3,
               member |-> 3, version |-> 4, component |-> 4, experiment |-> 5, metric |-> 5,
               registration |-> 6, calculated |-> 6, refresh |-> 6, detail |-> 6, relation |-> 6,
               sub |-> 6, feedback |-> 7]

\* No stage refers to a row of the scope before the stage that makes it.
LEMMA StageStart ==
  ASSUME NEW i \in 1..7, NEW r \in GraphStages[i], NEW t \in DOMAIN FirstStage,
         r[1] = Row(t, 1) \/ r[3] = Row(t, 1)
  PROVE  FirstStage[t] \in 1..i
<1>1. DOMAIN FirstStage = {"message", "session", "form", "binding", "temp", "pool", "member",
                           "version", "component", "experiment", "metric", "registration",
                           "calculated", "refresh", "detail", "relation", "sub", "feedback"}
  BY DEF FirstStage
<1>2. (r[1].t = t /\ r[1].n = 1) \/ (r[3].t = t /\ r[3].n = 1)
  <2>1. Row(t, 1).t = t /\ Row(t, 1).n = 1
    BY Parts
  <2> QED
    BY <2>1
<1>3. CASE i = 1 \/ i = 2
  BY <1>1, <1>2, <1>3, Parts DEF GraphStages, FirstStage
<1>4. CASE i = 3
  BY <1>1, <1>2, <1>4, Parts DEF GraphStages, FirstStage
<1>5. CASE i = 4
  BY <1>1, <1>2, <1>5, Parts DEF GraphStages, FirstStage
<1>6. CASE i = 5
  BY <1>1, <1>2, <1>6, Parts DEF GraphStages, FirstStage
<1>7. CASE i = 6
  BY <1>1, <1>2, <1>7, Parts DEF GraphStages, FirstStage
<1>8. CASE i = 7
  BY <1>1, <1>2, <1>8, Parts DEF GraphStages, FirstStage
<1> QED
  BY <1>3, <1>4, <1>5, <1>6, <1>7, <1>8

\* The stages are of the scope.
LEMMA StagesOwn ==
  ASSUME NEW i \in 1..7, NEW r \in GraphStages[i]
  PROVE  r[1].n = 1
BY Parts DEF GraphStages

\* What a scope of k stages holds, and what is in every scope of so many stages.
LEMMA ScopeElement ==
  ASSUME NEW k \in 1..7, NEW home \in 1..(IF k = 2 THEN 2 ELSE 1), NEW r \in ScopeRefs(k, home)
  PROVE  \/ \E i \in 1..k : r \in GraphStages[i]
         \/ k = 2 /\ r = Ref("form", 1, "session", "session", 2)
<1>1. CASE home = 1
  BY <1>1 DEF ScopeRefs
<1>2. CASE home # 1
  <2>1. home = 2 /\ k = 2
    BY <1>2
  <2> QED
    BY <2>1 DEF ScopeRefs
<1> QED
  BY <1>1, <1>2

\* What a stage makes is in every scope that reached it.
LEMMA InScope ==
  ASSUME NEW k \in 1..7, NEW home, NEW i \in 1..k, NEW r \in GraphStages[i],
         r[1].t # "form" \/ r[2] # "session"
  PROVE  r \in ScopeRefs(k, home)
BY DEF ScopeRefs

\* Init's own choice of the graph, with its bound left out.
Start(k, home, extra) ==
    /\ k \in 1..7
    /\ home \in 1..(IF k = 2 THEN 2 ELSE 1)
    /\ extra \subseteq {r \in ForeignRefs : r[3] \in RowsOf(ScopeRefs(k, home))}
    /\ refs = WithForeign(ScopeRefs(k, home), extra, Ownerless)
    /\ rows = RowsOf(refs)

\* A row of the scope is there only with everything its stage made.
LEMMA StartRows ==
  ASSUME NEW k, NEW home, NEW extra, Start(k, home, extra), NEW t \in DOMAIN FirstStage, Has(t)
  PROVE  FirstStage[t] \in 1..k
<1> DEFINE scope == ScopeRefs(k, home)
<1>1. PICK q \in refs : Row(t, 1) = q[1] \/ Row(t, 1) = q[3]
  BY RowsOfElement DEF Start, Has
<1>2. Row(t, 1).n = 1
  BY Parts
<1>3. Row(t, 1) \in RowsOf(scope)
  <2>1. q \in scope \/ q \in extra \/ \E r \in extra : q \in Companions(r, Ownerless)
    BY WithForeignElement DEF Start
  <2>2. CASE q \in scope
    BY <1>1, <2>2, RowsOfElement
  <2>3. CASE q \in extra
    <3>1. q[1].n # 1 /\ q[3] \in RowsOf(scope)
      BY <2>3, ForeignShape DEF Start
    <3> QED
      BY <1>1, <1>2, <3>1
  <2>4. ASSUME NEW r \in extra, q \in Companions(r, Ownerless) PROVE FALSE
    <3>1. r \in ForeignRefs
      BY DEF Start
    <3>2. q[1] = r[1] /\ q[3].n = 2 /\ r[1].n # 1
      BY <2>4, <3>1, CompanionShape, ForeignShape
    <3> QED
      BY <1>1, <1>2, <3>2
  <2> QED
    BY <2>1, <2>2, <2>3, <2>4
<1>4. PICK p \in scope : Row(t, 1) = p[1] \/ Row(t, 1) = p[3]
  BY <1>3, RowsOfElement
<1>5. \/ \E i \in 1..k : p \in GraphStages[i]
      \/ k = 2 /\ p = Ref("form", 1, "session", "session", 2)
  BY ScopeElement DEF Start
<1>6. ASSUME NEW i \in 1..k, p \in GraphStages[i] PROVE FirstStage[t] \in 1..k
  <2>1. i \in 1..7 /\ k \in 1..7
    BY <1>6 DEF Start
  <2>2. FirstStage[t] \in 1..i
    BY <1>4, <1>6, <2>1, StageStart
  <2> QED
    BY <2>1, <2>2
<1>7. CASE k = 2 /\ p = Ref("form", 1, "session", "session", 2)
  <2>1. p[1] = Row("form", 1) /\ p[3].n = 2
    BY <1>7, Parts
  <2>2. t = "form"
    BY <1>2, <1>4, <2>1, Parts
  <2> QED
    BY <1>7, <2>2 DEF FirstStage
<1> QED
  BY <1>5, <1>6, <1>7

\* The database at the start.
LEMMA StartWorks ==
  ASSUME Init
  PROVE  TypeOK /\ LeftoverStaysTracked /\ WorkInv
<1>1. PICK k \in 1..Len(GraphStages) : \E home \in 1..(IF k = 2 THEN 2 ELSE 1) :
        LET scope == ScopeRefs(k, home) IN
        \E extra \in {s \in SUBSET {r \in ForeignRefs : r[3] \in RowsOf(scope)} :
                         Cardinality(s) <= MaxForeign} :
          /\ refs = WithForeign(scope, extra, Ownerless)
          /\ run \in (IF k < 2 THEN {"none"} ELSE {"none", "active", "ended"})
          /\ refresh \in (IF k < 6 THEN {"none"} ELSE {"active", "ended"})
          /\ odd \in (IF k < 4 THEN {FALSE} ELSE BOOLEAN)
  BY DEF Init
<1>2. PICK home \in 1..(IF k = 2 THEN 2 ELSE 1) :
        \E extra \in {s \in SUBSET {r \in ForeignRefs : r[3] \in RowsOf(ScopeRefs(k, home))} :
                         Cardinality(s) <= MaxForeign} :
          /\ refs = WithForeign(ScopeRefs(k, home), extra, Ownerless)
          /\ run \in {"none", "active", "ended"}
          /\ refresh \in {"none", "active", "ended"}
          /\ odd \in BOOLEAN
  BY <1>1
<1>3. PICK extra \in SUBSET {r \in ForeignRefs : r[3] \in RowsOf(ScopeRefs(k, home))} :
          refs = WithForeign(ScopeRefs(k, home), extra, Ownerless)
  BY <1>2
<1>4. /\ rows = RowsOf(refs) /\ committed = [rows |-> rows, refs |-> refs] /\ step = 0
      /\ plan = {} /\ disturbed = FALSE /\ tracked = {Row("temp", 1)} \cap rows
      /\ result = Undecided
  BY DEF Init
<1>5. Start(k, home, extra)
  <2>1. Len(GraphStages) = 7
    BY DEF GraphStages
  <2> QED
    BY <1>3, <1>4, <2>1 DEF Start
<1>6. \A r \in extra : r \in ForeignRefs
  BY <1>3
<1>7. \A q : q \in refs <=> \/ q \in ScopeRefs(k, home) \/ q \in extra
                          \/ \E r \in extra : q \in Companions(r, Ownerless)
  BY <1>3, WithForeignElement
<1>8. \A q \in refs : q[1] \in rows /\ q[3] \in rows
  BY <1>4, RowsOfElement
<1>9. TypeOK
  <2>1. step \in 0..Len(Steps) + 1
    BY <1>4, Statements
  <2>2. committed.rows = rows /\ committed.refs = refs
    BY <1>4
  <2>3. result \in Results
    BY <1>4 DEF Results
  <2> QED
    BY <1>2, <1>4, <1>8, <2>1, <2>2, <2>3 DEF TypeOK
<1>10. LeftoverStaysTracked
  BY <1>4 DEF LeftoverStaysTracked
<1>11. BaseInv
  <2>1. ScopeRefs(k, home) \subseteq Universe
    <3> SUFFICES ASSUME NEW r \in ScopeRefs(k, home) PROVE r \in Universe
      OBVIOUS
    <3>1. \/ \E i \in 1..k : r \in GraphStages[i]
          \/ r = Ref("form", 1, "session", "session", 2)
      BY <1>5, ScopeElement DEF Start
    <3>2. k \in 1..7
      BY <1>5 DEF Start
    <3> QED
      BY <3>1, <3>2 DEF Universe
  <2>2. refs \subseteq Universe
    BY <1>6, <1>7, <2>1, CompanionShape, OthersInUniverse
  <2>3. rows \subseteq RowsOf(Universe)
    BY <1>4, <2>2, RowsOfElement
  <2> QED
    BY <1>4, <1>8, <2>2, <2>3 DEF BaseInv
<1>12. ASSUME NEW t \in DOMAIN FirstStage, Has(t), NEW r \in GraphStages[FirstStage[t]],
              r[1].t # "form" \/ r[2] # "session"
       PROVE  r \in refs
  <2>1. FirstStage[t] \in 1..k /\ k \in 1..7
    BY <1>5, <1>12, StartRows DEF Start
  <2>2. r \in ScopeRefs(k, home)
    BY <1>12, <2>1, InScope
  <2> QED
    BY <1>7, <2>2
<1>13. DOMAIN FirstStage = {"message", "session", "form", "binding", "temp", "pool", "member",
                            "version", "component", "experiment", "metric", "registration",
                            "calculated", "refresh", "detail", "relation", "sub", "feedback"}
  BY DEF FirstStage
<1>14. ASSUME NEW t \in DOMAIN FirstStage, Has(t), NEW u, NEW c, NEW v, NEW w,
              Ref(u, 1, c, v, w) \in GraphStages[FirstStage[t]], u # "form" \/ c # "session"
       PROVE  Ref(u, 1, c, v, w) \in refs
  <2>1. Ref(u, 1, c, v, w)[1].t = u /\ Ref(u, 1, c, v, w)[2] = c
    BY Parts
  <2> QED
    BY <1>12, <1>14, <2>1
<1>15. ColumnInv
  <2>1. \A t \in {"calculated", "refresh", "detail"} : Has(t) => Ref(t, 1, "sub", "sub", 1) \in refs
    BY <1>13, <1>14 DEF FirstStage, GraphStages
  <2>2. \A t \in {"feedback", "member", "pool"} : Has(t) => Ref(t, 1, "form", "form", 1) \in refs
    BY <1>13, <1>14 DEF FirstStage, GraphStages
  <2>3. Has("component") => Ref("component", 1, "version", "version", 1) \in refs
    BY <1>13, <1>14 DEF FirstStage, GraphStages
  <2>4. Has("relation") => Ref("relation", 1, "child", "sub", 1) \in refs
    BY <1>13, <1>14 DEF FirstStage, GraphStages
  <2>5. Has("message") => Ref("message", 1, "session", "session", 1) \in refs
    BY <1>13, <1>14 DEF FirstStage, GraphStages
  <2>6. Has("binding") => Ref("binding", 1, "parent", "temp", 1) \in refs
    BY <1>13, <1>14 DEF FirstStage, GraphStages
  <2> QED
    BY <2>1, <2>2, <2>3, <2>4, <2>5, <2>6 DEF ColumnInv
<1>16. StartInv
  <2>1. Has("version") => Ref("version", 1, "form", "form", 1) \in refs
    BY <1>13, <1>14 DEF FirstStage, GraphStages
  <2>2. Has("pool") => Ref("form", 1, "pool", "pool", 1) \in refs
    BY <1>13, <1>14 DEF FirstStage, GraphStages
  <2>3. Has("experiment") => Ref("form", 1, "experiment", "experiment", 1) \in refs
    BY <1>13, <1>14 DEF FirstStage, GraphStages
  <2>4. Has("experiment") => Has("version")
    <3>1. Has("experiment") => Ref("version", 1, "experiment", "experiment", 1) \in refs
      BY <1>13, <1>14 DEF FirstStage, GraphStages
    <3> QED
      BY <1>8, <3>1, Parts DEF Has
  <2>5. Has("metric") => Ref("metric", 1, "experiment", "experiment", 1) \in refs
    BY <1>13, <1>14 DEF FirstStage, GraphStages
  <2>6. Has("registration") => Ref("registration", 1, "version", "version", 1) \in refs
    BY <1>13, <1>14 DEF FirstStage, GraphStages
  <2>7. Has("sub") => Ref("registration", 1, "sub", "sub", 1) \in refs
    BY <1>13, <1>14 DEF FirstStage, GraphStages
  <2>8. ASSUME ~NullOwners, NEW q \in refs, q[1] = Row("member", 2)
        PROVE  Ref("member", 2, "form", "form", 2) \in refs
    <3>1. Row("member", 2).t = "member" /\ Row("member", 2).n = 2
      BY Parts
    <3>2. q \notin ScopeRefs(k, home)
      <4> SUFFICES ASSUME q \in ScopeRefs(k, home) PROVE q[1].n = 1
        BY <2>8, <3>1
      <4>1. \/ \E i \in 1..k : q \in GraphStages[i]
            \/ q = Ref("form", 1, "session", "session", 2)
        BY <1>5, ScopeElement DEF Start
      <4>2. k \in 1..7
        BY <1>5 DEF Start
      <4> QED
        BY <4>1, <4>2, StagesOwn, Parts
    <3>3. PICK r \in extra : r[1] = Row("member", 2)
      BY <1>6, <1>7, <2>8, <3>2, CompanionShape
    <3>4. Ownerless = {}
      BY <2>8 DEF Ownerless
    <3>5. Companions(r, Ownerless) = {Ref("member", 2, "form", "form", 2)}
      BY <3>1, <3>3, <3>4 DEF Companions
    <3> QED
      BY <1>7, <3>5
  <2> QED
    BY <2>1, <2>2, <2>3, <2>4, <2>5, <2>6, <2>7, <2>8 DEF StartInv
<1>17. PlanInv
  BY <1>4 DEF PlanInv
<1>18. GoneInv
  BY <1>4, Statements DEF GoneInv
<1> QED
  BY <1>9, <1>10, <1>11, <1>15, <1>16, <1>17, <1>18 DEF WorkInv

-----------------------------------------------------------------------------
(* The ends.                                                                *)

\* An end before the first statement finds every reference in place.
LEMMA UntouchedEnd ==
  ASSUME TypeOK, LeftoverStaysTracked, WorkInv, RefuseForeignForm \/ Keep
  PROVE  TypeOK' /\ LeftoverStaysTracked' /\ NoDanglingReference' /\ AllOrNothing'
<1>1. /\ step = 0 /\ result' \in {"refused", "kept"}
      /\ UNCHANGED <<rows, refs, committed, factVars, step, plan, disturbed, tracked>>
  BY DEF RefuseForeignForm, Keep, End, dbVars
<1>2. rows = committed.rows /\ refs = committed.refs /\ \A r \in refs : r[3] \in rows
  BY <1>1 DEF WorkInv, BaseInv
<1>3. TypeOK'
  BY <1>1 DEF TypeOK, Results, Undecided, factVars
<1>4. LeftoverStaysTracked'
  BY <1>1 DEF LeftoverStaysTracked
<1>5. NoDanglingReference'
  BY <1>1, <1>2 DEF NoDanglingReference
<1>6. AllOrNothing'
  BY <1>1, <1>2 DEF AllOrNothing
<1> QED
  BY <1>3, <1>4, <1>5, <1>6

\* A rollback gives back the database the others see, where every reference is
\* in place.
LEMMA RolledBackEnd ==
  ASSUME TypeOK, LeftoverStaysTracked, WorkInv, NEW e \in {"blocked", "db_error"}, RollBack(e)
  PROVE  TypeOK' /\ LeftoverStaysTracked' /\ NoDanglingReference' /\ AllOrNothing'
<1>1. /\ rows' = committed.rows /\ refs' = committed.refs /\ result' = e
      /\ UNCHANGED <<committed, factVars, step, plan, disturbed, tracked>>
  BY DEF RollBack
<1>2. \A r \in committed.refs : r[1] \in committed.rows /\ r[3] \in committed.rows
  BY DEF WorkInv, BaseInv
<1>3. TypeOK'
  BY <1>1, <1>2 DEF TypeOK, Results, Undecided, factVars
<1>4. LeftoverStaysTracked'
  BY <1>1 DEF LeftoverStaysTracked
<1>5. NoDanglingReference'
  BY <1>1, <1>2 DEF NoDanglingReference
<1>6. AllOrNothing'
  BY <1>1 DEF AllOrNothing
<1> QED
  BY <1>3, <1>4, <1>5, <1>6

\* After the last statement nothing of the scope is left that others do not use.
LEMMA CommittedEnd ==
  ASSUME TypeOK, LeftoverStaysTracked, WorkInv, Commit
  PROVE  TypeOK' /\ LeftoverStaysTracked' /\ NoDanglingReference' /\ AllOrNothing'
<1> USE DEF WorkInv
<1>1. /\ step = 21 /\ result = Undecided /\ result' = "deleted"
      /\ committed' = [rows |-> rows, refs |-> refs] /\ tracked' = tracked \cap rows
      /\ UNCHANGED <<rows, refs, factVars, step, plan, disturbed>>
  BY Statements DEF Commit, TypeOK
<1>2. committed'.rows = rows /\ committed'.refs = refs
  BY <1>1
<1>3. TypeOK'
  BY <1>1, <1>2 DEF TypeOK, Results, Undecided, factVars
<1>4. LeftoverStaysTracked'
  BY <1>1, <1>2 DEF LeftoverStaysTracked, TypeOK
<1>5. \A t \in DOMAIN DeletedAt : ~Has(t)
  BY <1>1, Statements DEF GoneInv
<1>6. NoDanglingReference'
  <2> SUFFICES ASSUME NEW r \in refs, r[3] \notin rows
               PROVE  disturbed /\ r[1].t = "form" /\ r[2] = "pool"
    BY <1>1 DEF NoDanglingReference
  <2>1. UnderNoKey(r) /\ r \in Universe /\ r[1] \in rows
    BY DEF TypeOK, BaseInv
  <2>2. Shape(r)
    BY <2>1, UniverseShape
  <2>3. r[1].n = 1 => r[1] = Row(r[1].t, 1)
    BY <2>2 DEF Shape
  <2>4. r[1].t \in DOMAIN DeletedAt
    BY <2>1, DeletedTables DEF UnderNoKey
  <2>5. r[1].n # 1
    BY <1>5, <2>1, <2>3, <2>4 DEF Has
  <2>6. r[1].t = "form" /\ r[2] = "pool" /\ r = Ref("form", 2, "pool", "pool", 1)
    BY <2>1, <2>2, <2>5 DEF Shape, UnderNoKey
  <2>7. r \in ForeignRefs /\ r \notin Harmless /\ r # Ref("member", 2, "sub", "sub", 1)
    <3>1. r \in ForeignRefs
      BY <2>6 DEF ForeignRefs
    <3>2. r[1].t = "form" /\ r[2] = "pool"
      BY <2>6
    <3> QED
      BY <3>1, <3>2, Parts DEF Harmless
  <2>8. disturbed
    BY <1>1, <2>7 DEF PlanInv
  <2> QED
    BY <2>6, <2>8
<1>7. ASSUME NEW x \in rows, x.n = 1
      PROVE  \/ x.t = "factor"
             \/ x.t \in {"session", "message"} /\ Row("form", 2) \in rows
             \/ x.t \in {"temp", "binding"} /\ \E r \in refs : r[3] = Row("temp", 1) /\ r[1].n # 1
  <2>1. PICK q \in Universe : x = q[1] \/ x = q[3]
    BY RowsOfElement DEF BaseInv
  <2>2. x = Row(x.t, 1) /\ x.t \in OwnTypes
    BY <1>7, <2>1, UniverseShape DEF Shape
  <2>3. Has(x.t)
    BY <2>2 DEF Has
  <2>4. x.t \in {"message", "binding", "session", "temp", "factor"}
    BY <1>5, <2>2, <2>3, DeletedTables DEF OwnTypes, Bottom, PlannedTypes
  <2>5. Has("session") => Row("form", 2) \in rows
    BY <1>1 DEF GoneInv, PlanInv
  <2>6. CASE x.t = "message"
    <3> DEFINE m == Ref("message", 1, "session", "session", 1)
    <3>1. m \in refs
      BY <2>3, <2>6 DEF ColumnInv
    <3>2. m[1].t = "message" /\ m[3] = Row("session", 1)
      BY Parts
    <3>3. Has("session")
      BY <3>1, <3>2 DEF BaseInv, UnderNoKey, Has
    <3> QED
      BY <2>5, <2>6, <3>3
  <2>7. CASE x.t = "session"
    BY <2>3, <2>5, <2>7
  <2>8. CASE x.t \in {"temp", "binding"}
    BY <1>1, <2>3, <2>8 DEF GoneInv
  <2> QED
    BY <2>4, <2>6, <2>7, <2>8
<1>8. AllOrNothing'
  BY <1>1, <1>7 DEF AllOrNothing, Undecided
<1> QED
  BY <1>3, <1>4, <1>6, <1>8

-----------------------------------------------------------------------------
(* The theorems.                                                            *)

\* The inductive invariant: the working invariant until the end, and then what
\* the cleanup promises.
CleanupInv ==
    /\ TypeOK
    /\ LeftoverStaysTracked
    /\ result = Undecided => WorkInv
    /\ NoDanglingReference
    /\ AllOrNothing
    /\ ~NullOwners => BlockedOnlyByInterference

\* A step of the cleanup keeps the invariant.
LEMMA CleanupStep ==
  ASSUME CleanupInv, [Next]_vars
  PROVE  CleanupInv'
<1> USE DEF CleanupInv
<1>1. ASSUME result' = Undecided, WorkInv', TypeOK', LeftoverStaysTracked' PROVE CleanupInv'
  BY <1>1 DEF NoDanglingReference, AllOrNothing, BlockedOnlyByInterference, Undecided
<1>2. ASSUME result' # Undecided, TypeOK', LeftoverStaysTracked', NoDanglingReference', AllOrNothing',
             ~NullOwners => BlockedOnlyByInterference'
      PROVE  CleanupInv'
  BY <1>2
<1>3. CASE RefuseForeignForm \/ Keep
  <2>1. result = Undecided /\ result' \in {"refused", "kept"}
    BY <1>3 DEF RefuseForeignForm, Keep, End
  <2>2. TypeOK' /\ LeftoverStaysTracked' /\ NoDanglingReference' /\ AllOrNothing'
    BY <1>3, <2>1, UntouchedEnd
  <2> QED
    BY <1>2, <2>1, <2>2 DEF BlockedOnlyByInterference, Undecided
<1>4. CASE Decide
  <2>1. result = Undecided /\ result' = Undecided /\ UNCHANGED <<committed, tracked>>
    BY <1>4 DEF Decide, dbVars
  <2>2. TypeOK' /\ WorkInv'
    BY <1>4, <2>1, DecideStep
  <2>3. LeftoverStaysTracked'
    BY <2>1 DEF LeftoverStaysTracked
  <2> QED
    BY <1>1, <2>1, <2>2, <2>3
<1>5. CASE Statement
  <2>1. /\ step \in 1..20 /\ result = Undecided /\ step' = step + 1
        /\ UNCHANGED <<committed, factVars, plan, disturbed, tracked, result>>
    BY <1>5, Statements DEF Statement
  <2>2. LeftoverStaysTracked'
    BY <2>1 DEF LeftoverStaysTracked
  <2>3. \/ /\ Steps[step].op # "clear" /\ ~Restricted(Affected(Steps[step]))
           /\ rows' = rows \ Affected(Steps[step])
           /\ refs' = {r \in refs : r[1] \notin Affected(Steps[step])}
        \/ /\ Steps[step].op = "clear" /\ UNCHANGED rows
           /\ refs' = {r \in refs : ~(r[1] \in Affected(Steps[step]) /\ r[2] \in Steps[step].of)}
    BY <1>5 DEF Statement
  <2>4. TypeOK' /\ WorkInv'
    BY <2>1, <2>3, DeletionStep, ClearStep
  <2> QED
    BY <1>1, <2>1, <2>2, <2>4
<1>6. CASE StatementBlocked
  <2>1. /\ step \in 1..20 /\ result = Undecided /\ Steps[step].op # "clear"
        /\ Restricted(Affected(Steps[step])) /\ RollBack("blocked")
    BY <1>6, Statements DEF StatementBlocked
  <2>2. TypeOK' /\ LeftoverStaysTracked' /\ NoDanglingReference' /\ AllOrNothing'
    BY <2>1, RolledBackEnd
  <2>3. ~NullOwners => disturbed
    BY <2>1, Unblocked
  <2>4. result' # Undecided /\ disturbed' = disturbed
    BY <2>1 DEF RollBack, Undecided
  <2> QED
    BY <1>2, <2>2, <2>3, <2>4 DEF BlockedOnlyByInterference
<1>7. CASE DatabaseError
  <2>1. result = Undecided /\ RollBack("db_error")
    BY <1>7 DEF DatabaseError
  <2>2. TypeOK' /\ LeftoverStaysTracked' /\ NoDanglingReference' /\ AllOrNothing'
    BY <2>1, RolledBackEnd
  <2>3. result' = "db_error"
    BY <2>1 DEF RollBack
  <2> QED
    BY <1>2, <2>2, <2>3 DEF BlockedOnlyByInterference, Undecided
<1>8. CASE Commit
  <2>1. result = Undecided /\ result' = "deleted"
    BY <1>8 DEF Commit
  <2>2. TypeOK' /\ LeftoverStaysTracked' /\ NoDanglingReference' /\ AllOrNothing'
    BY <1>8, <2>1, CommittedEnd
  <2> QED
    BY <1>2, <2>1, <2>2 DEF BlockedOnlyByInterference, Undecided
<1>9. ASSUME NEW r \in ForeignRefs, Interfere(r) PROVE CleanupInv'
  <2>1. result = Undecided /\ result' = Undecided
    BY <1>9 DEF Interfere
  <2>2. TypeOK' /\ LeftoverStaysTracked' /\ WorkInv'
    BY <1>9, <2>1, InterfereStep
  <2> QED
    BY <1>1, <2>1, <2>2
<1>10. CASE UNCHANGED vars
  BY <1>10 DEF vars, dbVars, factVars, TypeOK, LeftoverStaysTracked, NoDanglingReference, AllOrNothing,
               BlockedOnlyByInterference, WorkInv, BaseInv, ColumnInv, StartInv, PlanInv, GoneInv,
               Has, UnderNoKey
<1> QED
  BY <1>3, <1>4, <1>5, <1>6, <1>7, <1>8, <1>9, <1>10 DEF Next, Terminated

\* The invariant of the cleanup holds in every state, for any number of
\* references from outside and whether or not pool members may lack a form.
THEOREM CleanupInvariant == Spec => []CleanupInv
<1>1. Init => CleanupInv
  <2> SUFFICES ASSUME Init PROVE CleanupInv
    OBVIOUS
  <2>1. result = Undecided
    BY DEF Init
  <2> QED
    BY <2>1, StartWorks
       DEF CleanupInv, NoDanglingReference, AllOrNothing, BlockedOnlyByInterference, Undecided
<1>2. CleanupInv /\ [Next]_vars => CleanupInv'
  BY CleanupStep
<1> QED
  BY <1>1, <1>2, PTL DEF Spec

\* However clean_test_graph ends, no row that stays refers to a deleted one: the
\* transaction's order of deletion and its rollback leave only a form that
\* others point at the pool while it is deleted.
THEOREM NothingDangles == Spec => []NoDanglingReference
<1>1. CleanupInv => NoDanglingReference
  BY DEF CleanupInv
<1> QED
  BY <1>1, CleanupInvariant, PTL

\* clean_test_graph deletes the whole graph of the scope or leaves all of it,
\* also when a statement in the middle fails.
THEOREM GraphGoesAsAWhole == Spec => []AllOrNothing
<1>1. CleanupInv => AllOrNothing
  BY DEF CleanupInv
<1> QED
  BY <1>1, CleanupInvariant, PTL

\* A temporary parent factor that is still in the database is still recorded in
\* _test_parent_factor_ids_by_form.
THEOREM LeftoverIsOnRecord == Spec => []LeftoverStaysTracked
<1>1. CleanupInv => LeftoverStaysTracked
  BY DEF CleanupInv
<1> QED
  BY <1>1, CleanupInvariant, PTL

\* Where every pool member has a form, the checks before the deletion see every
\* reference that a foreign key would stop it for: only interference blocks it.
THEOREM ChecksSuffice == ~NullOwners => (Spec => []BlockedOnlyByInterference)
<1> SUFFICES ASSUME ~NullOwners PROVE Spec => []BlockedOnlyByInterference
  OBVIOUS
<1>1. CleanupInv => BlockedOnlyByInterference
  BY DEF CleanupInv
<1> QED
  BY <1>1, CleanupInvariant, PTL

\* No step of a cleanup deletes a row of others but a lineage relation they add
\* to the scope's sub-factor while it is deleted.
THEOREM OthersAreKept == Spec => OthersKept
<1>1. ASSUME CleanupInv, [Next]_vars
      PROVE  [\A x \in rows \ rows' : x.n = 1 \/ (disturbed /\ x.t = "relation")]_vars
  <2>1. ASSUME rows \subseteq rows'
        PROVE  [\A x \in rows \ rows' : x.n = 1 \/ (disturbed /\ x.t = "relation")]_vars
    BY <2>1
  <2>2. CASE Statement
    <3>1. /\ step \in 1..20 /\ result = Undecided
          /\ rows' = rows \/ rows' = rows \ Affected(Steps[step])
      BY <2>2, Statements DEF Statement
    <3>2. TypeOK /\ WorkInv
      BY <1>1, <3>1 DEF CleanupInv
    <3>3. \A x \in rows \ rows' : x.n = 1 \/ (disturbed /\ x = Row("relation", 3))
      BY <3>1, <3>2, AffectedOwn
    <3> QED
      BY <3>3, Parts
  <2>3. CASE StatementBlocked \/ DatabaseError
    BY <1>1, <2>1, <2>3 DEF StatementBlocked, DatabaseError, RollBack, CleanupInv, TypeOK
  <2>4. CASE RefuseForeignForm \/ Keep \/ Decide \/ Commit \/ Terminated \/ UNCHANGED vars
    BY <2>1, <2>4 DEF RefuseForeignForm, Keep, End, Decide, Commit, Terminated, vars, dbVars
  <2>5. CASE \E r \in ForeignRefs : Interfere(r)
    BY <2>1, <2>5 DEF Interfere
  <2> QED
    BY <1>1, <2>2, <2>3, <2>4, <2>5 DEF Next
<1> QED
  BY <1>1, CleanupInvariant, PTL DEF Spec, OthersKept
====
