----------------------- MODULE RefreshEvidenceProofs -----------------------
(***************************************************************************)
(* The acceptance of a Performance Refresh for every set of windows and    *)
(* every number of retries: evidence put together from reads at different  *)
(* times is true and of one refresh, and lateness is no contradiction.     *)
(***************************************************************************)
EXTENDS RefreshEvidence, FiniteSetTheorems, TLAPS

-----------------------------------------------------------------------------
(* The inductive invariant.  The backend only adds: a completed run stays   *)
(* completed, a written summary row stays, and a link only moves on to a    *)
(* later refresh.  So what was read remains true, and what a later read     *)
(* returns contains what an earlier one referred to.                        *)

LinkRowType == [Scopes -> Refreshes \cup {None}]
CalculationRowType ==
    [part: Parts, run: Runs, value: {"null", "full"}, completed: BOOLEAN]
DetailRowType == [run: Runs, completed: BOOLEAN]
SeenType == [validity: [Windows -> LinkRowType],
             calculation: SUBSET CalculationRowType,
             details: SUBSET DetailRowType,
             figures: Figures]

\* The control state: nothing is read before the queries, and only the audit
\* asks for the runs itself.
ControlInv ==
    /\ seen \in SeenType
    /\ pc \in {"api", "audit"} => seen = Unread
    /\ setting.caller = "flow" => pc # "audit"
    /\ pc = "done" <=> outcome # "none"

\* Every row that was read is a row of the database, which only gained since;
\* and the calculation rows read after the validity rows hold all they link.
SeenInv ==
    /\ \A c \in seen.calculation :
          /\ c.run = RunOf(c.part)
          /\ c.completed => c.run \in completed
          /\ c.value = "full" => summary[c.part] = "full"
    /\ \A d \in seen.details : d.completed => d.run \in completed
    /\ \A w \in Windows, s \in Scopes :
          /\ seen.validity[w][s] # None => summary[<<seen.validity[w][s], s>>] # "absent"
          /\ seen.validity[w][s] <= link[w][s]
    /\ seen.figures = "rewritten" => figures = "rewritten"
    /\ pc \in {"details", "slices"} =>
          \A w \in Windows, s \in Scopes : seen.validity[w][s] # None =>
              \E c \in seen.calculation : c.part = <<seen.validity[w][s], s>>

\* The foreign keys, rows written by one statement, and the audited factor.
LinkInv ==
    /\ \A w \in Windows, s \in Scopes :
          link[w][s] # None => summary[<<link[w][s], s>>] # "absent"
    /\ setting.atOnce => \A w \in Windows, s, t \in Scopes :
                            /\ link[w][s] = link[w][t]
                            /\ seen.validity[w][s] = seen.validity[w][t]
    /\ setting.caller = "audit" => \A w \in Windows, s \in Scopes : link[w][s] # None

\* A summary row of the older API answer is still there when the tables are
\* read, and has its core values if it had them.
MetricInv ==
    /\ \A m \in api.metrics :
          /\ m.part[2] = "time_series"
          /\ summary[m.part] # "absent"
          /\ m.value = "full" => summary[m.part] = "full"
          /\ \E w \in Windows : link[w][m.part[2]] >= m.part[1]
    /\ pc \in {"calculation", "details", "slices"} =>
          \A m \in api.metrics : \E w \in Windows : seen.validity[w][m.part[2]] >= m.part[1]
    /\ pc \in {"details", "slices"} =>
          \A m \in api.metrics : \E c \in seen.calculation :
              c.part = m.part /\ (m.value = "full" => c.value = "full")

\* A validity row of the older API answer was linked, and not later than the
\* row that was read.
ValidityInv ==
    \A v \in api.validity, s \in Scopes :
        /\ v.link[s] # None
        /\ v.link[s] <= link[v.window][s]
        /\ pc \in {"calculation", "details", "slices"} =>
              v.link[s] <= seen.validity[v.window][s]

ApiInv == MetricInv /\ ValidityInv

\* The runs the evidence is asked for.
IdsInv ==
    /\ setting.caller = "flow" /\ pc # "api" => ids = AnsweredRunIds
    /\ setting.caller = "audit" /\ pc \in {"validity", "calculation", "details", "slices"} =>
          Begun(2) \/ ids = RunsOf(1)

\* While nothing was written since the attempt began, what was read is what is
\* there, and that is a whole first refresh.
QuietInv ==
    quiet =>
        /\ Whole(1) /\ ~Begun(2)
        /\ pc \in {"calculation", "details", "slices"} => seen.validity = link
        /\ pc \in {"details", "slices"} => seen.calculation = CalculationRows
        /\ pc = "slices" => seen.details = RunDetails

ReadInv == TypeOK /\ ControlInv /\ SeenInv /\ LinkInv /\ ApiInv /\ IdsInv /\ QuietInv

-----------------------------------------------------------------------------
(* Runs and links.                                                          *)

\* A refresh has one run for each scope, or one for both.
LEMMA RunsOfElement ==
  ASSUME NEW g, NEW r
  PROVE  r \in RunsOf(g) <=> \E s \in Scopes : r = RunOf(<<g, s>>)
<1>1. r \in RunsOf(g) <=> \E p \in {g} \X Scopes : r = RunOf(p)
  BY DEF RunsOf
<1>2. \A p \in {g} \X Scopes : \E s \in Scopes : p = <<g, s>>
  OBVIOUS
<1>3. \A s \in Scopes : <<g, s>> \in {g} \X Scopes
  OBVIOUS
<1> QED
  BY <1>1, <1>2, <1>3

\* The runs a validity row refers to.
LEMMA LinkedRunsElement ==
  ASSUME NEW row, NEW r
  PROVE  r \in LinkedRuns(row) <=> \E s \in Scopes : row[s] # None /\ r = RunOf(<<row[s], s>>)
BY DEF LinkedRuns

\* The runs that a set of validity rows refers to.
LEMMA RunsLinkedByElement ==
  ASSUME NEW V, NEW W, NEW r
  PROVE  r \in RunsLinkedBy(V, W) <=> \E w \in W : r \in LinkedRuns(V[w])
BY DEF RunsLinkedBy

\* Every part has a run, and no run belongs to two refreshes.
LEMMA RunTypes ==
  /\ \A g \in Refreshes, s \in Scopes :
        <<g, s>> \in Parts /\ RunOf(<<g, s>>) \in Runs /\ RunOf(<<g, s>>) \in RunsOf(g)
  /\ \A g, h \in Refreshes, s, t \in Scopes : RunOf(<<g, s>>) = RunOf(<<h, t>>) => g = h
  /\ \A g \in Refreshes : RunsOf(g) \subseteq Runs /\ RunsOf(g) # {}
<1>1. \A g \in Refreshes, s \in Scopes :
        <<g, s>> \in Parts /\ RunOf(<<g, s>>) \in Runs /\ RunOf(<<g, s>>) \in RunsOf(g)
  BY RunsOfElement DEF Parts, Runs
<1>2. \A g, h \in Refreshes, s, t \in Scopes : RunOf(<<g, s>>) = RunOf(<<h, t>>) => g = h
  BY DEF RunOf
<1>3. \A g \in Refreshes : RunsOf(g) \subseteq Runs /\ RunsOf(g) # {}
  <2> TAKE g \in Refreshes
  <2>1. RunOf(<<g, "time_series">>) \in RunsOf(g)
    BY <1>1 DEF Scopes
  <2>2. ASSUME NEW r \in RunsOf(g) PROVE r \in Runs
    <3>1. PICK s \in Scopes : r = RunOf(<<g, s>>)
      BY RunsOfElement
    <3> QED
      BY <1>1, <3>1
  <2> QED
    BY <2>1, <2>2
<1> QED
  BY <1>1, <1>2, <1>3

\* A validity row that is linked at all has a linked scope.
LEMMA LinkedScope ==
  ASSUME NEW row \in LinkRowType
  PROVE  row # NoLink <=> \E s \in Scopes : row[s] # None
BY DEF LinkRowType, NoLink, Scopes

\* The runs of any validity rows are runs.
LEMMA RunsLinkedType ==
  ASSUME NEW V \in [Windows -> LinkRowType], NEW W \in SUBSET Windows
  PROVE  RunsLinkedBy(V, W) \subseteq Runs
<1> SUFFICES ASSUME NEW w \in W, NEW r \in LinkedRuns(V[w]) PROVE r \in Runs
  BY RunsLinkedByElement
<1>1. V[w] \in LinkRowType
  OBVIOUS
<1>2. PICK s \in Scopes : V[w][s] # None /\ r = RunOf(<<V[w][s], s>>)
  BY LinkedRunsElement
<1>3. V[w][s] \in Refreshes
  BY <1>1, <1>2 DEF LinkRowType
<1> QED
  BY <1>2, <1>3, RunTypes

\* The caller, the answer of the refresh and the way it writes do not change.
LEMMA SettingKept ==
  ASSUME setting' = setting
  PROVE  /\ \A p : RunOf(p)' = RunOf(p)
         /\ Runs' = Runs
         /\ \A g : RunsOf(g)' = RunsOf(g)
         /\ SeenType' = SeenType
         /\ AnsweredRunIds' = AnsweredRunIds
         /\ \A row : LinkedRuns(row)' = LinkedRuns(row)
<1>1. \A p : RunOf(p)' = RunOf(p)
  BY DEF RunOf
<1>2. Runs' = Runs
  BY DEF Runs, RunOf
<1>3. \A g : RunsOf(g)' = RunsOf(g)
  BY DEF RunsOf, RunOf
<1>4. SeenType' = SeenType
  BY <1>2 DEF SeenType, CalculationRowType, DetailRowType
<1>5. \A row : LinkedRuns(row)' = LinkedRuns(row)
  BY DEF LinkedRuns, RunOf
<1> QED
  BY <1>1, <1>2, <1>3, <1>4, <1>5 DEF AnsweredRunIds

\* What the two queries on the calculation tables return.
LEMMA CalculationRowsFacts ==
  ASSUME TypeOK
  PROVE  /\ CalculationRows \subseteq CalculationRowType
         /\ \A c \in CalculationRows :
               /\ c.run = RunOf(c.part)
               /\ c.completed <=> c.run \in completed
               /\ c.value = summary[c.part]
         /\ \A p \in Parts : summary[p] # "absent" => \E c \in CalculationRows : c.part = p
<1> DEFINE Row(p) == [part |-> p, run |-> RunOf(p), value |-> summary[p],
                      completed |-> RunOf(p) \in completed]
<1>1. \A c : c \in CalculationRows <=> \E p \in Parts : summary[p] # "absent" /\ c = Row(p)
  BY DEF CalculationRows
<1>2. \A p \in Parts : RunOf(p) \in Runs
  BY DEF Runs
<1>3. \A p : /\ Row(p).part = p /\ Row(p).run = RunOf(p) /\ Row(p).value = summary[p]
  OBVIOUS
<1>4. \A p : Row(p).completed <=> RunOf(p) \in completed
  BY Zenon
<1>5. \A p \in Parts : summary[p] # "absent" => Row(p) \in CalculationRowType
  <2> SUFFICES ASSUME NEW p \in Parts, summary[p] # "absent"
               PROVE  Row(p) \in CalculationRowType
    OBVIOUS
  <2>1. summary[p] \in {"null", "full"}
    BY DEF TypeOK
  <2>2. (RunOf(p) \in completed) \in BOOLEAN
    OBVIOUS
  <2> QED
    BY <1>2, <2>1, <2>2, Zenon DEF CalculationRowType
<1> HIDE DEF Row
<1>6. CalculationRows \subseteq CalculationRowType
  BY <1>1, <1>5
<1>7. ASSUME NEW c \in CalculationRows
      PROVE  /\ c.run = RunOf(c.part)
             /\ c.completed <=> c.run \in completed
             /\ c.value = summary[c.part]
  <2>1. PICK p \in Parts : c = Row(p)
    BY <1>1
  <2> QED
    BY <1>3, <1>4, <2>1
<1>8. \A p \in Parts : summary[p] # "absent" => \E c \in CalculationRows : c.part = p
  BY <1>1, <1>3
<1> QED
  BY <1>6, <1>7, <1>8

\* The run master rows follow the calculation rows.
LEMMA RunDetailsFacts ==
  ASSUME TypeOK
  PROVE  /\ RunDetails \subseteq DetailRowType
         /\ \A d \in RunDetails : d.completed => d.run \in completed
         /\ \A c \in CalculationRows : c.completed => [run |-> c.run, completed |-> TRUE] \in RunDetails
<1> DEFINE Master(c) == [run |-> c.run, completed |-> c.completed]
<1>1. \A d : d \in RunDetails <=> \E c \in CalculationRows : d = Master(c)
  BY DEF RunDetails
<1>2. \A c \in CalculationRows : c.run \in Runs /\ c.completed \in BOOLEAN
  BY CalculationRowsFacts DEF CalculationRowType
<1>3. \A c \in CalculationRows : Master(c) \in DetailRowType
  BY <1>2, Zenon DEF DetailRowType
<1>4. \A c : Master(c).run = c.run /\ Master(c).completed = c.completed
  BY Zenon
<1>5. \A c \in CalculationRows : c.completed => Master(c) = [run |-> c.run, completed |-> TRUE]
  <2> SUFFICES ASSUME NEW c \in CalculationRows, c.completed
               PROVE  Master(c) = [run |-> c.run, completed |-> TRUE]
    OBVIOUS
  <2>1. c.completed = TRUE
    BY <1>2, Zenon
  <2> QED
    BY <2>1, Zenon
<1> HIDE DEF Master
<1>6. RunDetails \subseteq DetailRowType
  BY <1>1, <1>3
<1>7. ASSUME NEW d \in RunDetails, d.completed PROVE d.run \in completed
  <2>1. PICK c \in CalculationRows : d = Master(c)
    BY <1>1
  <2> QED
    BY <1>4, <1>7, <2>1, CalculationRowsFacts
<1>8. \A c \in CalculationRows : c.completed => [run |-> c.run, completed |-> TRUE] \in RunDetails
  <2> TAKE c \in CalculationRows
  <2> SUFFICES ASSUME c.completed
               PROVE  [run |-> c.run, completed |-> TRUE] \in RunDetails
    OBVIOUS
  <2>1. Master(c) \in RunDetails
    BY <1>1
  <2> QED
    BY <1>5, <2>1
<1> QED
  BY <1>6, <1>7, <1>8

-----------------------------------------------------------------------------
(* The steps.                                                               *)

\* The backend only adds to the tables.
Grows ==
    /\ completed \subseteq completed'
    /\ sliced \subseteq sliced'
    /\ \A p \in Parts : /\ summary[p] # "absent" => summary'[p] # "absent"
                        /\ summary[p] = "full" => summary'[p] = "full"
    /\ \A w \in Windows, s \in Scopes : link[w][s] <= link'[w][s]
    /\ figures = "rewritten" => figures' = "rewritten"

\* A write of the backend keeps what the tables hold, their types and their keys.
LEMMA BackendGrows ==
  ASSUME ReadInv, Backend
  PROVE  Grows /\ TypeOK' /\ LinkInv'
<1> USE DEF ReadInv
<1>0. /\ UNCHANGED <<setting, pc, attempt, api, ids, seen, outcome>> /\ quiet' = FALSE
      /\ Runs' = Runs
  BY SettingKept DEF Backend
<1>1. quiet' \in BOOLEAN
  BY <1>0, Zenon
<1>2. \A w \in Windows, s \in Scopes : link[w][s] \in Refreshes \cup {None}
  BY DEF TypeOK
<1>3. ASSUME completed' \subseteq Runs,
             summary' \in [Parts -> {"absent", "null", "full"}],
             sliced' \subseteq Refreshes,
             link' \in [Windows -> [Scopes -> Refreshes \cup {None}]],
             figures' \in Figures
      PROVE  TypeOK'
  BY <1>0, <1>1, <1>3 DEF TypeOK, Retries
<1>4. CASE CompleteRun
  <2>1. PICK r \in UNION {RunsOf(p[1]) : p \in {q \in Parts : summary[q] # "absent"}} :
          completed' = completed \cup {r}
    BY <1>4 DEF CompleteRun
  <2>2. PICK p \in Parts : r \in RunsOf(p[1])
    BY <2>1
  <2>3. r \in Runs
    BY <2>2, RunTypes DEF Parts
  <2>4. UNCHANGED <<summary, sliced, link, figures>>
    BY <1>4 DEF CompleteRun
  <2>5. TypeOK'
    BY <1>3, <2>1, <2>3, <2>4 DEF TypeOK
  <2>6. Grows
    BY <1>2, <2>1, <2>4 DEF Grows, Refreshes, None
  <2> QED
    BY <1>0, <2>4, <2>5, <2>6 DEF LinkInv
<1>5. CASE WriteSummary
  <2>1. PICK p \in {1} \X Scopes :
          \/ summary[p] = "absent" /\ \E v \in {"null", "full"} : summary' = [summary EXCEPT ![p] = v]
          \/ summary[p] = "null" /\ summary' = [summary EXCEPT ![p] = "full"]
    BY <1>5 DEF WriteSummary
  <2>2. p \in Parts
    BY <2>1 DEF Parts, Refreshes
  <2>3. UNCHANGED <<completed, sliced, link, figures>>
    BY <1>5 DEF WriteSummary
  <2>4. PICK v \in {"null", "full"} : /\ summary' = [summary EXCEPT ![p] = v]
                                      /\ summary[p] # "full"
    BY <2>1
  <2>5. summary' \in [Parts -> {"absent", "null", "full"}]
    BY <2>4 DEF TypeOK
  <2>6. TypeOK'
    BY <1>3, <2>3, <2>5 DEF TypeOK
  <2>7. \A q \in Parts : /\ summary[q] # "absent" => summary'[q] # "absent"
                         /\ summary[q] = "full" => summary'[q] = "full"
    BY <2>2, <2>4 DEF TypeOK
  <2>8. Grows
    BY <1>2, <2>3, <2>7 DEF Grows, Refreshes, None
  <2>9. LinkInv'
    BY <1>0, <1>2, <2>3, <2>7, RunTypes DEF LinkInv
  <2> QED
    BY <2>6, <2>8, <2>9
<1>6. CASE WriteSlices
  <2>1. UNCHANGED <<completed, summary, link, figures>> /\ sliced' = sliced \cup {1}
    BY <1>6 DEF WriteSlices
  <2>2. TypeOK'
    BY <1>3, <2>1 DEF TypeOK, Refreshes
  <2>3. Grows
    BY <1>2, <2>1 DEF Grows, Refreshes, None
  <2> QED
    BY <1>0, <2>1, <2>2, <2>3 DEF LinkInv
<1>7. CASE WriteSecond
  <2>1. /\ UNCHANGED <<completed, link, figures>> /\ sliced' = Refreshes
        /\ summary' = [p \in Parts |-> "full"]
    BY <1>7 DEF WriteSecond
  <2>2. TypeOK'
    BY <1>3, <2>1 DEF TypeOK
  <2>3. Grows
    BY <1>2, <2>1 DEF Grows, Refreshes, None, TypeOK
  <2>4. LinkInv'
    BY <1>0, <1>2, <2>1, RunTypes DEF LinkInv
  <2> QED
    BY <2>2, <2>3, <2>4
<1>8. CASE LinkRow
  <2>0. PICK g \in Refreshes, w \in Windows,
             S \in (IF setting.atOnce THEN {Scopes} ELSE {{s} : s \in Scopes}) :
          /\ \A s \in S : link[w][s] < g /\ summary[<<g, s>>] # "absent"
          /\ link' = [link EXCEPT ![w] = [s \in Scopes |-> IF s \in S THEN g ELSE @[s]]]
          /\ UNCHANGED <<completed, summary, sliced, figures>>
    BY <1>8, Zenon DEF LinkRow
  <2>1. /\ S \subseteq Scopes
        /\ setting.atOnce => S = Scopes
        /\ \A s \in S : link[w][s] < g /\ summary[<<g, s>>] # "absent"
        /\ link' = [link EXCEPT ![w] = [s \in Scopes |-> IF s \in S THEN g ELSE @[s]]]
        /\ UNCHANGED <<completed, summary, sliced, figures>>
    BY <2>0
  <2>2. link' \in [Windows -> [Scopes -> Refreshes \cup {None}]]
    BY <2>1 DEF TypeOK
  <2>3. TypeOK'
    BY <1>3, <2>1, <2>2 DEF TypeOK
  <2>4. \A v \in Windows, s \in Scopes :
          IF v = w /\ s \in S THEN link'[v][s] = g ELSE link'[v][s] = link[v][s]
    BY <2>1 DEF TypeOK
  <2>5. \A v \in Windows, s \in Scopes : link[v][s] <= link'[v][s]
    <3> TAKE v \in Windows, s \in Scopes
    <3>1. link[v][s] \in Int /\ g \in Int
      BY <1>2 DEF Refreshes, None
    <3>2. v = w /\ s \in S => link[v][s] < g
      BY <2>1
    <3> QED
      BY <2>4, <3>1, <3>2
  <2>6. Grows
    BY <2>1, <2>5 DEF Grows
  <2>7. \A v \in Windows, s \in Scopes :
          link'[v][s] # None => summary'[<<link'[v][s], s>>] # "absent"
    BY <2>1, <2>4 DEF LinkInv
  <2>8. setting.atOnce => \A v \in Windows, s, t \in Scopes : link'[v][s] = link'[v][t]
    BY <2>1, <2>4 DEF LinkInv
  <2>9. setting.caller = "audit" => \A v \in Windows, s \in Scopes : link'[v][s] # None
    BY <2>4 DEF LinkInv, Refreshes, None
  <2> QED
    BY <1>0, <2>3, <2>6, <2>7, <2>8, <2>9 DEF LinkInv
<1>9. CASE RewriteRow
  <2>1. UNCHANGED <<completed, summary, sliced, link>> /\ figures' = "rewritten"
    BY <1>9 DEF RewriteRow
  <2>2. TypeOK'
    BY <1>3, <2>1 DEF TypeOK, Figures
  <2>3. Grows
    BY <1>2, <2>1 DEF Grows, Refreshes, None
  <2> QED
    BY <1>0, <2>1, <2>2, <2>3 DEF LinkInv
<1> QED
  BY <1>4, <1>5, <1>6, <1>7, <1>8, <1>9 DEF Backend

\* A refresh that has begun has begun.
LEMMA BegunKept ==
  ASSUME Grows, setting' = setting, NEW g \in Refreshes, Begun(g)
  PROVE  Begun(g)'
<1>1. RunsOf(g)' = RunsOf(g)
  BY SettingKept
<1>2. \A s \in Scopes : <<g, s>> \in Parts
  BY RunTypes
<1> QED
  BY <1>1, <1>2 DEF Begun, Grows

\* What was read stays true while the backend adds to the tables.
LEMMA BackendStep ==
  ASSUME ReadInv, Backend
  PROVE  ReadInv'
<1> USE DEF ReadInv
<1>0. /\ UNCHANGED <<setting, pc, attempt, api, ids, seen, outcome>> /\ ~quiet'
      /\ SeenType' = SeenType /\ RunsOf(1)' = RunsOf(1)
      /\ AnsweredRunIds' = AnsweredRunIds /\ \A p : RunOf(p)' = RunOf(p)
  BY SettingKept DEF Backend
<1>1. Grows /\ TypeOK' /\ LinkInv'
  BY BackendGrows
<1>2. ControlInv'
  BY <1>0 DEF ControlInv, Unread
<1>3. SeenInv'
  <2>1. \A c \in seen.calculation : c.part \in Parts
    BY DEF ControlInv, SeenType, CalculationRowType
  <2>2. \A w \in Windows, s \in Scopes :
          seen.validity[w][s] # None => <<seen.validity[w][s], s>> \in Parts
    BY RunTypes DEF ControlInv, SeenType, LinkRowType
  <2>3. \A c \in seen.calculation :
          /\ c.run = RunOf(c.part)'
          /\ c.completed => c.run \in completed'
          /\ c.value = "full" => summary'[c.part] = "full"
    BY <1>0, <1>1, <2>1 DEF SeenInv, Grows
  <2>4. \A d \in seen.details : d.completed => d.run \in completed'
    BY <1>1 DEF SeenInv, Grows
  <2>5. \A w \in Windows, s \in Scopes :
          seen.validity[w][s] # None => summary'[<<seen.validity[w][s], s>>] # "absent"
    BY <1>1, <2>2 DEF SeenInv, Grows
  <2>6. \A w \in Windows, s \in Scopes : seen.validity[w][s] <= link'[w][s]
    <3> TAKE w \in Windows, s \in Scopes
    <3>1. seen.validity[w][s] <= link[w][s] /\ link[w][s] <= link'[w][s]
      BY <1>1 DEF SeenInv, Grows
    <3>2. seen.validity[w][s] \in Int /\ link[w][s] \in Int /\ link'[w][s] \in Int
      BY <1>1 DEF ControlInv, SeenType, LinkRowType, TypeOK, Refreshes, None
    <3> QED
      BY <3>1, <3>2
  <2>7. seen.figures = "rewritten" => figures' = "rewritten"
    BY <1>1 DEF SeenInv, Grows
  <2> QED
    BY <1>0, <2>3, <2>4, <2>5, <2>6, <2>7 DEF SeenInv
<1>4. ApiInv'
  <2>1. \A w \in Windows, s \in Scopes : link[w][s] \in Int /\ link'[w][s] \in Int
    BY <1>1 DEF TypeOK, Refreshes, None
  <2>2. \A m \in api.metrics : m.part \in Parts /\ m.part[1] \in Int /\ m.part[2] \in Scopes
    BY DEF TypeOK, Parts, Refreshes
  <2>3. ASSUME NEW m \in api.metrics
        PROVE  /\ summary'[m.part] # "absent"
               /\ m.value = "full" => summary'[m.part] = "full"
               /\ \E w \in Windows : link'[w][m.part[2]] >= m.part[1]
    <3>1. PICK w \in Windows : link[w][m.part[2]] >= m.part[1]
      BY DEF ApiInv, MetricInv
    <3>2. link'[w][m.part[2]] >= m.part[1]
      BY <1>1, <2>1, <2>2, <3>1 DEF Grows
    <3> QED
      BY <1>1, <2>2, <3>2 DEF ApiInv, MetricInv, Grows
  <2>4. MetricInv'
    BY <1>0, <2>3 DEF ApiInv, MetricInv
  <2>5. ASSUME NEW v \in api.validity, NEW s \in Scopes
        PROVE  v.link[s] <= link'[v.window][s]
    <3>1. v.window \in Windows /\ v.link[s] \in Int
      BY DEF TypeOK, Refreshes, None
    <3>2. v.link[s] <= link[v.window][s]
      BY DEF ApiInv, ValidityInv
    <3>3. link[v.window][s] <= link'[v.window][s]
      BY <1>1, <3>1 DEF Grows
    <3> QED
      BY <2>1, <3>1, <3>2, <3>3
  <2>6. ValidityInv'
    BY <1>0, <2>5 DEF ApiInv, ValidityInv
  <2> QED
    BY <2>4, <2>6 DEF ApiInv
<1>5. IdsInv'
  <2>1. Begun(2) => Begun(2)'
    BY <1>0, <1>1, BegunKept DEF Refreshes
  <2> QED
    BY <1>0, <2>1 DEF IdsInv
<1>6. QuietInv'
  BY <1>0 DEF QuietInv
<1> QED
  BY <1>1, <1>2, <1>3, <1>4, <1>5, <1>6

\* A step of the caller leaves the tables, and so what the queries return.
LEMMA TablesKept ==
  ASSUME UNCHANGED <<setting, dbVars>>
  PROVE  /\ Begun(2)' = Begun(2) /\ Whole(1)' = Whole(1)
         /\ CalculationRows' = CalculationRows /\ RunDetails' = RunDetails
         /\ UNCHANGED <<completed, summary, sliced, link, figures>>
<1>1. UNCHANGED <<completed, summary, sliced, link, figures>>
  BY DEF dbVars
<1>2. RunsOf(1)' = RunsOf(1) /\ RunsOf(2)' = RunsOf(2)
  BY SettingKept
<1>3. Begun(2)' = Begun(2) /\ Whole(1)' = Whole(1)
  BY <1>1, <1>2 DEF Begun, Whole
<1>4. CalculationRows' = CalculationRows
  BY <1>1 DEF CalculationRows, RunOf
<1> QED
  BY <1>1, <1>3, <1>4 DEF RunDetails

\* The detail API is read first: what it shows is linked.
LEMMA ReadApiStep ==
  ASSUME ReadInv, ReadApi
  PROVE  ReadInv'
<1> USE DEF ReadInv
<1>1. /\ pc = "api" /\ UNCHANGED <<setting, dbVars, attempt, seen, outcome>>
      /\ \/ api' \in {NothingShown} \cup ShownMetrics \cup ShownValidity
         \/ api' = [NothingShown EXCEPT !.shows = "bare"]
  BY DEF ReadApi
<1>0. \/ /\ api'.shows \in {"nothing", "bare"} /\ api'.metrics = {} /\ api'.validity = {}
      \/ /\ api'.shows = "row" /\ api'.validity = {}
         /\ \E p \in LinkedSummaries : api'.metrics = {[part |-> p, value |-> summary[p]]}
      \/ /\ api'.shows = "row" /\ api'.metrics = {}
         /\ \E w \in LinkedWindows : api'.validity = {[window |-> w, link |-> link[w]]}
  <2>1. CASE api' \in {NothingShown} \/ api' = [NothingShown EXCEPT !.shows = "bare"]
    BY <2>1 DEF NothingShown
  <2>2. CASE api' \in ShownMetrics
    BY <2>2 DEF ShownMetrics
  <2>3. CASE api' \in ShownValidity
    BY <2>3 DEF ShownValidity
  <2> QED
    BY <1>1, <2>1, <2>2, <2>3
<1>20. \A p \in LinkedSummaries :
          /\ p \in Parts /\ p[2] = "time_series" /\ summary[p] \in {"null", "full"}
          /\ \E w \in Windows : link[w][p[2]] >= p[1]
  <2> TAKE p \in LinkedSummaries
  <2>1. p \in Parts /\ p[2] = "time_series"
    BY DEF LinkedSummaries
  <2>2. PICK w \in Windows : link[w][p[2]] = p[1]
    BY DEF LinkedSummaries
  <2>3. p = <<p[1], p[2]>> /\ p[1] \in Refreshes /\ p[2] \in Scopes
    BY <2>1 DEF Parts
  <2>4. summary[p] # "absent"
    BY <2>2, <2>3 DEF LinkInv, Refreshes, None
  <2>5. link[w][p[2]] >= p[1]
    BY <2>2, <2>3 DEF Refreshes
  <2> QED
    BY <2>1, <2>4, <2>5 DEF TypeOK
<1>21. \A w \in LinkedWindows : /\ w \in Windows /\ link[w] \in [Scopes -> Refreshes]
                               /\ \A s \in Scopes : link[w][s] <= link[w][s]
  <2> TAKE w \in LinkedWindows
  <2>1. w \in Windows /\ \A s \in Scopes : link[w][s] # None
    BY DEF LinkedWindows
  <2>2. link[w] \in [Scopes -> Refreshes \cup {None}]
    BY <2>1 DEF TypeOK
  <2>3. \A s \in Scopes : link[w][s] \in Refreshes
    BY <2>1, <2>2
  <2>4. link[w] \in [Scopes -> Refreshes]
    BY <2>2, <2>3
  <2> QED
    BY <2>1, <2>3, <2>4 DEF Refreshes
<1>2. /\ Begun(2)' = Begun(2) /\ Whole(1)' = Whole(1)
      /\ UNCHANGED <<completed, summary, sliced, link, figures>>
  BY <1>1, TablesKept
<1>3. /\ Runs' = Runs /\ SeenType' = SeenType /\ RunsOf(1)' = RunsOf(1)
      /\ AnsweredRunIds' = AnsweredRunIds /\ \A p : RunOf(p)' = RunOf(p)
  BY <1>1, SettingKept
<1>4. \/ /\ setting.caller = "flow" /\ ids' = AnsweredRunIds /\ pc' = "validity"
         /\ quiet' = (Whole(1) /\ ~Begun(2))
      \/ setting.caller # "flow" /\ UNCHANGED <<ids, quiet>> /\ pc' = "audit"
  BY DEF ReadApi
<1>5. quiet' \in BOOLEAN
  <2>1. quiet \in BOOLEAN
    BY DEF TypeOK
  <2> QED
    BY <1>4, <2>1
<1>6. TypeOK'
  <2>1. ids' \subseteq Runs
    BY <1>4, RunTypes DEF TypeOK, AnsweredRunIds, Refreshes
  <2>2. /\ api'.shows \in {"nothing", "bare", "row"}
        /\ api'.metrics \subseteq [part: Parts, value: {"null", "full"}]
        /\ api'.validity \subseteq [window: Windows, link: [Scopes -> Refreshes \cup {None}]]
    BY <1>0, <1>20, <1>21
  <2> QED
    BY <1>1, <1>2, <1>3, <1>4, <1>5, <2>1, <2>2 DEF TypeOK, Retries
<1>7. ControlInv' /\ LinkInv'
  BY <1>1, <1>2, <1>3, <1>4 DEF ControlInv, LinkInv, Unread
<1>8. SeenInv'
  BY <1>1, <1>2, <1>3, <1>4 DEF SeenInv
<1>9. ApiInv'
  <2>1. MetricInv'
    BY <1>0, <1>2, <1>4, <1>20 DEF MetricInv
  <2>2. ValidityInv'
    BY <1>0, <1>2, <1>4, <1>21 DEF ValidityInv, Refreshes, None
  <2> QED
    BY <2>1, <2>2 DEF ApiInv
<1>10. IdsInv'
  BY <1>1, <1>3, <1>4 DEF IdsInv
<1>11. QuietInv'
  BY <1>2, <1>4 DEF QuietInv
<1> QED
  BY <1>6, <1>7, <1>8, <1>9, <1>10, <1>11

\* The audit takes the runs of all linked rows: those of the first refresh, as
\* long as no other one has written.
LEMMA AuditStep ==
  ASSUME ReadInv, AuditRunIds
  PROVE  ReadInv' /\ (quiet => pc' # "done")
<1> USE DEF ReadInv
<1>1. /\ pc = "audit" /\ ids' = RunsLinkedBy(link, Candidates(link))
      /\ UNCHANGED <<setting, dbVars, attempt, api, seen, quiet>>
      /\ \/ ids' = {} /\ outcome' = "FAIL_REFRESH" /\ pc' = "done"
         \/ ids' # {} /\ outcome' = outcome /\ pc' = "validity"
  BY DEF AuditRunIds, ValidityRows
<1>2. /\ Begun(2)' = Begun(2) /\ Whole(1)' = Whole(1)
      /\ UNCHANGED <<completed, summary, sliced, link, figures>>
  BY <1>1, TablesKept
<1>3. /\ Runs' = Runs /\ SeenType' = SeenType /\ RunsOf(1)' = RunsOf(1)
      /\ AnsweredRunIds' = AnsweredRunIds /\ \A p : RunOf(p)' = RunOf(p)
  BY <1>1, SettingKept
<1>4. link \in [Windows -> LinkRowType]
  BY DEF TypeOK, LinkRowType
<1>5. TypeOK'
  <2>1. ids' \subseteq Runs
    BY <1>1, <1>4, RunsLinkedType DEF Candidates
  <2> QED
    BY <1>1, <1>2, <1>3, <2>1 DEF TypeOK, Retries
<1>6. ControlInv' /\ LinkInv'
  BY <1>1, <1>2, <1>3 DEF ControlInv, LinkInv, Unread
<1>7. SeenInv' /\ ApiInv'
  BY <1>1, <1>2, <1>3 DEF SeenInv, ApiInv, MetricInv, ValidityInv
<1>8. setting.caller = "audit"
  BY <1>1 DEF ControlInv, TypeOK, Settings
<1>9. ASSUME ~Begun(2) PROVE ids' = RunsOf(1)
  <2>1. \A w \in Windows, s \in Scopes : link[w][s] = 1
    <3> SUFFICES ASSUME NEW w \in Windows, NEW s \in Scopes PROVE link[w][s] = 1
      OBVIOUS
    <3>1. link[w][s] \in Refreshes /\ summary[<<link[w][s], s>>] # "absent"
      BY <1>4, <1>8 DEF LinkInv, LinkRowType
    <3> QED
      BY <1>9, <3>1 DEF Begun, Refreshes
  <2>2. Candidates(link) = Windows
    BY <1>4, <2>1, LinkedScope DEF Candidates, Scopes, None
  <2>3. ASSUME NEW r PROVE r \in RunsLinkedBy(link, Windows) <=> r \in RunsOf(1)
    <3>1. \A w \in Windows : r \in LinkedRuns(link[w]) <=> \E s \in Scopes : r = RunOf(<<1, s>>)
      <4> TAKE w \in Windows
      <4>1. r \in LinkedRuns(link[w]) <=>
              \E s \in Scopes : link[w][s] # None /\ r = RunOf(<<link[w][s], s>>)
        BY LinkedRunsElement
      <4>2. \A s \in Scopes : link[w][s] # None /\ RunOf(<<link[w][s], s>>) = RunOf(<<1, s>>)
        BY <2>1 DEF None
      <4> QED
        BY <4>1, <4>2
    <3> QED
      BY <3>1, RunsOfElement, RunsLinkedByElement, EvidenceAssumption DEF EvidenceAssumption
  <2> QED
    BY <1>1, <2>2, <2>3
<1>10. IdsInv'
  BY <1>1, <1>2, <1>3, <1>8, <1>9 DEF IdsInv
<1>11. QuietInv'
  BY <1>1, <1>2 DEF QuietInv
<1>12. quiet => pc' # "done"
  BY <1>1, <1>9, RunTypes DEF QuietInv, Refreshes
<1> QED
  BY <1>5, <1>6, <1>7, <1>10, <1>11, <1>12

\* A read puts the rows of the moment into `seen' and leaves the rest.
LEMMA ReadKeeps ==
  ASSUME ReadInv, NEW from, NEW to, NEW rows, Read(from, to, rows)
  PROVE  /\ pc = from /\ pc' = to /\ seen' = rows
         /\ UNCHANGED <<setting, attempt, api, ids, outcome, quiet>>
         /\ UNCHANGED <<completed, summary, sliced, link, figures>>
         /\ Begun(2)' = Begun(2) /\ Whole(1)' = Whole(1)
         /\ CalculationRows' = CalculationRows /\ RunDetails' = RunDetails
         /\ Runs' = Runs /\ SeenType' = SeenType /\ RunsOf(1)' = RunsOf(1)
         /\ AnsweredRunIds' = AnsweredRunIds /\ \A p : RunOf(p)' = RunOf(p)
<1>1. UNCHANGED <<setting, dbVars>>
  BY DEF Read
<1>2. /\ pc = from /\ pc' = to /\ seen' = rows
      /\ UNCHANGED <<setting, attempt, api, ids, outcome, quiet>>
  BY DEF Read
<1> QED
  BY <1>1, <1>2, TablesKept, SettingKept

\* The validity rows: every link they show has its summary row.
LEMMA ReadValidityStep ==
  ASSUME ReadInv, ReadValidity
  PROVE  ReadInv'
<1> USE DEF ReadInv
<1>1. /\ pc = "validity" /\ pc' = "calculation" /\ seen' = WithValidity
      /\ UNCHANGED <<setting, attempt, api, ids, outcome, quiet>>
      /\ UNCHANGED <<completed, summary, sliced, link, figures>>
      /\ Begun(2)' = Begun(2) /\ Whole(1)' = Whole(1)
      /\ Runs' = Runs /\ SeenType' = SeenType /\ RunsOf(1)' = RunsOf(1)
      /\ AnsweredRunIds' = AnsweredRunIds /\ \A p : RunOf(p)' = RunOf(p)
  BY ReadKeeps DEF ReadValidity
<1>2. link \in [Windows -> LinkRowType]
  BY DEF TypeOK, LinkRowType
<1>3. /\ seen'.validity = link /\ seen'.calculation = seen.calculation
      /\ seen'.details = seen.details /\ seen'.figures \in {figures, seen.figures}
      /\ seen' \in SeenType
  BY <1>1, <1>2 DEF ControlInv, SeenType, TypeOK, WithValidity, ValidityRows
<1>4. TypeOK'
  BY <1>1 DEF TypeOK, Retries
<1>5. ControlInv'
  BY <1>1, <1>3 DEF ControlInv
<1>6. SeenInv' /\ LinkInv'
  <2>1. \A w \in Windows, s \in Scopes : link[w][s] <= link[w][s]
    BY DEF TypeOK, Refreshes, None
  <2>2. seen'.figures = "rewritten" => figures = "rewritten"
    BY <1>3 DEF SeenInv
  <2> QED
    BY <1>1, <1>3, <2>1, <2>2 DEF SeenInv, LinkInv
<1>7. ApiInv'
  BY <1>1, <1>3 DEF ApiInv, MetricInv, ValidityInv
<1>8. IdsInv' /\ QuietInv'
  BY <1>1, <1>3 DEF IdsInv, QuietInv
<1> QED
  BY <1>4, <1>5, <1>6, <1>7, <1>8

\* The calculation rows: all that the validity rows and the API answer showed.
LEMMA ReadCalculationStep ==
  ASSUME ReadInv, ReadCalculation
  PROVE  ReadInv'
<1> USE DEF ReadInv
<1>1. /\ pc = "calculation" /\ pc' = "details"
      /\ seen' = WithCalculation
      /\ UNCHANGED <<setting, attempt, api, ids, outcome, quiet>>
      /\ UNCHANGED <<completed, summary, sliced, link, figures>>
      /\ Begun(2)' = Begun(2) /\ Whole(1)' = Whole(1) /\ CalculationRows' = CalculationRows
      /\ Runs' = Runs /\ SeenType' = SeenType /\ RunsOf(1)' = RunsOf(1)
      /\ AnsweredRunIds' = AnsweredRunIds /\ \A p : RunOf(p)' = RunOf(p)
  BY ReadKeeps DEF ReadCalculation
<1>2. /\ CalculationRows \subseteq CalculationRowType
      /\ \A c \in CalculationRows :
            /\ c.run = RunOf(c.part)
            /\ c.completed <=> c.run \in completed
            /\ c.value = summary[c.part]
      /\ \A p \in Parts : summary[p] # "absent" => \E c \in CalculationRows : c.part = p
  BY CalculationRowsFacts
<1>3. /\ seen'.validity = seen.validity /\ seen'.calculation = CalculationRows
      /\ seen'.details = seen.details /\ seen'.figures \in {figures, seen.figures}
      /\ seen' \in SeenType
  BY <1>1, <1>2 DEF ControlInv, SeenType, TypeOK, WithCalculation
<1>4. TypeOK'
  BY <1>1 DEF TypeOK, Retries
<1>5. ControlInv' /\ LinkInv'
  BY <1>1, <1>3 DEF ControlInv, LinkInv
<1>6. SeenInv'
  <2>1. \A w \in Windows, s \in Scopes : seen.validity[w][s] # None =>
          \E c \in CalculationRows : c.part = <<seen.validity[w][s], s>>
    <3> TAKE w \in Windows, s \in Scopes
    <3>1. seen.validity[w][s] \in Refreshes \cup {None}
      BY DEF ControlInv, SeenType, LinkRowType
    <3>2. seen.validity[w][s] # None => <<seen.validity[w][s], s>> \in Parts
      BY <3>1, RunTypes
    <3> QED
      BY <1>2, <3>2 DEF SeenInv
  <2>2. \A c \in seen'.calculation :
          /\ c.run = RunOf(c.part)'
          /\ c.completed => c.run \in completed'
          /\ c.value = "full" => summary'[c.part] = "full"
    BY <1>1, <1>2, <1>3
  <2>3. seen'.figures = "rewritten" => figures = "rewritten"
    BY <1>3 DEF SeenInv
  <2> QED
    BY <1>1, <1>3, <2>1, <2>2, <2>3 DEF SeenInv
<1>7. ApiInv'
  <2>1. ASSUME NEW m \in api.metrics
        PROVE  \E c \in CalculationRows : c.part = m.part /\ (m.value = "full" => c.value = "full")
    BY <1>2 DEF ApiInv, MetricInv, TypeOK
  <2> QED
    BY <1>1, <1>3, <2>1 DEF ApiInv, MetricInv, ValidityInv
<1>8. IdsInv' /\ QuietInv'
  BY <1>1, <1>3 DEF IdsInv, QuietInv
<1> QED
  BY <1>4, <1>5, <1>6, <1>7, <1>8

\* The run master rows.
LEMMA ReadDetailsStep ==
  ASSUME ReadInv, ReadDetails
  PROVE  ReadInv'
<1> USE DEF ReadInv
<1>1. /\ pc = "details" /\ pc' = "slices"
      /\ seen' = [seen EXCEPT !.details = RunDetails]
      /\ UNCHANGED <<setting, attempt, api, ids, outcome, quiet>>
      /\ UNCHANGED <<completed, summary, sliced, link, figures>>
      /\ Begun(2)' = Begun(2) /\ Whole(1)' = Whole(1)
      /\ CalculationRows' = CalculationRows /\ RunDetails' = RunDetails
      /\ Runs' = Runs /\ SeenType' = SeenType /\ RunsOf(1)' = RunsOf(1)
      /\ AnsweredRunIds' = AnsweredRunIds /\ \A p : RunOf(p)' = RunOf(p)
  BY ReadKeeps DEF ReadDetails
<1>2. /\ RunDetails \subseteq DetailRowType
      /\ \A d \in RunDetails : d.completed => d.run \in completed
  BY RunDetailsFacts
<1>3. /\ seen'.validity = seen.validity /\ seen'.calculation = seen.calculation
      /\ seen'.details = RunDetails /\ seen'.figures = seen.figures /\ seen' \in SeenType
  BY <1>1, <1>2 DEF ControlInv, SeenType
<1>4. TypeOK'
  BY <1>1 DEF TypeOK, Retries
<1>5. ControlInv' /\ LinkInv'
  BY <1>1, <1>3 DEF ControlInv, LinkInv
<1>6. SeenInv' /\ ApiInv'
  <2>1. SeenInv'
    BY <1>1, <1>2, <1>3 DEF SeenInv
  <2>2. MetricInv'
    BY <1>1, <1>3 DEF ApiInv, MetricInv
  <2>3. ValidityInv'
    BY <1>1, <1>3 DEF ApiInv, ValidityInv
  <2> QED
    BY <2>1, <2>2, <2>3 DEF ApiInv
<1>7. IdsInv' /\ QuietInv'
  BY <1>1, <1>3 DEF IdsInv, QuietInv
<1> QED
  BY <1>4, <1>5, <1>6, <1>7

\* A failed query, a refusal and an acceptance end the call; the next attempt
\* begins without rows.
LEMMA EndStep ==
  ASSUME ReadInv, QueryFails \/ RetryEvidence \/ RefuseEvidence \/ AcceptEvidence
  PROVE  ReadInv'
<1> USE DEF ReadInv
<1>1. /\ UNCHANGED <<setting, dbVars, api, ids>>
      /\ pc \in {"audit", "validity", "calculation", "details", "slices"}
      /\ pc = "audit" => pc' = "done"
      /\ seen' = Unread \/ (seen' = seen /\ pc' = "done")
      /\ pc' = "done" \/ pc' = "validity"
      /\ attempt' \in 0..Retries
      /\ outcome' \in {"none", "accepted", "FAIL_REFRESH", "FAIL_CONTRACT", "FAIL_TECHNICAL"}
      /\ pc' = "done" <=> outcome' # "none"
  <2>1. CASE QueryFails
    BY <2>1 DEF QueryFails, TypeOK
  <2>2. CASE RetryEvidence
    <3>1. Retries \in Nat
      BY EvidenceAssumption DEF EvidenceAssumption, Retries
    <3> QED
      BY <2>2, <3>1 DEF RetryEvidence, TypeOK, ControlInv
  <2>3. CASE RefuseEvidence
    <3>1. Verdict(seen, ids) \in {"FAIL_REFRESH", "FAIL_CONTRACT", "accepted"}
      BY DEF Verdict
    <3> QED
      BY <2>3, <3>1 DEF RefuseEvidence, TypeOK
  <2>4. CASE AcceptEvidence
    BY <2>4 DEF AcceptEvidence, TypeOK
  <2> QED
    BY <2>1, <2>2, <2>3, <2>4
<1>2. /\ Begun(2)' = Begun(2) /\ Whole(1)' = Whole(1)
      /\ UNCHANGED <<completed, summary, sliced, link, figures>>
  BY <1>1, TablesKept
<1>3. /\ Runs' = Runs /\ SeenType' = SeenType /\ RunsOf(1)' = RunsOf(1)
      /\ AnsweredRunIds' = AnsweredRunIds /\ \A p : RunOf(p)' = RunOf(p)
  BY <1>1, SettingKept
<1>4. quiet' \in BOOLEAN /\ (quiet' => quiet \/ (Whole(1) /\ ~Begun(2)))
  <2>1. quiet \in BOOLEAN
    BY DEF TypeOK
  <2>2. quiet' = quiet \/ (setting.caller = "flow" /\ quiet' = (Whole(1) /\ ~Begun(2)))
    BY DEF QueryFails, RetryEvidence, RefuseEvidence, AcceptEvidence
  <2>3. CASE quiet' = quiet
    BY <2>1, <2>3
  <2>4. CASE quiet' = (Whole(1) /\ ~Begun(2))
    <3>1. (Whole(1) /\ ~Begun(2)) \in BOOLEAN
      OBVIOUS
    <3> QED
      BY <2>4, <3>1
  <2> QED
    BY <2>2, <2>3, <2>4
<1>5. Unread \in SeenType
  BY DEF Unread, NoLink, SeenType, LinkRowType, Figures
<1>6. /\ Unread.calculation = {} /\ Unread.details = {} /\ Unread.figures = "as_shown"
      /\ \A w \in Windows, s \in Scopes : Unread.validity[w][s] = None
  BY DEF Unread, NoLink
<1>7. TypeOK'
  BY <1>1, <1>2, <1>3, <1>4 DEF TypeOK, Retries
<1>8. ControlInv'
  BY <1>1, <1>3, <1>5 DEF ControlInv
<1>9. SeenInv'
  <2>1. \A w \in Windows, s \in Scopes : None <= link[w][s]
    BY DEF TypeOK, Refreshes, None
  <2>2. CASE seen' = seen
    BY <1>1, <1>2, <1>3, <2>2 DEF SeenInv
  <2>3. CASE seen' = Unread
    BY <1>1, <1>2, <1>3, <1>6, <2>1, <2>3 DEF SeenInv
  <2> QED
    BY <1>1, <2>2, <2>3
<1>10. LinkInv' /\ ApiInv'
  BY <1>1, <1>2, <1>6 DEF LinkInv, ApiInv, MetricInv, ValidityInv
<1>11. IdsInv'
  BY <1>1, <1>2, <1>3 DEF IdsInv
<1>12. QuietInv'
  BY <1>1, <1>2, <1>4 DEF QuietInv
<1> QED
  BY <1>7, <1>8, <1>9, <1>10, <1>11, <1>12

\* Before the call: an empty database, or an audited factor whose first refresh
\* is whole.
LEMMA ReadInvInit ==
  ASSUME Init
  PROVE  ReadInv
<1> DEFINE done == IF setting.caller = "audit" THEN {1} ELSE {}
<1>1. /\ setting \in Settings
      /\ completed = UNION {RunsOf(g) : g \in done}
      /\ summary = [p \in Parts |-> IF p[1] \in done THEN "full" ELSE "absent"]
      /\ sliced = done
      /\ link = [w \in Windows |-> [s \in Scopes |-> IF done = {} THEN None ELSE 1]]
      /\ pc = "api" /\ attempt = 0 /\ api = NothingShown /\ ids = {} /\ seen = Unread
      /\ outcome = "none" /\ quiet = (setting.caller = "audit") /\ figures = "as_shown"
  BY DEF Init
<1>2. /\ setting.caller = "audit" => completed = RunsOf(1)
      /\ setting.caller # "audit" => completed = {}
  BY <1>1
<1>3. \A w \in Windows, s \in Scopes : link[w][s] = IF setting.caller = "audit" THEN 1 ELSE None
  BY <1>1
<1>4. \A g \in Refreshes, s \in Scopes :
        summary[<<g, s>>] = IF setting.caller = "audit" /\ g = 1 THEN "full" ELSE "absent"
  BY <1>1, RunTypes
<1>5. TypeOK
  <2>1. completed \subseteq Runs
    BY <1>2, RunTypes DEF Refreshes
  <2>2. summary \in [Parts -> {"absent", "null", "full"}]
    BY <1>1
  <2>3. sliced \subseteq Refreshes
    BY <1>1 DEF Refreshes
  <2>4. link \in [Windows -> [Scopes -> Refreshes \cup {None}]]
    BY <1>1 DEF Refreshes
  <2>5. attempt \in 0..Retries
    BY <1>1, EvidenceAssumption DEF EvidenceAssumption, Retries
  <2>6. quiet \in BOOLEAN
    BY <1>1, Zenon
  <2> QED
    BY <1>1, <2>1, <2>2, <2>3, <2>4, <2>5, <2>6 DEF TypeOK, NothingShown, Figures
<1>6. Unread \in SeenType
  BY DEF Unread, NoLink, SeenType, LinkRowType, Figures
<1>7. /\ Unread.calculation = {} /\ Unread.details = {} /\ Unread.figures = "as_shown"
      /\ \A w \in Windows, s \in Scopes : Unread.validity[w][s] = None
  BY DEF Unread, NoLink
<1>8. ControlInv
  BY <1>1, <1>6 DEF ControlInv
<1>9. SeenInv
  BY <1>1, <1>3, <1>7 DEF SeenInv, None
<1>10. LinkInv
  BY <1>1, <1>3, <1>4, <1>7 DEF LinkInv, Refreshes, None
<1>11. ApiInv /\ IdsInv
  BY <1>1 DEF ApiInv, MetricInv, ValidityInv, NothingShown, IdsInv
<1>12. QuietInv
  <2> SUFFICES ASSUME setting.caller = "audit" PROVE Whole(1) /\ ~Begun(2)
    BY <1>1 DEF QuietInv
  <2>1. RunsOf(2) \cap RunsOf(1) = {}
    <3> SUFFICES ASSUME NEW r \in RunsOf(1), r \in RunsOf(2) PROVE FALSE
      OBVIOUS
    <3>1. PICK s \in Scopes : r = RunOf(<<1, s>>)
      BY RunsOfElement
    <3>2. PICK t \in Scopes : r = RunOf(<<2, t>>)
      BY RunsOfElement
    <3>3. RunOf(<<1, s>>) = RunOf(<<2, t>>)
      BY <3>1, <3>2
    <3> QED
      BY <3>3, RunTypes DEF Refreshes
  <2>2. \A w \in Windows : link[w] = [s \in Scopes |-> 1]
    BY <1>1
  <2>3. sliced = {1}
    BY <1>1
  <2>4. 1 \in Refreshes /\ 2 \in Refreshes /\ 2 # 1
    BY DEF Refreshes
  <2>5. Whole(1)
    BY <1>2, <1>4, <2>2, <2>3, <2>4 DEF Whole
  <2>6. ~Begun(2)
    BY <1>2, <1>4, <2>1, <2>3, <2>4 DEF Begun
  <2> QED
    BY <2>5, <2>6
<1> QED
  BY <1>5, <1>8, <1>9, <1>10, <1>11, <1>12 DEF ReadInv

\* Every step keeps what is known of the rows read.
LEMMA ReadInvNext ==
  ASSUME ReadInv, [Next]_vars
  PROVE  ReadInv'
<1>1. CASE UNCHANGED vars
  <2>1. UNCHANGED <<setting, dbVars>> /\ UNCHANGED <<pc, attempt, api, ids, seen, outcome, quiet>>
    BY <1>1 DEF vars
  <2>2. /\ Begun(2)' = Begun(2) /\ Whole(1)' = Whole(1)
        /\ CalculationRows' = CalculationRows /\ RunDetails' = RunDetails
        /\ UNCHANGED <<completed, summary, sliced, link, figures>>
    BY <2>1, TablesKept
  <2>3. /\ Runs' = Runs /\ SeenType' = SeenType /\ RunsOf(1)' = RunsOf(1)
        /\ AnsweredRunIds' = AnsweredRunIds /\ \A p : RunOf(p)' = RunOf(p)
    BY <2>1, SettingKept
  <2>4. TypeOK' /\ ControlInv'
    BY <2>1, <2>2, <2>3 DEF ReadInv, TypeOK, ControlInv, Unread, Retries
  <2>5. SeenInv' /\ LinkInv'
    BY <2>1, <2>2, <2>3 DEF ReadInv, SeenInv, LinkInv
  <2>6. ApiInv' /\ IdsInv' /\ QuietInv'
    BY <2>1, <2>2, <2>3 DEF ReadInv, ApiInv, MetricInv, ValidityInv, IdsInv, QuietInv
  <2> QED
    BY <2>4, <2>5, <2>6 DEF ReadInv
<1>2. CASE Backend
  BY <1>2, BackendStep
<1>3. CASE ReadApi
  BY <1>3, ReadApiStep
<1>4. CASE AuditRunIds
  BY <1>4, AuditStep
<1>5. CASE ReadValidity
  BY <1>5, ReadValidityStep
<1>6. CASE ReadCalculation
  BY <1>6, ReadCalculationStep
<1>7. CASE ReadDetails
  BY <1>7, ReadDetailsStep
<1>8. CASE QueryFails \/ RetryEvidence \/ RefuseEvidence \/ AcceptEvidence
  BY <1>8, EndStep
<1> QED
  BY <1>1, <1>2, <1>3, <1>4, <1>5, <1>6, <1>7, <1>8 DEF Next, Caller, Terminated

\* What was read of the tables stays true while the backend goes on writing,
\* for every set of windows and every number of retries.
THEOREM ReadInvariant == Spec => []ReadInv
<1>1. Init => ReadInv
  BY ReadInvInit
<1>2. ReadInv /\ [Next]_vars => ReadInv'
  BY ReadInvNext
<1> QED
  BY <1>1, <1>2, PTL DEF Spec

-----------------------------------------------------------------------------
(* The end of the call.                                                     *)

\* An outcome appears in one step and is the last.
LEMMA OutcomeStep ==
  ASSUME ReadInv, [Next]_vars, outcome' # "none"
  PROVE  UNCHANGED vars \/ AuditRunIds \/ QueryFails \/ RefuseEvidence \/ AcceptEvidence
<1>1. pc # "done" => outcome = "none"
  BY DEF ReadInv, ControlInv
<1>2. CASE Backend
  BY <1>1, <1>2 DEF Backend
<1>3. CASE ReadApi
  BY <1>1, <1>3 DEF ReadApi
<1>4. CASE ReadValidity \/ ReadCalculation \/ ReadDetails
  BY <1>1, <1>4 DEF ReadValidity, ReadCalculation, ReadDetails, Read
<1>5. CASE RetryEvidence
  BY <1>1, <1>5 DEF RetryEvidence
<1> QED
  BY <1>2, <1>3, <1>4, <1>5 DEF Next, Caller, Terminated

\* The checks of an accepting verdict all passed.
LEMMA AcceptingVerdict ==
  ASSUME NEW S, NEW I, Verdict(S, I) = "accepted"
  PROVE  LET E == ExpectedRuns(S.validity, I)
             M == MetricsOf(S.calculation, E)
         IN  /\ ~NotLinked(S.validity, I) /\ ~AmbiguousRuns(S.validity, I)
             /\ ~RunNotLinked(S.validity, I) /\ ~MasterRowMissing(S.details, E)
             /\ ~SummaryMissing(S.validity, M, I)
BY DEF Verdict

\* Rows of one refresh only, if no other one has written: their links are to
\* the first refresh, and the caller asks for its runs or for none.
LEMMA OnlyTheFirst ==
  ASSUME ReadInv, pc = "slices", ~Begun(2)
  PROVE  /\ \A w \in Windows, s \in Scopes : seen.validity[w][s] \in {None, 1}
         /\ \A w \in Windows : LinkedRuns(seen.validity[w]) \subseteq RunsOf(1)
         /\ ids = RunsOf(1) \/ (ids = {} /\ setting.answer = "none")
         /\ setting.answer # "none" => ids = RunsOf(1)
<1> USE DEF ReadInv
<1>1. \A w \in Windows, s \in Scopes : seen.validity[w][s] \in {None, 1}
  <2> TAKE w \in Windows, s \in Scopes
  <2>1. seen.validity[w][s] \in Refreshes \cup {None}
    BY DEF ControlInv, SeenType, LinkRowType
  <2>2. seen.validity[w][s] # 2
    BY DEF SeenInv, Begun, None
  <2> QED
    BY <2>1, <2>2 DEF Refreshes
<1>2. ASSUME NEW w \in Windows, NEW r \in LinkedRuns(seen.validity[w]) PROVE r \in RunsOf(1)
  <2>1. PICK s \in Scopes : seen.validity[w][s] # None /\ r = RunOf(<<seen.validity[w][s], s>>)
    BY LinkedRunsElement
  <2>2. seen.validity[w][s] = 1
    BY <1>1, <2>1
  <2> QED
    BY <2>1, <2>2, RunsOfElement
<1>3. setting.caller = "flow" \/ (setting.caller = "audit" /\ setting.answer = "per_run")
  BY DEF TypeOK, Settings
<1>4. setting.caller = "flow" => ids = AnsweredRunIds
  BY DEF IdsInv
<1>5. setting.caller = "audit" => ids = RunsOf(1)
  BY DEF IdsInv
<1> QED
  BY <1>1, <1>2, <1>3, <1>4, <1>5 DEF AnsweredRunIds

\* The calculation rows the verdict looks at hold what the validity rows link
\* and what the API showed, unless that has changed since, and every expected run has its context.
LEMMA NoContradiction ==
  ASSUME ReadInv, pc = "slices", ~Begun(2), ~AnswerOutdated,
         ~(setting.split /\ setting.answer = "per_refresh"),
         NEW E, E = ExpectedRuns(seen.validity, ids),
         NEW M, M = MetricsOf(seen.calculation, E)
  PROVE  /\ ~ContextMissing(E, ids)
         /\ ~SummaryMissing(seen.validity, M, ids)
         /\ ~ApiIsBare /\ ~MetricDiffers(seen, M) /\ ~ValidityDiffers(seen, ids)
<1> USE DEF ReadInv
<1>1. /\ \A w \in Windows, s \in Scopes : seen.validity[w][s] \in {None, 1}
      /\ ids = RunsOf(1) \/ (ids = {} /\ setting.answer = "none")
      /\ setting.answer # "none" => ids = RunsOf(1)
  BY OnlyTheFirst
<1>2. Selected(seen.validity, ids) \subseteq Windows /\ Candidates(seen.validity) \subseteq Windows
  BY DEF Selected, Candidates
<1>3. ~ContextMissing(E, ids)
  <2>1. CASE setting.answer # "per_refresh"
    BY <1>1, <2>1 DEF ContextMissing, RunContexts, ExpectedRuns
  <2>2. CASE setting.answer = "per_refresh"
    <3>1. ids = RunsOf(1) /\ ~setting.split
      BY <1>1, <2>2
    <3>2. RunsOf(1) = {<<1, "both">>}
      <4>1. \A s \in Scopes : RunOf(<<1, s>>) = <<1, "both">>
        BY <3>1 DEF RunOf
      <4>2. \E s : s \in Scopes
        BY DEF Scopes
      <4> QED
        BY <4>1, <4>2, RunsOfElement
    <3>3. FirstOnly(ids) = ids
      BY <3>1, <3>2 DEF FirstOnly
    <3> QED
      BY <2>2, <3>1, <3>3, RunTypes DEF ContextMissing, RunContexts, ExpectedRuns, Refreshes
  <2> QED
    BY <2>1, <2>2
<1>4. ASSUME NEW w \in Windows, NEW s \in Scopes, seen.validity[w][s] # None
      PROVE  RunOf(<<seen.validity[w][s], s>>) \in E
  <2>1. CASE ids = RunsOf(1)
    <3>1. seen.validity[w][s] = 1 /\ E = RunsOf(1)
      BY <1>1, <1>4, <2>1, RunTypes DEF ExpectedRuns, Refreshes
    <3> QED
      BY <3>1, RunTypes DEF Refreshes
  <2>2. CASE ids = {}
    <3>1. seen.validity[w] \in LinkRowType
      BY DEF ControlInv, SeenType
    <3>2. w \in Candidates(seen.validity)
      BY <1>4, <3>1, LinkedScope DEF Candidates
    <3>3. E = RunsLinkedBy(seen.validity, Candidates(seen.validity))
      BY <2>2 DEF ExpectedRuns, Selected
    <3>4. RunOf(<<seen.validity[w][s], s>>) \in LinkedRuns(seen.validity[w])
      BY <1>4, LinkedRunsElement
    <3> QED
      BY <3>2, <3>3, <3>4, RunsLinkedByElement
  <2> QED
    BY <1>1, <2>1, <2>2
<1>5. ~SummaryMissing(seen.validity, M, ids)
  <2> SUFFICES ASSUME NEW w \in Selected(seen.validity, ids), NEW s \in Scopes,
                      seen.validity[w][s] # None
               PROVE  \E c \in M : c.part = <<seen.validity[w][s], s>>
    BY DEF SummaryMissing
  <2>1. PICK c \in seen.calculation : c.part = <<seen.validity[w][s], s>>
    BY <1>2 DEF SeenInv
  <2>2. c.run \in E
    BY <1>2, <1>4, <2>1 DEF SeenInv
  <2> QED
    BY <2>1, <2>2 DEF MetricsOf
<1>6. ~ApiIsBare /\ seen.figures # "rewritten"
  BY DEF AnswerOutdated, SeenInv
<1>7. ~MetricDiffers(seen, M)
  <2> SUFFICES ASSUME NEW m \in api.metrics
               PROVE  \E c \in M : c.part = m.part /\ c.value = m.value
    BY <1>6 DEF MetricDiffers, MetricFieldsDiffer
  <2> DEFINE p == m.part
  <2>1. p \in Parts /\ p[2] \in Scopes /\ p = <<p[1], p[2]>> /\ p[1] \in Refreshes
    BY DEF TypeOK, Parts
  <2>2. p[1] = 1
    BY <2>1 DEF ApiInv, MetricInv, Begun, Refreshes
  <2>3. PICK w \in Windows : seen.validity[w][p[2]] >= p[1]
    BY DEF ApiInv, MetricInv
  <2>4. seen.validity[w][p[2]] = 1
    BY <1>1, <2>1, <2>2, <2>3 DEF None
  <2>5. PICK c \in seen.calculation : c.part = p /\ (m.value = "full" => c.value = "full")
    BY DEF ApiInv, MetricInv
  <2>6. c.run = RunOf(<<seen.validity[w][p[2]], p[2]>>)
    BY <2>1, <2>2, <2>4, <2>5 DEF SeenInv
  <2>7. c.run \in E
    BY <1>4, <2>1, <2>4, <2>6 DEF None
  <2>8. c.value = m.value
    <3>1. summary[p] = m.value
      BY DEF AnswerOutdated
    <3>2. m.value \in {"null", "full"} /\ c.value \in {"null", "full"}
      BY DEF TypeOK, ControlInv, SeenType, CalculationRowType
    <3>3. c.value = "full" => summary[p] = "full"
      BY <2>5 DEF SeenInv
    <3> QED
      BY <2>5, <3>1, <3>2, <3>3
  <2> QED
    BY <2>5, <2>7, <2>8 DEF MetricsOf
<1>8. ~ValidityDiffers(seen, ids)
  <2> SUFFICES ASSUME NEW v \in api.validity
               PROVE  /\ seen.validity[v.window] = v.link
                      /\ v.window \in Selected(seen.validity, ids)
    BY <1>6 DEF ValidityDiffers, ValidityFieldsDiffer
  <2>1. v.window \in Windows /\ v.link \in LinkRowType /\ link[v.window] = v.link
    BY DEF TypeOK, LinkRowType, AnswerOutdated
  <2>2. seen.validity[v.window] \in LinkRowType
    BY <2>1 DEF ControlInv, SeenType
  <2>3. ASSUME NEW s \in Scopes PROVE seen.validity[v.window][s] = v.link[s]
    <3>1. v.link[s] <= seen.validity[v.window][s]
      BY DEF ApiInv, ValidityInv
    <3>2. seen.validity[v.window][s] <= v.link[s]
      BY <2>1 DEF SeenInv
    <3>3. v.link[s] \in Int /\ seen.validity[v.window][s] \in Int
      BY <2>1, <2>2 DEF LinkRowType, Refreshes, None
    <3> QED
      BY <3>1, <3>2, <3>3
  <2>4. seen.validity[v.window] = v.link
    BY <2>1, <2>2, <2>3 DEF LinkRowType
  <2>5. "time_series" \in Scopes
    BY DEF Scopes
  <2>6. seen.validity[v.window]["time_series"] # None
    BY <2>4, <2>5 DEF ApiInv, ValidityInv
  <2>7. v.window \in Candidates(seen.validity)
    BY <2>1, <2>2, <2>5, <2>6, LinkedScope DEF Candidates
  <2>8. RunOf(<<1, "time_series">>) \in LinkedRuns(seen.validity[v.window])
    BY <1>1, <2>1, <2>5, <2>6, LinkedRunsElement
  <2>9. RunOf(<<1, "time_series">>) \in RunsOf(1)
    BY <2>5, RunTypes DEF Refreshes
  <2> QED
    BY <1>1, <2>4, <2>7, <2>8, <2>9 DEF Selected
<1> QED
  BY <1>3, <1>5, <1>6, <1>7, <1>8

-----------------------------------------------------------------------------
(* Evidence from reads at different times is true.                          *)

\* The accepting step: the run master rows prove the runs completed, and the
\* coverage check that the linked summary rows are populated.
LEMMA AcceptedIsTrueNext ==
  ASSUME ReadInv, AcceptedIsTrue, [Next]_vars
  PROVE  AcceptedIsTrue'
<1> USE DEF ReadInv
<1> DEFINE Claim == /\ ExpectedRuns(seen.validity, ids) \subseteq completed
                    /\ \A w \in Selected(seen.validity, ids), s \in Scopes :
                          seen.validity[w][s] # None =>
                              summary[<<seen.validity[w][s], s>>] = "full"
<1>1. AcceptedIsTrue <=> (outcome = "accepted" => Claim)
  BY DEF AcceptedIsTrue
<1>2. AcceptedIsTrue' <=> (outcome' = "accepted" => Claim')
  BY DEF AcceptedIsTrue
<1>3. ASSUME UNCHANGED <<setting, dbVars, ids, seen>> PROVE Claim' <=> Claim
  BY <1>3 DEF dbVars, ExpectedRuns, Selected, Candidates, RunsLinkedBy, LinkedRuns, RunOf
<1>4. CASE UNCHANGED vars
  BY <1>1, <1>2, <1>3, <1>4 DEF vars
<1>5. CASE AuditRunIds \/ QueryFails \/ RefuseEvidence
  <2>1. outcome' # "accepted"
    BY <1>5 DEF AuditRunIds, QueryFails, RefuseEvidence, ControlInv
  <2> QED
    BY <1>2, <2>1
<1>6. CASE AcceptEvidence /\ outcome' = "accepted"
  <2> DEFINE E == ExpectedRuns(seen.validity, ids)
             M == MetricsOf(seen.calculation, E)
  <2>1. /\ pc = "slices" /\ Verdict(seen, ids) = "accepted"
        /\ Covered(seen, SliceRows(SliceRuns), ids)
        /\ UNCHANGED <<setting, dbVars, ids, seen>>
    BY <1>6 DEF AcceptEvidence
  <2>2. ~MasterRowMissing(seen.details, E) /\ ~SummaryMissing(seen.validity, M, ids)
    BY <2>1, AcceptingVerdict
  <2>3. ASSUME NEW r \in E PROVE r \in completed
    <3> DEFINE d == [run |-> r, completed |-> TRUE]
    <3>1. d \in seen.details
      BY <2>2 DEF MasterRowMissing
    <3>2. d.completed /\ d.run = r
      BY Zenon
    <3> QED
      BY <3>1, <3>2 DEF SeenInv
  <2>4. ASSUME NEW w \in Selected(seen.validity, ids), NEW s \in Scopes, seen.validity[w][s] # None
        PROVE  summary[<<seen.validity[w][s], s>>] = "full"
    <3>1. PICK c \in M : c.part = <<seen.validity[w][s], s>>
      BY <2>2, <2>4 DEF SummaryMissing
    <3>2. s \in LinkedScopes(seen.validity, ids)
      BY <2>4 DEF LinkedScopes
    <3>3. c.part[2] = s
      BY <3>1
    <3>4. c.value = "full"
      BY <2>1, <3>1, <3>2, <3>3 DEF Covered
    <3> QED
      BY <3>1, <3>4 DEF SeenInv, MetricsOf
  <2>5. Claim
    BY <2>3, <2>4
  <2> QED
    BY <1>2, <1>3, <2>1, <2>5
<1>7. CASE outcome' = "none"
  BY <1>2, <1>7
<1> QED
  BY <1>2, <1>4, <1>5, <1>6, <1>7, OutcomeStep

\* Evidence put together from four reads at different times is true of the
\* database (AcceptedIsTrue), for every set of windows, every number of retries
\* and every interleaving of the backend's writes with the queries.
THEOREM EvidenceIsTrue == Spec => []AcceptedIsTrue
<1>1. Init => AcceptedIsTrue
  BY DEF Init, AcceptedIsTrue
<1>2. ReadInv /\ AcceptedIsTrue /\ [Next]_vars => AcceptedIsTrue'
  BY AcceptedIsTrueNext
<1> QED
  BY <1>1, <1>2, ReadInvariant, PTL DEF Spec

-----------------------------------------------------------------------------
(* Accepted evidence is of one refresh.                                     *)

\* A row all of whose scopes are linked to one refresh refers to its runs.
LEMMA RowOfOneRefresh ==
  ASSUME NEW row, NEW g \in Refreshes, \A s \in Scopes : row[s] = g
  PROVE  LinkedRuns(row) = RunsOf(g)
<1> SUFFICES ASSUME NEW r PROVE r \in LinkedRuns(row) <=> r \in RunsOf(g)
  OBVIOUS
<1>1. g # None
  BY DEF Refreshes, None
<1>2. r \in LinkedRuns(row) <=> \E s \in Scopes : row[s] # None /\ r = RunOf(<<row[s], s>>)
  BY LinkedRunsElement
<1>3. \A s \in Scopes : row[s] # None /\ RunOf(<<row[s], s>>) = RunOf(<<g, s>>)
  BY <1>1
<1>4. r \in RunsOf(g) <=> \E s \in Scopes : r = RunOf(<<g, s>>)
  BY RunsOfElement
<1> QED
  BY <1>2, <1>3, <1>4

\* Only one batch of runs is linked: all rows refer to the same runs.
LEMMA OneBatch ==
  ASSUME NEW V, NEW w \in Candidates(V),
         Cardinality({LinkedRuns(V[v]) : v \in Candidates(V)}) = 1
  PROVE  RunsLinkedBy(V, Candidates(V)) = LinkedRuns(V[w])
<1> DEFINE B == {LinkedRuns(V[v]) : v \in Candidates(V)}
<1>1. IsFiniteSet(Candidates(V))
  BY EvidenceAssumption, FS_Subset DEF EvidenceAssumption, Candidates
<1>2. IsFiniteSet(B)
  <2> DEFINE f == [v \in Candidates(V) |-> LinkedRuns(V[v])]
  <2>1. f \in Surjection(Candidates(V), B)
    BY DEF Surjection
  <2> QED
    BY <1>1, <2>1, FS_Surjection
<1>3. \E x : B = {x}
  BY <1>2, FS_Singleton
<1>4. \A v \in Candidates(V) : LinkedRuns(V[v]) = LinkedRuns(V[w])
  BY <1>3
<1>5. \A r : r \in RunsLinkedBy(V, Candidates(V)) <=> \E v \in Candidates(V) : r \in LinkedRuns(V[v])
  BY RunsLinkedByElement
<1> QED
  BY <1>4, <1>5

\* The accepting step: with named runs the two inclusions that were checked give
\* equality; without them all rows are one batch, and each is of one refresh.
LEMMA AcceptedIsOneRefreshNext ==
  ASSUME ReadInv, AcceptedIsOneRefresh, [Next]_vars
  PROVE  AcceptedIsOneRefresh'
<1> USE DEF ReadInv
<1> DEFINE Asked == setting.caller = "flow" /\ (setting.answer # "none" \/ setting.atOnce)
           Claim == \E g \in Refreshes :
                        /\ RunsLinkedBy(seen.validity, Selected(seen.validity, ids)) = RunsOf(g)
                        /\ setting.answer # "none" => g = 1
<1>1. AcceptedIsOneRefresh <=> (outcome = "accepted" /\ Asked => Claim)
  BY DEF AcceptedIsOneRefresh
<1>2. AcceptedIsOneRefresh' <=> (outcome' = "accepted" /\ Asked' => Claim')
  BY DEF AcceptedIsOneRefresh
<1>3. ASSUME UNCHANGED <<setting, ids, seen>> PROVE (Claim' <=> Claim) /\ (Asked' <=> Asked)
  BY <1>3 DEF Selected, Candidates, RunsLinkedBy, LinkedRuns, RunsOf, RunOf
<1>4. CASE UNCHANGED vars
  BY <1>1, <1>2, <1>3, <1>4 DEF vars
<1>5. CASE AuditRunIds \/ QueryFails \/ RefuseEvidence
  <2>1. outcome' # "accepted"
    BY <1>5 DEF AuditRunIds, QueryFails, RefuseEvidence, ControlInv
  <2> QED
    BY <1>2, <2>1
<1>6. CASE AcceptEvidence
  <2> DEFINE V == seen.validity
  <2>1. /\ pc = "slices" /\ Verdict(seen, ids) = "accepted"
        /\ UNCHANGED <<setting, ids, seen>>
    BY <1>6 DEF AcceptEvidence
  <2>2. ~NotLinked(V, ids) /\ ~AmbiguousRuns(V, ids) /\ ~RunNotLinked(V, ids)
    BY <2>1, AcceptingVerdict
  <2> SUFFICES ASSUME Asked PROVE Claim
    BY <1>2, <1>3, <2>1
  <2>3. ids = AnsweredRunIds
    BY <2>1 DEF IdsInv
  <2>4. CASE setting.answer # "none"
    <3>1. ids = RunsOf(1) /\ ids # {}
      BY <2>3, <2>4, RunTypes DEF AnsweredRunIds, Refreshes
    <3>2. RunsLinkedBy(V, Selected(V, ids)) = RunsOf(1)
      BY <2>2, <3>1 DEF AmbiguousRuns, RunNotLinked
    <3> QED
      BY <3>2 DEF Refreshes
  <2>5. CASE setting.answer = "none"
    <3>1. ids = {} /\ setting.atOnce
      BY <2>3, <2>5 DEF AnsweredRunIds
    <3>2. Selected(V, ids) = Candidates(V)
      BY <3>1 DEF Selected
    <3>3. PICK w : w \in Candidates(V)
      BY <2>2, <3>2 DEF NotLinked
    <3>4. w \in Windows /\ V[w] # NoLink
      BY <3>3 DEF Candidates
    <3>5. V[w] \in LinkRowType
      BY <3>4 DEF ControlInv, SeenType
    <3>6. PICK s \in Scopes : V[w][s] # None
      BY <3>4, <3>5, LinkedScope
    <3>7. V[w][s] \in Refreshes /\ \A t \in Scopes : V[w][t] = V[w][s]
      BY <3>1, <3>4, <3>5, <3>6 DEF LinkInv, LinkRowType
    <3>8. LinkedRuns(V[w]) = RunsOf(V[w][s])
      BY <3>7, RowOfOneRefresh
    <3>9. Cardinality({LinkedRuns(V[v]) : v \in Candidates(V)}) = 1
      BY <2>2, <3>1 DEF AmbiguousRuns
    <3>10. RunsLinkedBy(V, Candidates(V)) = LinkedRuns(V[w])
      BY <3>3, <3>9, OneBatch
    <3> QED
      BY <2>5, <3>2, <3>7, <3>8, <3>10
  <2> QED
    BY <2>4, <2>5
<1>7. CASE outcome' = "none"
  BY <1>2, <1>7
<1> QED
  BY <1>4, <1>5, <1>6, <1>7, OutcomeStep

\* The rows of accepted evidence are of one refresh, the one the answer named
\* (AcceptedIsOneRefresh), although later refreshes relink rows between the
\* reads.
THEOREM EvidenceIsOfOneRefresh == Spec => []AcceptedIsOneRefresh
<1>1. Init => AcceptedIsOneRefresh
  BY DEF Init, AcceptedIsOneRefresh
<1>2. ReadInv /\ AcceptedIsOneRefresh /\ [Next]_vars => AcceptedIsOneRefresh'
  BY AcceptedIsOneRefreshNext
<1> QED
  BY <1>1, <1>2, ReadInvariant, PTL DEF Spec

-----------------------------------------------------------------------------
(* Lateness is no contradiction, and a whole refresh is accepted.           *)

\* Candidate rows that all refer to the same runs are one batch.
LEMMA SameRunsOneBatch ==
  ASSUME NEW V, NEW R, Candidates(V) # {}, \A w \in Candidates(V) : LinkedRuns(V[w]) = R
  PROVE  Cardinality({LinkedRuns(V[w]) : w \in Candidates(V)}) = 1
<1>1. {LinkedRuns(V[w]) : w \in Candidates(V)} = {R}
  OBVIOUS
<1> QED
  BY <1>1, FS_Singleton

\* The refusing step: while only the first refresh wrote, nothing contradicts it.
LEMMA LatenessNext ==
  ASSUME ReadInv, LatenessIsNoContradiction, [Next]_vars
  PROVE  LatenessIsNoContradiction'
<1> USE DEF ReadInv
<1> DEFINE Reason == \/ AnswerOutdated
                     \/ setting.split /\ setting.answer = "per_refresh"
                     \/ setting.split /\ setting.answer = "none" /\ ~setting.atOnce
<1>1. LatenessIsNoContradiction <=> (outcome = "FAIL_CONTRACT" => Begun(2) \/ Reason)
  BY DEF LatenessIsNoContradiction
<1>2. LatenessIsNoContradiction' <=> (outcome' = "FAIL_CONTRACT" => Begun(2)' \/ Reason')
  BY DEF LatenessIsNoContradiction
<1>3. ASSUME UNCHANGED <<setting, dbVars, api>>
      PROVE  (Begun(2)' <=> Begun(2)) /\ (Reason' <=> Reason)
  BY <1>3, TablesKept DEF AnswerOutdated, ApiIsBare
<1>4. CASE UNCHANGED vars
  BY <1>1, <1>2, <1>3, <1>4 DEF vars
<1>5. CASE AuditRunIds \/ QueryFails \/ AcceptEvidence
  <2>1. outcome' # "FAIL_CONTRACT"
    BY <1>5 DEF AuditRunIds, QueryFails, AcceptEvidence, ControlInv
  <2> QED
    BY <1>2, <2>1
<1>6. CASE RefuseEvidence
  <2> DEFINE V == seen.validity
             E == ExpectedRuns(V, ids)
             M == MetricsOf(seen.calculation, E)
  <2>1. /\ pc = "slices" /\ outcome' = Verdict(seen, ids) /\ UNCHANGED <<setting, dbVars, api>>
    BY <1>6 DEF RefuseEvidence
  <2> SUFFICES ASSUME Verdict(seen, ids) = "FAIL_CONTRACT", ~Begun(2), ~Reason PROVE FALSE
    BY <1>2, <1>3, <2>1
  <2>2. /\ ~ContextMissing(E, ids) /\ ~SummaryMissing(V, M, ids)
        /\ ~ApiIsBare /\ ~MetricDiffers(seen, M) /\ ~ValidityDiffers(seen, ids)
    BY <2>1, NoContradiction
  <2>3. ~NotLinked(V, ids) /\ AmbiguousRuns(V, ids)
    BY <2>2 DEF Verdict
  <2>4. /\ \A w \in Windows, s \in Scopes : V[w][s] \in {None, 1}
        /\ \A w \in Windows : LinkedRuns(V[w]) \subseteq RunsOf(1)
        /\ ids = RunsOf(1) \/ (ids = {} /\ setting.answer = "none")
    BY <2>1, OnlyTheFirst
  <2>5. CASE ids = RunsOf(1)
    <3>1. RunsLinkedBy(V, Selected(V, ids)) \subseteq RunsOf(1)
      BY <2>4 DEF RunsLinkedBy, Selected, Candidates
    <3> QED
      BY <2>3, <2>5, <3>1, RunTypes DEF AmbiguousRuns, Refreshes
  <2>6. CASE ids = {} /\ setting.answer = "none"
    <3>1. ~setting.split \/ setting.atOnce
      BY <2>6
    <3>2. Candidates(V) # {}
      BY <2>3, <2>6 DEF NotLinked, Selected
    <3>3. ASSUME NEW w \in Candidates(V) PROVE LinkedRuns(V[w]) = RunsOf(1)
      <4>1. w \in Windows /\ V[w] # NoLink
        BY <3>3 DEF Candidates
      <4>2. V[w] \in LinkRowType
        BY <4>1 DEF ControlInv, SeenType
      <4>3. PICK s \in Scopes : V[w][s] # None
        BY <4>1, <4>2, LinkedScope
      <4>4. V[w][s] = 1
        BY <2>4, <4>1, <4>3
      <4>5. CASE setting.atOnce
        <5>1. \A t \in Scopes : V[w][t] = 1
          BY <4>1, <4>4, <4>5 DEF LinkInv
        <5> QED
          BY <5>1, RowOfOneRefresh DEF Refreshes
      <4>6. CASE ~setting.split
        <5>1. \A t \in Scopes : RunOf(<<1, t>>) = RunOf(<<1, s>>)
          BY <4>6 DEF RunOf
        <5>2. RunOf(<<1, s>>) \in LinkedRuns(V[w])
          BY <4>3, <4>4, LinkedRunsElement
        <5>3. RunsOf(1) \subseteq LinkedRuns(V[w])
          BY <5>1, <5>2, RunsOfElement
        <5> QED
          BY <2>4, <4>1, <5>3
      <4> QED
        BY <3>1, <4>5, <4>6
    <3>4. Cardinality({LinkedRuns(V[w]) : w \in Candidates(V)}) = 1
      BY <3>2, <3>3, SameRunsOneBatch
    <3> QED
      BY <2>3, <2>6, <3>4 DEF AmbiguousRuns
  <2> QED
    BY <2>4, <2>5, <2>6
<1>7. CASE outcome' = "none"
  BY <1>2, <1>7
<1> QED
  BY <1>4, <1>5, <1>6, <1>7, OutcomeStep

\* Rows that become visible late never end in FAIL_CONTRACT, which is not
\* retried, unless another refresh wrote too, the row shown by the detail API has
\* changed since, or the answer does not name the two runs
\* (LatenessIsNoContradiction).
THEOREM LatenessIsWaitedFor == Spec => []LatenessIsNoContradiction
<1>1. Init => LatenessIsNoContradiction
  BY DEF Init, LatenessIsNoContradiction
<1>2. ReadInv /\ LatenessIsNoContradiction /\ [Next]_vars => LatenessIsNoContradiction'
  BY LatenessNext
<1> QED
  BY <1>1, <1>2, ReadInvariant, PTL DEF Spec

\* What the queries return of a whole first refresh passes every check.
LEMMA WholePasses ==
  ASSUME ReadInv, pc = "slices", quiet, ~AnswerOutdated, ~(setting.answer = "per_refresh" /\ setting.split)
  PROVE  /\ Verdict(seen, ids) = "accepted"
         /\ Covered(seen, SliceRows(SliceRuns), ids)
<1> USE DEF ReadInv
<1> DEFINE V == seen.validity
           E == ExpectedRuns(V, ids)
           M == MetricsOf(seen.calculation, E)
<1>1. /\ Whole(1) /\ ~Begun(2) /\ V = link
      /\ seen.calculation = CalculationRows /\ seen.details = RunDetails
  BY DEF QuietInv
<1>2. \A w \in Windows, s \in Scopes : V[w][s] = 1
  BY <1>1 DEF Whole
<1>3. \A w \in Windows : LinkedRuns(V[w]) = RunsOf(1)
  BY <1>2, RowOfOneRefresh DEF Refreshes
<1>4. ids = RunsOf(1) \/ ids = {}
  BY <1>1, OnlyTheFirst
<1>5. Candidates(V) = Windows /\ Windows # {}
  <2>1. \A w \in Windows : V[w] \in LinkRowType
    BY DEF ControlInv, SeenType
  <2>2. \A w \in Windows : V[w] # NoLink
    BY <1>2, <2>1, LinkedScope DEF Scopes, None
  <2> QED
    BY <2>2, EvidenceAssumption DEF Candidates, EvidenceAssumption
<1>6. RunsOf(1) # {}
  BY RunTypes DEF Refreshes
<1>7. Selected(V, ids) = Windows
  BY <1>3, <1>4, <1>5, <1>6 DEF Selected
<1>8. RunsLinkedBy(V, Windows) = RunsOf(1)
  <2>1. \A r : r \in RunsLinkedBy(V, Windows) <=> \E w \in Windows : r \in LinkedRuns(V[w])
    BY RunsLinkedByElement
  <2> QED
    BY <1>3, <1>5, <2>1
<1>9. E = RunsOf(1)
  BY <1>4, <1>7, <1>8 DEF ExpectedRuns
<1>10. ~NotLinked(V, ids) /\ ~RunNotLinked(V, ids)
  BY <1>4, <1>5, <1>7, <1>8 DEF NotLinked, RunNotLinked
<1>11. ~AmbiguousRuns(V, ids)
  <2>1. Cardinality({LinkedRuns(V[w]) : w \in Candidates(V)}) = 1
    BY <1>3, <1>5, SameRunsOneBatch
  <2> QED
    BY <1>4, <1>7, <1>8, <2>1 DEF AmbiguousRuns
<1>12. /\ \A c \in CalculationRows :
            /\ c.run = RunOf(c.part)
            /\ c.completed <=> c.run \in completed
            /\ c.value = summary[c.part]
            /\ c.part \in Parts
       /\ \A p \in Parts : summary[p] # "absent" => \E c \in CalculationRows : c.part = p
  BY CalculationRowsFacts DEF CalculationRowType
<1>13. \A c \in M : c \in CalculationRows /\ c.run \in RunsOf(1)
  BY <1>1, <1>9 DEF MetricsOf
<1>14. \A s \in Scopes : <<1, s>> \in Parts /\ summary[<<1, s>>] = "full"
  BY <1>1, RunTypes DEF Whole, Refreshes
<1>15. ASSUME NEW s \in Scopes
       PROVE  \E c \in M : c.part = <<1, s>> /\ c.run = RunOf(<<1, s>>)
  <2>1. PICK c \in CalculationRows : c.part = <<1, s>>
    BY <1>12, <1>14
  <2>2. c.run = RunOf(<<1, s>>) /\ c.run \in RunsOf(1)
    BY <1>12, <2>1, RunTypes DEF Refreshes
  <2> QED
    BY <1>1, <1>9, <2>1, <2>2 DEF MetricsOf
<1>16. \A c \in M : c.value = "full" /\ c.completed
  <2> TAKE c \in M
  <2>1. PICK s \in Scopes : c.run = RunOf(<<1, s>>)
    BY <1>13, RunsOfElement
  <2>2. c.part \in Parts /\ c.part = <<c.part[1], c.part[2]>> /\ c.part[1] \in Refreshes
        /\ c.part[2] \in Scopes
    BY <1>12, <1>13 DEF Parts
  <2>3. RunOf(<<c.part[1], c.part[2]>>) = RunOf(<<1, s>>)
    BY <1>12, <1>13, <2>1, <2>2
  <2>4. c.part[1] = 1
    BY <2>2, <2>3, RunTypes DEF Refreshes
  <2>5. c.value = "full"
    <3>1. c.part = <<1, c.part[2]>>
      BY <2>2, <2>4
    <3>2. summary[c.part] = "full"
      BY <1>14, <2>2, <3>1
    <3> QED
      BY <1>12, <1>13, <3>2
  <2>6. c.completed
    BY <1>1, <1>12, <1>13 DEF Whole
  <2> QED
    BY <2>5, <2>6
<1>17. ~RunNotCompleted(M)
  BY <1>16 DEF RunNotCompleted
<1>18. ~RunNotPopulated(M, E)
  <2> SUFFICES ASSUME NEW r \in RunsOf(1) PROVE \E c \in M : c.run = r /\ c.value # "null"
    BY <1>9 DEF RunNotPopulated
  <2>1. PICK s \in Scopes : r = RunOf(<<1, s>>)
    BY RunsOfElement
  <2>2. PICK c \in M : c.run = r
    BY <1>15, <2>1
  <2> QED
    BY <1>16, <2>2
<1>19. ~MasterRowMissing(seen.details, E)
  <2> SUFFICES ASSUME NEW r \in RunsOf(1) PROVE [run |-> r, completed |-> TRUE] \in RunDetails
    BY <1>1, <1>9 DEF MasterRowMissing
  <2>1. PICK s \in Scopes : r = RunOf(<<1, s>>)
    BY RunsOfElement
  <2>2. PICK c \in M : c.run = r
    BY <1>15, <2>1
  <2>3. c \in CalculationRows /\ c.completed
    BY <1>13, <1>16
  <2> QED
    BY <2>2, <2>3, RunDetailsFacts
<1>23. /\ ~ContextMissing(E, ids) /\ ~SummaryMissing(V, M, ids)
       /\ ~ApiIsBare /\ ~MetricDiffers(seen, M) /\ ~ValidityDiffers(seen, ids)
  BY <1>1, NoContradiction
<1>21. Verdict(seen, ids) = "accepted"
  BY <1>10, <1>11, <1>17, <1>18, <1>19, <1>23 DEF Verdict
<1>22. Covered(seen, SliceRows(SliceRuns), ids)
  <2> SUFFICES ASSUME NEW s \in Scopes
               PROVE  /\ \E c \in M : c.part[2] = s
                      /\ \A c \in M : c.value = "full"
                      /\ \E p \in SliceRows(SliceRuns) : p[2] = s
    BY DEF Covered, LinkedScopes
  <2>1. \E c \in M : c.part[2] = s
    <3>1. PICK c \in M : c.part = <<1, s>>
      BY <1>15
    <3>2. c.part[2] = s
      BY <3>1
    <3> QED
      BY <3>2
  <2>2. SliceRuns = RunsOf(1)
    BY <1>4, <1>8 DEF SliceRuns
  <2>3. <<1, s>> \in SliceRows(SliceRuns)
    <3>1. 1 \in sliced /\ <<1, s>>[1] = 1
      BY <1>1 DEF Whole
    <3>2. RunOf(<<1, s>>) \in RunsOf(1)
      BY RunTypes DEF Refreshes
    <3> QED
      BY <1>14, <2>2, <3>1, <3>2 DEF SliceRows
  <2> QED
    BY <1>16, <2>1, <2>3
<1> QED
  BY <1>21, <1>22

\* The steps that end the call, when nothing was written since it began.
LEMMA WholeIsAcceptedNext ==
  ASSUME ReadInv, WholeIsAccepted, [Next]_vars
  PROVE  WholeIsAccepted'
<1> USE DEF ReadInv
<1>0. ASSUME UNCHANGED <<dbVars, api>> PROVE AnswerOutdated' <=> AnswerOutdated
  BY <1>0 DEF dbVars, AnswerOutdated, ApiIsBare
<1>1. CASE UNCHANGED vars
  BY <1>0, <1>1 DEF WholeIsAccepted, vars
<1>2. CASE AuditRunIds
  <2>1. (quiet => pc' # "done") /\ quiet' = quiet
    BY <1>2, AuditStep DEF AuditRunIds
  <2> QED
    BY <2>1 DEF WholeIsAccepted
<1>3. CASE QueryFails
  BY <1>3 DEF QueryFails, WholeIsAccepted
<1>4. CASE RefuseEvidence
  <2>1. /\ pc = "slices" /\ Verdict(seen, ids) # "accepted" /\ UNCHANGED <<setting, dbVars, api, quiet>>
    BY <1>4 DEF RefuseEvidence
  <2>2. ~(quiet /\ ~AnswerOutdated /\ ~(setting.answer = "per_refresh" /\ setting.split))
    BY <2>1, WholePasses
  <2> QED
    BY <1>0, <2>1, <2>2 DEF WholeIsAccepted
<1>5. CASE AcceptEvidence
  <2>1. /\ pc = "slices" /\ UNCHANGED <<setting, dbVars, api, quiet>>
        /\ outcome' = IF Covered(seen, SliceRows(SliceRuns), ids) THEN "accepted" ELSE "FAIL_REFRESH"
    BY <1>5 DEF AcceptEvidence
  <2>2. quiet /\ ~AnswerOutdated /\ ~(setting.answer = "per_refresh" /\ setting.split) => outcome' = "accepted"
    BY <2>1, WholePasses
  <2> QED
    BY <1>0, <2>1, <2>2 DEF WholeIsAccepted
<1>6. CASE outcome' = "none"
  <2>1. pc' # "done"
    BY <1>6, ReadInvNext DEF ControlInv
  <2> QED
    BY <2>1 DEF WholeIsAccepted
<1> QED
  BY <1>1, <1>2, <1>3, <1>4, <1>5, <1>6, OutcomeStep

\* A refresh that is whole before the last attempt begins is accepted unless a
\* query fails or the detail answer is out of date (WholeIsAccepted): the checks ask for nothing that a complete
\* refresh does not have.
THEOREM WholeRefreshIsAccepted == Spec => []WholeIsAccepted
<1>1. Init => WholeIsAccepted
  BY DEF Init, WholeIsAccepted
<1>2. ReadInv /\ WholeIsAccepted /\ [Next]_vars => WholeIsAccepted'
  BY WholeIsAcceptedNext
<1> QED
  BY <1>1, <1>2, ReadInvariant, PTL DEF Spec
====
