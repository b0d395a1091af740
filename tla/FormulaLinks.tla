---------------------------- MODULE FormulaLinks ----------------------------
(***************************************************************************)
(* How a metric is bound to the immutable evidence of the formula that was *)
(* run for it, in src/service/factor4_calculation_service.py and the link  *)
(* predicates of src/db/factor4_calculation_repository.py.  A metric       *)
(* identity is [definition, context, top, nested]; top and nested (one of  *)
(* the compatibility containers) give the link fields.                     *)
(***************************************************************************)
EXTENDS RouteChecks

\* _STRONG_FORMULA_LINK_NAMES: what can prove which formula was run.
StrongLinks == {"id", "run", "hash", "fversion"}

\* The detail row is only a trace, the version is that of the metric itself.
LinkFields == StrongLinks \cup {"detail", "version"}

Definition(m) == IF m.identity = Null THEN Null ELSE m.identity.definition

\* The values an identity gives for a link, from both places.
LinkValues(identity, field) ==
  {identity.top[field]} \cup (IF identity.nested \in {Null, Bad} THEN {} ELSE {identity.nested[field]})

\* _validated_metric_formula_identity: malformed values, containers or contradictions.
InvalidLinks(identity) ==
  \/ identity.nested = Bad
  \/ \E f \in LinkFields : Bad \in LinkValues(identity, f) \/ Cardinality(LinkValues(identity, f) \ {Null}) > 1

Link(identity, field) ==
  LET given == LinkValues(identity, field) \ {Null}
  IN  IF given = {} THEN Null ELSE CHOOSE v \in given : TRUE

\* _safe_metric_formula_link_values: the links that are given once and well-formed.
UsableLinks(identity) ==
  {f \in StrongLinks : LET given == LinkValues(identity, f) \ {Null}
                       IN  Bad \notin given /\ Cardinality(given) = 1}

\* _metric_formula_link_specs: the predicate of the read.
LinkSpec(m) ==
  IF m.identity = Null THEN <<>> ELSE [f \in UsableLinks(m.identity) |-> Link(m.identity, f)]

Matches(spec, row) == \A f \in DOMAIN spec : row[f] = spec[f]

\* _metric_formula_context_mismatches
SameContext(m, row) == row.context = (IF m.identity.context = Null THEN m.context ELSE m.identity.context)

\* The evidence rows the links of a metric leave, those of its context if there are any.
LinkedRows(m, rows) ==
  LET strong == [f \in {x \in StrongLinks : Link(m.identity, x) # Null} |-> Link(m.identity, f)]
      found == {r \in rows : r.ref = m.ref /\ r.factor = m.factor /\ Matches(strong, r)}
      fitting == {r \in found : SameContext(m, r)}
  IN  IF strong = <<>> THEN {}
      ELSE IF fitting # {} THEN fitting
      ELSE found

\* A metric can be judged when its links name exactly one row.
Bound(m, rows) == m.identity # Null /\ ~InvalidLinks(m.identity) /\ Cardinality(LinkedRows(m, rows)) = 1

\* The row a metric is bound to must not contradict it; frozen is the definition version
\* the batch has of the factor.
LinkedRowIssues(m, row) ==
  LET trace == Link(m.identity, "detail")
  IN  Failed(m.identity.definition \notin {Null, row.frozen})
        \cup Failed(row.version \notin {Null, m.version})
        \cup Failed(trace \notin {Null, row.detail})
        \cup Failed(~SameContext(m, row))

\* _check_metric_formula_link
MetricFormulaLink(m, rows) ==
  IF m.identity = Null \/ InvalidLinks(m.identity) THEN Blocked(TRUE)
  ELSE Failed(Link(m.identity, "version") \notin {Null, m.version})
         \cup (IF Bound(m, rows) THEN LinkedRowIssues(m, CHOOSE r \in LinkedRows(m, rows) : TRUE)
               ELSE Blocked(TRUE))
=============================================================================
