------------------------ MODULE CalculationSnapshot ------------------------
(***************************************************************************)
(* The two reads of src/db/factor4_calculation_repository.py.  Each runs   *)
(* in one REPEATABLE READ transaction that starts with a consistent        *)
(* snapshot, so a read is an operator over one state of the tables; it is  *)
(* ReadError where the code raises CalculationRepositoryError.             *)
(*                                                                         *)
(* db is [batches, metrics, routes, details, formulas], sets of rows.  A   *)
(* field of a row is a value, Null or Bad.                                 *)
(***************************************************************************)
EXTENDS RouteChecks, FormulaLinks

CONSTANTS
  ReadError, \* what a read that raises stands for
  Market,    \* the market scope and
  Profile    \* the route profile that are asked for

-----------------------------------------------------------------------------
(* The converters: which columns may be NULL, none may be malformed.       *)

Readable(row, required, optional) ==
  /\ \A f \in required : row[f] \notin {Null, Bad}
  /\ \A f \in optional : row[f] # Bad

ToBatch(b) ==
  Readable(b, {"id", "market", "kind", "profile", "end", "as_of", "published_at", "publication",
               "publish", "rule", "status", "published", "active", "members", "config"},
              {"semantics"})

ToEvaluationMetric(m) ==
  Readable(m, Who \cup {"id", "sample", "scope", "status"},
              {"valid", "hash", "identity", "ts", "cs", "conf", "raw", "payload", "direction",
               "eligibility"})

ToRoute(r) ==
  Readable(r, Who \cup {"id", "publication", "publish", "metric", "date", "as_of", "rank", "score",
                        "is_eligible", "evidence", "rule", "active"},
              {"conf", "ts", "cs", "reject"})

ToRouteRanking(r) ==
  Readable(r, {"id", "metric", "date", "kind", "label", "as_of", "ref", "factor", "version", "rank",
               "score", "rule"},
              {"conf", "ts", "cs"})

ToDetail(d) == Readable(d, {"id", "factor"}, {})

ToFormulaEvidence(f) ==
  Readable(f, {"id", "factor", "run", "hash", "fversion", "context", "completed"}, {"detail", "version"})

-----------------------------------------------------------------------------
(* The one published batch.                                                *)

\* _PUBLISHED_RESULT_STATUS_PREDICATE
PublishedResultStatus(b) ==
  b.status = "success" \/ (b.status = "partial_fail" /\ b.mode = "per_factor_incremental")

PublishedBatches(db) ==
  {b \in db.batches : /\ b.market = Market /\ b.profile = Profile
                      /\ PublishedResultStatus(b)
                      /\ b.published = "published" /\ b.active = TRUE}

-----------------------------------------------------------------------------
(* The factors of the batch: frozen members, and those its metrics name.   *)

\* _factor_identity_map: one identity per factor, or Null.
FactorIdentityMap(members) ==
  LET rows == Range(members)
      fits == /\ \A m \in rows : Null \notin {m.ref, m.factor, m.version}
              /\ \A m, o \in rows : m.factor = o.factor => m = o
  IN  IF fits /\ rows # {} THEN {<<m.factor, m.ref, m.version>> : m \in rows} ELSE Null

\* _snapshot_factor_identity_map
FrozenMembers(b) == IF b.count = Len(b.members) THEN FactorIdentityMap(b.members) ELSE Null

\* The factors whose rows do not agree on a definition version.
Unresolved(metrics) ==
  {m.factor : m \in {x \in metrics : \/ Definition(x) \in {Null, Bad}
                                     \/ \E y \in metrics : y.factor = x.factor
                                                           /\ Definition(y) # Definition(x)}}

\* _metric_membership_identity_map raises when a factor has two references.
OneReference(metrics) == \A x, y \in metrics : x.factor = y.factor => x.ref = y.ref

\* _membership_differences: a factor that is not resolved is neither missing nor unexpected.
MembershipDifferences(members, metrics) ==
  LET unresolved == Unresolved(metrics)
      settled(identities) == {i \in identities : i[1] \notin unresolved}
      frozen == settled(members)
      measured == settled({<<m.factor, m.ref, Definition(m)>> : m \in metrics})
  IN  [unresolved |-> unresolved, missing |-> frozen \ measured, unexpected |-> measured \ frozen]

-----------------------------------------------------------------------------
(* The reads.                                                              *)

\* _read_evaluation_metric_rows: the columns and the evidence come from two queries of the
\* same table in the same snapshot, so merging them by id gives the whole rows.
BatchMetrics(db, b) == {m \in db.metrics : m.batch = b.id}

\* _factor_filter, _enrich_factor_rows: the rows of the frozen members, each with the
\* reference and the version its member has in the batch.
OfMembers(rows, members) ==
  {LET i == CHOOSE x \in members : x[1] = d.factor IN d @@ [ref |-> i[2], frozen |-> i[3]] :
     d \in {x \in rows : \E i \in members : i[1] = x.factor}}

\* _read_formula_evidence_rows: of the completed runs, the newest of every context and
\* every row a metric links to.
FormulaEvidence(db, members, metrics) ==
  LET completed == {f \in OfMembers(db.formulas, members) : f.completed # Null}
      newest(f) == \A o \in completed :
                     o.factor = f.factor /\ o.context = f.context
                       => o.completed < f.completed \/ (o.completed = f.completed /\ o.id <= f.id)
      linked(f) == \E m \in metrics : /\ m.factor = f.factor
                                     /\ LinkSpec(m) # <<>>
                                     /\ Matches(LinkSpec(m), f)
  IN  {f \in completed : newest(f) \/ linked(f)}

\* _routes_query: the route's batch decides, its profile comes with the join.
RoutesOf(db, b) ==
  {r \in db.routes : /\ r.batch = b.id /\ r.publication = b.publication
                     /\ r.publish = b.publish /\ r.active = TRUE}

\* read_calculation_snapshot
ReadCalculationSnapshot(db) ==
  IF Cardinality(PublishedBatches(db)) # 1 THEN ReadError
  ELSE
    LET b == CHOOSE x \in PublishedBatches(db) : TRUE
        metrics == BatchMetrics(db, b)
        routes == RoutesOf(db, b)
    IN  IF ~ToBatch(b) THEN ReadError
        ELSE
          LET members == FrozenMembers(b)
          IN  IF \/ members = Null \/ ~OneReference(metrics)
                 \/ \E m \in metrics : ~ToEvaluationMetric(m)
                 \/ \E r \in routes : ~ToRoute(r)
                 \/ \E d \in OfMembers(db.details, members) : ~ToDetail(d)
                 \/ \E f \in FormulaEvidence(db, members, metrics) : ~ToFormulaEvidence(f)
              THEN ReadError
              ELSE [batch |-> b, metrics |-> metrics, routes |-> routes,
                    members |-> members,
                    details |-> OfMembers(db.details, members),
                    formulas |-> FormulaEvidence(db, members, metrics),
                    differences |-> MembershipDifferences(members, metrics)]

\* read_published_route_snapshot: the eligible routes, without their market.
ReadPublishedRouteSnapshot(db) ==
  IF Cardinality(PublishedBatches(db)) # 1 THEN ReadError
  ELSE
    LET b == CHOOSE x \in PublishedBatches(db) : TRUE
        routes == {r \in RoutesOf(db, b) : r.is_eligible = TRUE}
    IN  IF \/ {b.id, b.publication, b.publish, b.market, b.profile} \cap {Null, Bad} # {}
           \/ \E r \in routes : ~ToRouteRanking(r)
        THEN ReadError
        ELSE [identity |-> <<b.id, b.publication, b.publish, b.market, b.profile>>,
              routes |-> {[r EXCEPT !.market = b.market] : r \in routes}]
=============================================================================
