---------------------------- MODULE RouteChecks ----------------------------
(***************************************************************************)
(* The checks of published routes in                                       *)
(* src/service/factor4_calculation_service.py: which metrics form a pair,  *)
(* the any-valid-scope truth table, the independent recalculation of every *)
(* route's score, direction, weights and admission, and the ranking of two *)
(* reads.  Operators over one read of the database; the messages and the   *)
(* samples of the findings are left out, a finding is its status.          *)
(*                                                                         *)
(* A Decimal is [n, s], the number n / 10^s with s digits stored.  What is *)
(* computed from Decimals is a fraction [n, d]; the 28 digits Decimal      *)
(* divides with are taken as exact.                                        *)
(***************************************************************************)
EXTENDS Integers, Sequences, SequencesExt, FiniteSets, FiniteSetsExt, Functions

CONSTANTS
  Null,           \* None, SQL NULL or an absent key
  Bad,            \* a value of the wrong type
  Scale,          \* digits of the metric scores, confidences and weights
  AdmissionScale, \* digits a route is admitted with (6 in the code)
  IcNames         \* the IC figures that have a directed form

Scopes == {"time_series", "cross_sectional"}

-----------------------------------------------------------------------------
(* Findings.                                                               *)

StatusPriority(status) ==
  CASE status = "PASS" -> 0
    [] status = "BLOCKED_DOC" -> 1
    [] status = "BLOCKED_DATA_PRECONDITION" -> 2
    [] status = "FAIL" -> 3

HighestStatus(statuses) ==
  CHOOSE status \in statuses \cup {"PASS"} :
    \A other \in statuses : StatusPriority(other) <= StatusPriority(status)

Failed(condition) == IF condition THEN {"FAIL"} ELSE {}
Blocked(condition) == IF condition THEN {"BLOCKED_DATA_PRECONDITION"} ELSE {}

-----------------------------------------------------------------------------
(* Decimals.                                                               *)

IsDecimal(x) == x \notin {Null, Bad}
Units(x) == x.n * 10^(Scale - x.s)
AtLeast(x, y) == x.n * 10^y.s >= y.n * 10^x.s
Magnitude(i) == IF i < 0 THEN -i ELSE i
Signed(i, magnitude) == IF i < 0 THEN -magnitude ELSE magnitude
HalfUp(f, s) == Signed(f.n, (2 * Magnitude(f.n) * 10^s + f.d) \div (2 * f.d))
RoundDown(f, s) == Signed(f.n, (Magnitude(f.n) * 10^s) \div f.d)
Fraction(x) == [n |-> x.n, d |-> 10^x.s]

\* _matches_persisted_scale: the stored digits decide how closely they are compared.
MatchesPersistedScale(f, stored) == HalfUp(f, stored.s) = stored.n

\* _compare_required_decimal, _compare_scope_evidence_decimal
CompareRequired(f, stored) ==
  Blocked(~IsDecimal(stored)) \cup Failed(IsDecimal(stored) /\ ~MatchesPersistedScale(f, stored))

-----------------------------------------------------------------------------
(* Pairs of metrics: one row per scope of the same evaluation.             *)

\* The fields a metric and its route share, see _same_route_metric_identity.
Who == {"batch", "ref", "factor", "version", "market", "kind", "label"}

SameRouteMetricIdentity(r, m) == \A f \in Who : r[f] = m[f]

MetricPairIdentity(m) ==
  IF m.hash # Null THEN <<"repository_hash", m.hash>>
  ELSE IF m.identity # Null THEN <<"full_identity", m.identity>>
  ELSE <<"missing_identity", Null>>

MetricPairKey(m) == <<[f \in Who |-> m[f]], m.sample, MetricPairIdentity(m)>>

\* The rows that are paired: of two rows of one scope the first is kept.
Paired(metrics) ==
  {m \in metrics : /\ m.scope \in Scopes
                   /\ \A o \in metrics : o.scope = m.scope /\ MetricPairKey(o) = MetricPairKey(m)
                                           => m.id <= o.id}

MetricPairIssues(metrics) ==
  Failed(\E m \in metrics : m.scope \notin Scopes)
    \cup Blocked(\E m \in metrics : m.scope \in Scopes /\ m.hash = Null /\ m.identity = Null)
    \cup Blocked(\E m \in metrics : m.scope \in Scopes /\ m \notin Paired(metrics))

MetricPair(metrics, key) == {m \in Paired(metrics) : MetricPairKey(m) = key}

MetricIsValid(m) == m.status = "success" /\ m.valid = TRUE

ScopeScore(m) == IF m.scope = "time_series" THEN m.ts ELSE m.cs

\* _as_string_set: a list of names as a set, or Null.
AsStringSet(list) == IF list \in {Null, Bad} THEN Null ELSE Range(list)

-----------------------------------------------------------------------------
(* check_any_valid_scope.                                                  *)

AnyValidEligibility(m, valid) ==
  LET e == m.eligibility
      settled == e.is_eligible # Null /\ (valid = {} \/ (IsDecimal(e.score) /\ IsDecimal(e.minimum)))
      expected == valid # {} /\ AtLeast(e.score, e.minimum)
  IN  Failed(e.mode # "any_valid_scope")
        \cup Failed(AsStringSet(e.valid) # valid \/ AsStringSet(e.invalid) # Scopes \ valid)
        \cup Blocked(~settled)
        \cup Failed(settled /\ e.is_eligible # expected)

TruthClasses == {{}, {"time_series"}, {"cross_sectional"}, Scopes}

\* The membership findings are added by the caller too, see Factor4Audit.
AnyValidScope(metrics) ==
  LET keys == {MetricPairKey(m) : m \in Paired(metrics)}
      complete == {k \in keys : {m.scope : m \in MetricPair(metrics, k)} = Scopes}
      validOf(k) == {m.scope : m \in {p \in MetricPair(metrics, k) : MetricIsValid(p)}}
  IN  MetricPairIssues(metrics)
        \cup Blocked(keys # complete)
        \cup UNION {IF m.eligibility = Null THEN Blocked(TRUE)
                    ELSE AnyValidEligibility(m, validOf(MetricPairKey(m))) :
                      m \in {p \in Paired(metrics) : MetricPairKey(p) \in complete}}
        \cup Blocked({validOf(k) : k \in complete} # TruthClasses)

-----------------------------------------------------------------------------
(* The weights of the route profile: every place of the configuration that *)
(* gives them must parse, and all must agree.                              *)

ParseWeights(raw) ==
  IF raw = Bad \/ \E s \in Scopes : ~IsDecimal(raw[s]) THEN Null
  ELSE IF (\E s \in Scopes : raw[s].n < 0) \/ \A s \in Scopes : raw[s].n = 0 THEN Null
  ELSE [s \in Scopes |-> Units(raw[s])]

\* Mutant: a place whose weights cannot be read is passed over.
ConfiguredWeightsReadable(batch) ==
  LET given == {ParseWeights(raw) : raw \in Range(batch.weights) \ {Null}} \ {Null}
  IN  IF Cardinality(given) = 1 THEN CHOOSE w \in given : TRUE ELSE Null

ConfiguredWeights(batch) ==
  LET given == {ParseWeights(raw) : raw \in Range(batch.weights) \ {Null}}
  IN  IF Cardinality(given) = 1 THEN CHOOSE w \in given : TRUE ELSE Null

-----------------------------------------------------------------------------
(* check_route_score_recalculation, one route.  The repository reads the   *)
(* route's profile from its batch, so it always agrees.                    *)

RouteIdentity(r) == Failed(r.ref # r.factor)

RouteSnapshotFields(batch, r) ==
  Failed(\/ r.batch # batch.id \/ r.publication # batch.publication
         \/ r.publish # batch.publish \/ r.market # batch.market
         \/ r.kind # batch.kind \/ r.rule # batch.rule)
    \cup Failed(r.as_of # batch.as_of)
    \cup Failed(batch.semantics = "publication_effective" /\ r.date # batch.end)

\* The route's score of each scope is the score of the valid metric, or NULL.
RouteScopeScores(r, pair) ==
  UNION {LET stored == IF s = "time_series" THEN r.ts ELSE r.cs
             valid == {m \in pair : m.scope = s /\ MetricIsValid(m)}
             score == IF valid = {} THEN Null ELSE ScopeScore(CHOOSE m \in valid : TRUE)
         IN  IF score = Null THEN Blocked(stored = Bad) \cup Failed(stored \notin {Null, Bad})
             ELSE CompareRequired(Fraction(score), stored) : s \in Scopes}

RouteMetricIds(r, valid) ==
  LET ids == r.evidence.metric_ids
      expected == [s \in {m.scope : m \in valid} |-> (CHOOSE m \in valid : m.scope = s).id]
  IN  Failed(r.metric \notin {m.id : m \in valid})
        \cup (IF ids = Null \/ DOMAIN ids = {} THEN Blocked(TRUE)
              ELSE Failed(~(DOMAIN ids \subseteq Scopes))
                     \cup Blocked(\E s \in DOMAIN ids \cap Scopes : ids[s] = Bad)
                     \cup Failed(/\ DOMAIN ids \subseteq Scopes
                                 /\ Bad \notin Range(ids)
                                 /\ ids # expected))

RouteScopeEvidence(r, valid) ==
  LET scopes == {m.scope : m \in valid}
      wrong(list, expected) ==
        Blocked(AsStringSet(list) = Null)
          \cup Failed(AsStringSet(list) # Null
                      /\ (AsStringSet(list) # expected \/ Len(list) # Cardinality(expected)))
  IN  Blocked(r.evidence.mode = Null)
        \cup Failed(r.evidence.mode \notin {Null, "any_valid_scope"})
        \cup wrong(r.evidence.valid, scopes)
        \cup wrong(r.evidence.invalid, Scopes \ scopes)

ValidWeightSum(weights, valid) == MapThenSumSet(LAMBDA m : weights[m.scope], valid)

\* The weight of a scope once the invalid scopes are left out.
EffectiveWeight(weights, valid, s) ==
  [n |-> IF \E m \in valid : m.scope = s THEN weights[s] ELSE 0, d |-> ValidWeightSum(weights, valid)]

RouteWeights(weights, r, valid) ==
  LET configured == r.evidence.configured
      effective == r.evidence.effective
  IN  (IF configured \in {Null, Bad} THEN Blocked(TRUE)
       ELSE UNION {CompareRequired([n |-> weights[s], d |-> 10^Scale], configured[s]) : s \in Scopes})
        \cup (IF ValidWeightSum(weights, valid) <= 0 THEN Blocked(TRUE)
              ELSE UNION {CompareRequired(EffectiveWeight(weights, valid, s), effective[s]) :
                            s \in Scopes})

\* The directed form of every IC figure is the raw figure times the direction, to the
\* digits of the first place that gives it; the places that give it agree.
MetricDirection(m) ==
  LET sources == {m.payload} \cup (IF m.direction = Null THEN {} ELSE {m.direction.values})
      given(name) == {source[name] : source \in sources} \ {Null}
      first(name) == IF m.payload[name] # Null THEN m.payload[name] ELSE m.direction.values[name]
      known == m.direction # Null /\ m.direction.predictive \in {-1, 1}
      missing(name) == m.raw[name] = Null \/ Bad \in given(name) \/ given(name) = {}
  IN  IF ~known THEN Blocked(TRUE)
      ELSE UNION {IF missing(name) THEN Blocked(TRUE)
                  ELSE IF \E x, y \in given(name) : x.n * 10^y.s # y.n * 10^x.s THEN Failed(TRUE)
                  ELSE Failed(~MatchesPersistedScale(
                         [n |-> m.raw[name].n * m.direction.predictive, d |-> 10^m.raw[name].s], first(name))) :
                    name \in IcNames}

HasComponents(m) == ScopeScore(m) # Null /\ m.conf # Null

RouteComponents(r, valid) ==
  UNION {LET detail == r.evidence.detail[m.scope]
         IN  IF ~HasComponents(m) THEN Blocked(TRUE)
             ELSE MetricDirection(m)
                    \cup (IF detail \in {Null, Bad} THEN Blocked(TRUE)
                          ELSE CompareRequired(Fraction(ScopeScore(m)), detail.metric_score)
                                 \cup CompareRequired(Fraction(m.conf), detail.confidence)) :
           m \in valid}

WeightedMean(figures, weights, valid) ==
  [n |-> MapThenSumSet(LAMBDA m : Units(figures[m]) * weights[m.scope], valid),
   d |-> 10^Scale * ValidWeightSum(weights, valid)]

BaseScore(weights, valid) == WeightedMean([m \in valid |-> ScopeScore(m)], weights, valid)
Confidence(weights, valid) == WeightedMean([m \in valid |-> m.conf], weights, valid)

RoutingScore(weights, valid) ==
  LET base == BaseScore(weights, valid)
      confidence == Confidence(weights, valid)
  IN  [n |-> base.n * confidence.n, d |-> base.d * confidence.d]

RouteScores(weights, r, valid) ==
  LET confidence == Confidence(weights, valid)
  IN  CompareRequired(BaseScore(weights, valid), r.evidence.base)
        \cup CompareRequired(confidence, r.evidence.confidence)
        \cup CompareRequired(RoutingScore(weights, valid), r.evidence.routing)
        \cup Failed(~MatchesPersistedScale(RoutingScore(weights, valid), r.score))
        \cup CompareRequired(confidence, r.conf)

\* Mutant: the exact score is admitted, not the rounded one.
RouteAdmissionExact(batch, r, score) ==
  LET minimum == batch.minimum
      expected == score.n * 10^minimum.s >= minimum.n * score.d
  IN  IF ~IsDecimal(minimum) THEN {}
      ELSE Failed(r.is_eligible # expected) \cup Failed(r.is_eligible /\ r.reject # Null)

\* _check_route_admission_fields; a midpoint whose rounding decides is left open.
RouteAdmission(batch, r, score) ==
  LET minimum == batch.minimum
      final == [n |-> HalfUp(score, AdmissionScale), s |-> AdmissionScale]
      floor == [n |-> RoundDown(score, AdmissionScale), s |-> AdmissionScale]
      midpoint == 2 * (score.n * 10^AdmissionScale - floor.n * score.d) = score.d
      expected == AtLeast(final, minimum)
  IN  IF ~IsDecimal(minimum) THEN {}
      ELSE IF midpoint /\ AtLeast(floor, minimum) # expected THEN {"BLOCKED_DOC"}
      ELSE Failed(r.is_eligible # expected) \cup Failed(r.is_eligible /\ r.reject # Null)

\* What is still checked of a route once its valid metrics are known.
RouteValues(batch, r, valid) ==
  LET weights == ConfiguredWeights(batch)
  IN  IF weights = Null THEN {}
      ELSE IF r.evidence.effective \in {Null, Bad} THEN Blocked(TRUE)
      ELSE RouteWeights(weights, r, valid)
             \cup (IF ValidWeightSum(weights, valid) <= 0 THEN {}
                   ELSE RouteComponents(r, valid)
                          \cup (IF \E m \in valid : ~HasComponents(m) THEN {}
                                ELSE RouteScores(weights, r, valid)
                                       \cup RouteAdmission(batch, r, RoutingScore(weights, valid))))

RouteIssues(batch, metrics, r) ==
  LET primary == {m \in metrics : m.id = r.metric}
      pair == UNION {MetricPair(metrics, MetricPairKey(m)) : m \in primary}
      valid == {m \in pair : MetricIsValid(m)}
  IN  RouteIdentity(r)
        \cup RouteSnapshotFields(batch, r)
        \cup Failed(\E m \in primary \cup pair : ~SameRouteMetricIdentity(r, m))
        \cup (IF pair = {} THEN Blocked(TRUE)
              ELSE RouteScopeScores(r, pair)
                     \cup RouteMetricIds(r, valid)
                     \cup (IF valid = {} THEN Blocked(TRUE)
                           ELSE RouteScopeEvidence(r, valid) \cup RouteValues(batch, r, valid)))

\* check_route_score_recalculation; the repository refuses two metrics of one id.
RouteScoreRecalculation(batch, metrics, routes) ==
  MetricPairIssues(metrics)
    \cup Blocked(routes = {})
    \cup Blocked(ConfiguredWeights(batch) = Null)
    \cup Blocked(~IsDecimal(batch.minimum))
    \cup UNION {RouteIssues(batch, metrics, r) : r \in routes}

-----------------------------------------------------------------------------
(* The ranking of two reads.                                               *)

\* The partition of a ranking; as_of is <<day, time>> and only the day counts.
PartitionKey(r) == <<r.batch, r.publication, r.publish, r.market, r.kind, r.label, r.date, r.as_of[1]>>

\* _route_partitions and _repeat_route_partitions: what is ranked, by rank.
Ranking(ranked, key) ==
  SetToSortSeq({r \in ranked : PartitionKey(r) = key},
               LAMBDA a, b : a.rank < b.rank \/ (a.rank = b.rank /\ a.id < b.id))

RankAsOf(batch, routes) == Failed(\E r \in routes : r.as_of # batch.as_of)

PartitionRanks(ranked) ==
  UNION {LET ranking == Ranking(ranked, key)
             named == [i \in DOMAIN ranking |-> <<ranking[i].ref, ranking[i].version>>]
         IN  Failed(\E i \in DOMAIN ranking : ranking[i].rank # i)
               \cup Failed(\E i \in 1..Len(ranking) - 1 :
                             ~AtLeast(ranking[i].score, ranking[i + 1].score))
               \cup Failed(~IsInjective(named)) : key \in {PartitionKey(r) : r \in ranked}}

PartitionSequences(ranked) ==
  [key \in {PartitionKey(r) : r \in ranked} |->
     [i \in DOMAIN Ranking(ranked, key) |->
        LET r == Ranking(ranked, key)[i] IN <<r.id, r.rank, r.ref, r.version, Units(r.score), r.metric>>]]

\* Mutant: rows of another publication are held against the first one.
FinalResultRankingAnyPublication(batch, routes, repeated) ==
  LET ranked == {r \in routes : r.active = TRUE /\ r.is_eligible = TRUE}
  IN  RankAsOf(batch, routes) \cup RankAsOf(batch, repeated.routes)
        \cup Blocked(ranked = {})
        \cup PartitionRanks(ranked) \cup PartitionRanks(repeated.routes)
        \cup Failed(PartitionSequences(ranked) # PartitionSequences(repeated.routes))

\* check_final_result_ranking
FinalResultRanking(batch, routes, repeated) ==
  LET ranked == {r \in routes : r.active = TRUE /\ r.is_eligible = TRUE}
      same == repeated.identity = <<batch.id, batch.publication, batch.publish, batch.market, batch.profile>>
  IN  RankAsOf(batch, routes)
        \cup (IF same THEN RankAsOf(batch, repeated.routes) ELSE {})
        \cup Blocked(ranked = {})
        \cup PartitionRanks(ranked) \cup PartitionRanks(repeated.routes)
        \cup Blocked(~same)
        \cup Failed(same /\ PartitionSequences(ranked) # PartitionSequences(repeated.routes))

-----------------------------------------------------------------------------
(* The frozen members of the batch against its metrics.                    *)

MembershipIssues(differences) ==
  Blocked(differences.unresolved # {})
    \cup Failed(differences.missing # {})
    \cup Failed(differences.unexpected # {})

\* check_rank_stability: without a finding the undefined order of ties is reported.
RankStability(batch, routes, repeated, differences) ==
  LET issues == MembershipIssues(differences) \cup FinalResultRanking(batch, routes, repeated)
  IN  IF issues = {} THEN {"BLOCKED_DOC"} ELSE issues
=============================================================================
