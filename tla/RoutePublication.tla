-------------------------- MODULE RoutePublication --------------------------
(***************************************************************************)
(* What the backend publishes (it is not in the repository): two batches   *)
(* of the same partition, of which one is active, over four factors whose  *)
(* scopes are valid in the four possible ways.  The figures are worked out *)
(* by hand: with weights .6 and .4                                         *)
(*   a  .9 * .6 + .8 * .4 = .86,  .8 * .6 + .9 * .4 = .84,  .7224          *)
(*   b  .7, .5, .35 (a midpoint)     c  .3, .5, .15 (a midpoint)           *)
(* A fault is one wrong cell, or one missing or doubled row, of batch 1.   *)
(***************************************************************************)
EXTENDS CalculationSnapshot

CONSTANT NoFault

Factors == {"a", "b", "c", "d"}

Routed == {"a", "b", "c"}

Index == [a |-> 1, b |-> 2, c |-> 3, d |-> 4]

ValidScopes == [a |-> Scopes, b |-> {"time_series"}, c |-> {"cross_sectional"}, d |-> {}]

Digits(n, s) == [n |-> n, s |-> s]

\* A score and a confidence for every scope that was scored.
Figures ==
  [a |-> [time_series |-> <<9, 8>>, cross_sectional |-> <<8, 9>>],
   b |-> [time_series |-> <<7, 5>>, cross_sectional |-> <<6, 6>>],
   c |-> [time_series |-> Null, cross_sectional |-> <<3, 5>>],
   d |-> [time_series |-> <<2, 2>>, cross_sectional |-> Null]]

Result ==
  [a |-> [base |-> Digits(86, 2), confidence |-> Digits(84, 2), routing |-> Digits(7224, 4),
          score |-> Digits(7, 1)],
   b |-> [base |-> Digits(7, 1), confidence |-> Digits(5, 1), routing |-> Digits(35, 2),
          score |-> Digits(4, 1)],
   c |-> [base |-> Digits(3, 1), confidence |-> Digits(5, 1), routing |-> Digits(15, 2),
          score |-> Digits(2, 1)]]

MetricId(b, f, scope) == 100 * b + 10 * Index[f] + (IF scope = "time_series" THEN 1 ELSE 2)

\* The final score is admitted; of a midpoint it is the upper neighbour.
Eligible(f, minimum) == f \in Routed /\ AtLeast(Result[f].score, minimum)

Links(f) ==
  [id |-> Index[f], run |-> "run", hash |-> f, fversion |-> "1", detail |-> Index[f], version |-> "v"]

MetricRow(b, f, scope, minimum) ==
  LET figure == Figures[f][scope]
      score == IF figure = Null THEN Null ELSE Digits(figure[1], 1)
  IN  [id |-> MetricId(b, f, scope), batch |-> b, ref |-> f, factor |-> f, version |-> "v",
       market |-> Market, kind |-> "kind", label |-> "label", sample |-> "sample",
       scope |-> scope, hash |-> f, context |-> "1h",
       identity |-> [definition |-> "d", context |-> Null, top |-> Links(f), nested |-> Null],
       status |-> IF figure = Null THEN "insufficient" ELSE "success",
       valid |-> scope \in ValidScopes[f],
       ts |-> IF scope = "time_series" THEN score ELSE Null,
       cs |-> IF scope = "cross_sectional" THEN score ELSE Null,
       conf |-> IF figure = Null THEN Null ELSE Digits(figure[2], 1),
       raw |-> [n \in IcNames |-> Digits(25, 2)],
       payload |-> [n \in IcNames |-> Digits(-25, 2)],
       direction |-> [predictive |-> -1, values |-> [n \in IcNames |-> Null]],
       eligibility |-> [mode |-> "any_valid_scope",
                        valid |-> SetToSeq(ValidScopes[f]),
                        invalid |-> SetToSeq(Scopes \ ValidScopes[f]),
                        is_eligible |-> Eligible(f, minimum),
                        score |-> IF f \in Routed THEN Result[f].score ELSE Null,
                        minimum |-> minimum]]

RouteRow(b, f, minimum) ==
  LET scored(scope, i) == IF scope \in ValidScopes[f] THEN Digits(Figures[f][scope][i], 1) ELSE Null
      weight(scope) == IF ValidScopes[f] = {scope} THEN Digits(1, 0) ELSE Digits(0, 0)
  IN  [id |-> 100 * b + Index[f], batch |-> b, ref |-> f, factor |-> f, version |-> "v",
       market |-> Market, kind |-> "kind", label |-> "label",
       metric |-> MetricId(b, f, CHOOSE s \in ValidScopes[f] : TRUE),
       publication |-> b, publish |-> "p", rule |-> "rule", as_of |-> <<b, 0>>, date |-> b,
       rank |-> IF Eligible(f, minimum) THEN Index[f] ELSE 0,
       score |-> Result[f].score, conf |-> Result[f].confidence,
       ts |-> scored("time_series", 1), cs |-> scored("cross_sectional", 1),
       is_eligible |-> Eligible(f, minimum),
       reject |-> IF Eligible(f, minimum) THEN Null ELSE "score_below_minimum",
       active |-> TRUE,
       evidence |->
         [metric_ids |-> [s \in ValidScopes[f] |-> MetricId(b, f, s)],
          mode |-> "any_valid_scope",
          valid |-> SetToSeq(ValidScopes[f]), invalid |-> SetToSeq(Scopes \ ValidScopes[f]),
          configured |-> [time_series |-> Digits(6, 1), cross_sectional |-> Digits(4, 1)],
          effective |-> IF f = "a" THEN [time_series |-> Digits(6, 1), cross_sectional |-> Digits(4, 1)]
                        ELSE [s \in Scopes |-> weight(s)],
          base |-> Result[f].base, confidence |-> Result[f].confidence, routing |-> Result[f].routing,
          detail |-> [s \in Scopes |->
                        IF s \in ValidScopes[f]
                        THEN [metric_score |-> scored(s, 1), confidence |-> scored(s, 2)]
                        ELSE Null]]]

BatchRow(b, active, minimum) ==
  [id |-> b, publication |-> b, publish |-> "p", market |-> Market, profile |-> Profile,
   kind |-> "kind", rule |-> "rule", as_of |-> <<b, 0>>, end |-> b, published_at |-> b,
   semantics |-> "publication_effective", status |-> "success", mode |-> Null,
   published |-> "published", active |-> active = b, config |-> "object", minimum |-> minimum,
   weights |-> [profile |-> [time_series |-> Digits(6, 1), cross_sectional |-> Digits(4, 1)],
                direct |-> [time_series |-> Digits(6, 1), cross_sectional |-> Digits(4, 1)],
                routing |-> Null],
   members |-> [i \in 1..4 |-> LET f == CHOOSE x \in Factors : Index[x] = i
                               IN  [ref |-> f, factor |-> f, version |-> "d"]],
   count |-> 4]

DetailRow(f) == [id |-> Index[f], factor |-> f]

FormulaRow(f) ==
  [id |-> Index[f], factor |-> f, run |-> "run", hash |-> f, fversion |-> "1", context |-> "1h",
   detail |-> Index[f], version |-> "v", completed |-> 1]

-----------------------------------------------------------------------------
(* Faults: <<table, id, path, kind>>.                                      *)

Put(row, path, v) ==
  CASE Len(path) = 1 -> [row EXCEPT ![path[1]] = v]
    [] Len(path) = 2 -> [row EXCEPT ![path[1]][path[2]] = v]
    [] Len(path) = 3 -> [row EXCEPT ![path[1]][path[2]][path[3]] = v]

Get(row, path) ==
  CASE Len(path) = 1 -> row[path[1]]
    [] Len(path) = 2 -> row[path[1]][path[2]]
    [] Len(path) = 3 -> row[path[1]][path[2]][path[3]]

Changed(v, kind) ==
  CASE kind = "null" -> Null
    [] kind = "bad" -> Bad
    [] kind = "name" -> "other"
    [] kind = "flip" -> ~v
    [] kind = "next" -> v + 1
    [] kind = "up" -> [v EXCEPT !.n = @ + 1]
    [] kind = "coarse" -> Digits(1, 0)
    [] kind = "minus" -> [v EXCEPT !.n = -1]
    [] kind = "twice" -> v \o v
    [] kind = "empty" -> <<>>
    [] kind = "time" -> <<v[1], v[2] + 1>>
    [] kind = "day" -> <<v[1] + 1, v[2]>>
    [] kind = "halved" -> [time_series |-> Digits(5, 1), cross_sectional |-> Digits(5, 1)]
    [] kind = "idle" -> [v EXCEPT !.time_series = Digits(0, 0)]
    [] kind = "stray" -> [unknown |-> 1]
    [] kind = "shorter" -> Tail(v)
    [] kind = "partial" -> "partial_fail"
    [] kind = "incremental" -> "per_factor_incremental"

\* The rows of a table with the fault applied.
Faulty(rows, table, fault) ==
  IF fault = NoFault \/ fault[1] # table THEN rows
  ELSE LET hit == {r \in rows : r.id = fault[2]}
       IN  CASE fault[4] = "dropped" -> rows \ hit
             [] fault[4] = "doubled" -> rows \cup {[r EXCEPT !.id = 99] : r \in hit}
             [] OTHER -> (rows \ hit) \cup {Put(r, fault[3], Changed(Get(r, fault[3]), fault[4])) : r \in hit}

\* The tables when batch active is the published one.
Tables(active, minimum, fault) ==
  [batches |-> Faulty({BatchRow(b, active, minimum) : b \in {1, 2}}, "batch", fault),
   metrics |-> Faulty({MetricRow(x[1], x[2], x[3], minimum) : x \in {1, 2} \X Factors \X Scopes},
                      "metric", fault),
   routes |-> Faulty({RouteRow(x[1], x[2], minimum) : x \in {1, 2} \X Routed}, "route", fault),
   details |-> Faulty({DetailRow(f) : f \in Factors}, "detail", fault),
   formulas |-> Faulty({FormulaRow(f) : f \in Factors}, "formula", fault)]

\* The faults of a row: kinds for each path, where the kind fits the cell.
FaultsOf(table, row, paths, kinds) ==
  {<<table, row.id, f[1], f[2]>> :
     f \in {x \in paths \X kinds :
              /\ x[2] \in {"null", "bad", "name", "coarse"} \/ Get(row, x[1]) # Null
              /\ Changed(Get(row, x[1]), x[2]) # Get(row, x[1])}}

Names(fields) == {<<f>> : f \in fields}

MetricFaults(row) ==
  FaultsOf("metric", row, Names(Who \ {"batch"}), {"null", "name"})
    \cup FaultsOf("metric", row, Names({"sample", "scope", "hash", "status", "context"}), {"null", "name"})
    \cup FaultsOf("metric", row, Names({"valid"}), {"null", "bad", "flip"})
    \cup FaultsOf("metric", row, Names({"ts", "cs", "conf"}), {"null", "bad", "up"})
    \cup FaultsOf("metric", row, Names({"identity", "direction", "eligibility"}), {"null", "bad"})
    \cup FaultsOf("metric", row, {<<"raw", n>> : n \in IcNames} \cup {<<"payload", n>> : n \in IcNames},
                  {"null", "up"})
    \cup FaultsOf("metric", row, {<<"direction", "values", n>> : n \in IcNames}, {"bad", "coarse"})
    \cup FaultsOf("metric", row, {<<"direction", "predictive">>}, {"next", "null"})
    \cup FaultsOf("metric", row, {<<"identity", "definition">>}, {"null", "name"})
    \cup FaultsOf("metric", row, {<<"identity", "top", f>> : f \in LinkFields \ {"id", "detail"}}, {"bad", "name"})
    \cup FaultsOf("metric", row, {<<"identity", "top", f>> : f \in {"id", "detail"}}, {"bad", "next"})
    \cup FaultsOf("metric", row, {<<"identity", "nested">>}, {"bad"})
    \cup FaultsOf("metric", row, {<<"eligibility", "mode">>}, {"null", "name"})
    \cup FaultsOf("metric", row, {<<"eligibility", f>> : f \in {"valid", "invalid"}}, {"null", "twice", "empty"})
    \cup FaultsOf("metric", row, {<<"eligibility", "is_eligible">>}, {"null", "flip"})
    \cup FaultsOf("metric", row, {<<"eligibility", f>> : f \in {"score", "minimum"}}, {"null", "up"})
    \cup {<<"metric", row.id, <<>>, kind>> : kind \in {"dropped", "doubled"}}

RouteFaults(row) ==
  FaultsOf("route", row, Names({"ref", "factor", "version", "market", "kind", "label", "rule"}), {"null", "name"})
    \cup FaultsOf("route", row, Names({"publication", "batch", "metric", "rank", "date"}), {"next"})
    \cup FaultsOf("route", row, Names({"as_of"}), {"null", "day", "time"})
    \cup FaultsOf("route", row, Names({"score", "conf", "ts", "cs"}), {"null", "up"})
    \cup FaultsOf("route", row, Names({"is_eligible", "active"}), {"flip"})
    \cup FaultsOf("route", row, Names({"reject"}), {"null", "name"})
    \cup FaultsOf("route", row, {<<"evidence", f>> : f \in {"base", "confidence", "routing"}},
                  {"null", "up", "coarse"})
    \cup FaultsOf("route", row, {<<"evidence", "mode">>}, {"null", "name"})
    \cup FaultsOf("route", row, {<<"evidence", f>> : f \in {"valid", "invalid"}}, {"null", "twice", "empty"})
    \cup FaultsOf("route", row, {<<"evidence", "metric_ids">>}, {"null", "stray"})
    \cup FaultsOf("route", row, {<<"evidence", "metric_ids", s>> : s \in DOMAIN row.evidence.metric_ids},
                  {"next", "bad"})
    \cup FaultsOf("route", row, {<<"evidence", f>> : f \in {"configured", "effective"}}, {"null", "halved"})
    \cup FaultsOf("route", row, {<<"evidence", f, s>> : f \in {"configured", "effective"}, s \in Scopes},
                  {"null", "up", "coarse"})
    \cup FaultsOf("route", row, {<<"evidence", "detail", s>> : s \in DOMAIN row.evidence.metric_ids}, {"null"})
    \cup {<<"route", row.id, <<>>, kind>> : kind \in {"dropped", "doubled"}}

BatchFaults(row) ==
  FaultsOf("batch", row, Names({"kind", "rule", "semantics"}), {"null", "name"})
    \cup FaultsOf("batch", row, Names({"market", "profile", "published"}), {"name"})
    \cup FaultsOf("batch", row, Names({"status"}), {"name", "partial"})
    \cup FaultsOf("batch", row, Names({"publication", "end", "count"}), {"next"})
    \cup FaultsOf("batch", row, Names({"as_of"}), {"null", "day", "time"})
    \cup FaultsOf("batch", row, Names({"active"}), {"flip"})
    \cup FaultsOf("batch", row, Names({"minimum"}), {"null", "up"})
    \cup FaultsOf("batch", row, Names({"config"}), {"bad"})
    \cup FaultsOf("batch", row, {<<"weights", p>> : p \in {"profile", "direct"}}, {"null", "bad", "halved", "idle"})
    \cup FaultsOf("batch", row, {<<"weights", "routing">>}, {"bad"})
    \cup FaultsOf("batch", row, {<<"weights", "profile", s>> : s \in Scopes}, {"null", "minus", "up"})
    \cup FaultsOf("batch", row, Names({"members"}), {"shorter", "empty"})
    \cup {<<"batch", row.id, <<>>, kind>> : kind \in {"dropped", "doubled"}}

CatalogFaults ==
  UNION {FaultsOf("formula", FormulaRow(f), Names({"run", "hash", "fversion", "context", "version"}), {"null", "name"})
           \cup FaultsOf("formula", FormulaRow(f), Names({"detail"}), {"null", "next"})
           \cup FaultsOf("formula", FormulaRow(f), Names({"completed"}), {"null"})
           \cup {<<table, Index[f], <<>>, "dropped">> : table \in {"formula", "detail"}} : f \in {"a"}}

\* The wrong cells of these tables that the audit does not see, and why.
BlindSpot(fault, minimum) ==
  LET row == IF fault[1] # "metric" THEN Null
             ELSE CHOOSE m \in {MetricRow(1, x[1], x[2], minimum) : x \in Factors \X Scopes} : m.id = fault[2]
      route == IF fault[1] # "route" THEN Null
               ELSE CHOOSE r \in {RouteRow(1, f, minimum) : f \in Routed} : r.id = fault[2]
      path == fault[3]
      kind == fault[4]
  IN  \/ \* the figures of a metric that is not valid carry no route
         /\ fault[1] = "metric" /\ row.valid = FALSE /\ path # <<>>
         /\ \/ /\ path[1] \in {"status", "ts", "cs", "conf", "raw", "payload", "direction"}
               /\ <<path, kind>> # <<<<"status">>, "null">>
            \/ path[1] = "valid" /\ (kind = "null" \/ row.status # "success")
         /\ kind # "bad" \/ Len(path) > 1
      \/ \* the eligibility of a metric is held against its own figures only
         /\ fault[1] = "metric" /\ Len(path) = 2 /\ path[1] = "eligibility"
         /\ \/ kind = "twice"
            \/ path[2] \in {"score", "minimum"} /\ row.factor = "d"
            \/ path[2] = "score" /\ kind = "up"
                 /\ row.eligibility.is_eligible = AtLeast(Changed(row.eligibility.score, kind), minimum)
            \/ path[2] = "minimum" /\ kind = "up"
                 /\ row.eligibility.is_eligible = AtLeast(row.eligibility.score, Changed(minimum, kind))
      \/ \* optional cells: the weights are given twice, the date rule may be unknown
         /\ fault[1] = "batch"
         /\ path = <<"semantics">> \/ (Len(path) = 2 /\ path[1] = "weights" /\ kind = "null")
      \/ fault = <<"formula", 1, <<"version">>, "null">>
      \/ \* evidence with fewer digits is compared with fewer digits
         fault[1] = "route" /\ kind = "coarse" /\ HalfUp(Fraction(Get(route, path)), 0) = 1
      \/ \* a route that is missing, when none is ranked after it
         /\ fault[1] = "route"
         /\ \A f \in Routed : RouteRow(1, f, minimum).rank <= route.rank \/ route.rank = 0
         /\ kind = "dropped" \/ path \in {<<"active">>, <<"batch">>, <<"publication">>}
      \/ \* the other valid metric of the pair
         fault = <<"route", 101, <<"metric">>, "next">>
      \/ \* a route that is not admitted is not ranked, and its reason is not read
         /\ fault[1] = "route" /\ ~route.is_eligible
         /\ kind = "doubled" \/ path \in {<<"rank">>, <<"reject">>}
      \/ \* the route of a midpoint that decides is not judged
         /\ fault[1] = "route" /\ fault[2] = 102 /\ minimum = Digits(4, 1)
         /\ path \in {<<"is_eligible">>, <<"reject">>}

Faults ==
  LET minimum == Digits(1, 1)
  IN  BatchFaults(BatchRow(1, 1, minimum))
        \cup UNION {MetricFaults(MetricRow(1, x[1], x[2], minimum)) : x \in Factors \X Scopes}
        \cup UNION {RouteFaults(RouteRow(1, f, minimum)) : f \in Routed}
        \cup CatalogFaults
=============================================================================
