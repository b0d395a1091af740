--------------------------- MODULE FormulaOffsets ---------------------------
(***************************************************************************)
(* The offset oracle of src/service/factor4_calculation_service.py:        *)
(* formula_dependency_offsets answers which lags of the raw series a       *)
(* factor formula reads, or raises FormulaOffsetError.                     *)
(*                                                                         *)
(* A formula is a syntax tree: a record of its kind, its name or operator, *)
(* its number, its children and its keywords.  A method call has its       *)
(* receiver as first child.  Parsing is Python's ast module; letter case   *)
(* is folded.  What may raise FormulaOffsetError is a set with at most one *)
(* element: the answer, or nothing when the code raises.                   *)
(*                                                                         *)
(* The specification grows a formula call by call, as a catalogue does,    *)
(* and the properties compare the oracle with what the formula reads.      *)
(***************************************************************************)
EXTENDS Integers, Sequences, FiniteSets

CONSTANTS
  MaxStaticPeriod, \* _MAX_STATIC_PERIOD, the largest window the oracle takes
  Periods,         \* the windows the formulas of the instance use
  WindowValue,     \* the value `variables` gives the parameter "window"
  MaxDepth         \* how many calls are stacked on one field

VARIABLES
  formula, \* the formula under analysis
  depth    \* how many calls it stacks

vars == <<formula, depth>>

-----------------------------------------------------------------------------
(* Syntax trees.                                                           *)

Node(k, name, num, args, kw) ==
  [k |-> k, name |-> name, num |-> num, args |-> args, kw |-> kw]
Name(n) == Node("name", n, 0, <<>>, {})
Num(i) == Node("int", "", i, <<>>, {})
Str(s) == Node("str", s, 0, <<>>, {})
Neg(e) == Node("neg", "-", 0, <<e>>, {})
Bin(op, l, r) == Node("bin", op, 0, <<l, r>>, {})
Method(receiver, name, args, kw) == Node("method", name, 0, <<receiver>> \o args, kw)
Call(name, args, kw) == Node("call", name, 0, args, kw)

\* The positional arguments of a call.
Positional(e) == IF e.k = "method" THEN Tail(e.args) ELSE e.args

-----------------------------------------------------------------------------
(* The names the oracle knows.                                             *)

PeriodNames == {"window", "period", "periods"}

Windowed == {"atr", "corr", "correlation", "delay", "dpo", "highest", "lowest", "ma",
             "percentile_rank", "rolling_sum", "rolling_vwap", "rolling_zscore", "rsi",
             "vwap", "zscore"}
BareAggregates == {"mean", "std", "sum", "min", "max"}
Pointwise == {"abs", "add", "astype", "clip", "count", "div", "exp", "fillna", "kurtosis",
              "log", "log1p", "median", "minimum", "maximum", "quantile", "rank",
              "replace", "round", "sign", "skew", "skewness", "sqrt", "sub", "tanh",
              "mul", "where"}
KnownFunctions == Windowed \cup BareAggregates \cup Pointwise
                    \cup {"diff", "pct_change", "shift", "rolling"}
Unbounded == {"cummax", "cummean", "cummin", "cumprod", "cumsum", "ewm", "expanding"}
NonFields == {"false", "none", "true", "df", "inf", "min_periods", "nan", "np", "pd",
              "periods", "period", "span", "halflife", "window"}
QualifiedTemporal == Windowed \cup BareAggregates \cup {"diff", "pct_change", "shift",
                       "rolling", "median", "expanding", "ewm"}
NamespaceRoots == {"np", "numpy", "pd", "pandas"}
NamespaceSafe == {"abs", "add", "clip", "div", "exp", "log", "log1p", "maximum", "minimum",
                  "mul", "replace", "round", "sign", "sqrt", "sub", "tanh", "where"}

\* _FUNCTION_KEYWORDS: the keywords each function takes.
FunctionKeywords(op) ==
  CASE op = "delay" -> PeriodNames
    [] op = "percentile_rank" -> PeriodNames \cup {"min_periods", "method"}
    [] op \in Windowed \ {"delay", "percentile_rank"} -> PeriodNames \cup {"min_periods"}
    [] op = "std" -> PeriodNames \cup {"min_periods", "axis", "skipna", "numeric_only", "ddof"}
    [] op \in BareAggregates \ {"std"} ->
         PeriodNames \cup {"min_periods", "axis", "skipna", "numeric_only"}
    [] op = "rolling" -> PeriodNames \cup {"min_periods", "center", "win_type", "on", "axis",
                                           "closed", "step", "method"}
    [] op = "diff" -> {"periods", "axis"}
    [] op = "pct_change" -> {"periods", "fill_method", "limit", "freq"}
    [] op = "shift" -> {"periods", "axis", "fill_value"}
    [] op \in {"add", "div", "mul", "sub"} -> {"fill_value", "axis", "level"}
    [] op = "astype" -> {"dtype", "copy", "errors"}
    [] op = "clip" -> {"lower", "upper", "axis"}
    [] op = "count" -> {"axis", "numeric_only"}
    [] op = "fillna" -> {"value", "method", "axis", "inplace", "limit", "downcast"}
    [] op \in {"kurtosis", "median", "skew", "skewness"} -> {"axis", "skipna", "numeric_only"}
    [] op = "quantile" -> {"q", "interpolation", "numeric_only"}
    [] op = "rank" -> {"axis", "method", "numeric_only", "na_option", "ascending", "pct"}
    [] op = "replace" -> {"to_replace", "value", "inplace", "limit", "method", "regex"}
    [] op = "round" -> {"decimals"}
    [] op = "where" -> {"cond", "condition", "x", "y", "other", "inplace", "axis", "level"}
    [] OTHER -> {}

IntegerKeywords == PeriodNames \cup {"min_periods", "span", "halflife", "ddof", "limit", "decimals"}
NumberKeywords == {"lower", "upper", "q"}
DataKeywords == {"cond", "condition", "x", "y", "other", "downcast"}

-----------------------------------------------------------------------------
(* Static arguments.  `bound` is the argument `variables`: a function from *)
(* parameter names to integers.                                            *)

Arith(op, l, r) ==
  CASE op = "+" -> {l + r}
    [] op = "-" -> {l - r}
    [] op = "*" -> {l * r}
    [] op = "//" /\ r # 0 -> {l \div r}
    [] op = "/" /\ r # 0 /\ l % r = 0 -> {l \div r}
    [] op = "%" /\ r # 0 -> {l % r}
    [] OTHER -> {}

RECURSIVE StaticInt(_, _)
StaticInt(e, bound) ==
  {v \in CASE e.k = "name" -> IF e.name \in DOMAIN bound THEN {bound[e.name]} ELSE {}
           [] e.k = "int" -> {e.num}
           [] e.k = "neg" -> {-i : i \in StaticInt(e.args[1], bound)}
           [] e.k = "bin" -> UNION {Arith(e.name, l, r) : l \in StaticInt(e.args[1], bound),
                                                          r \in StaticInt(e.args[2], bound)}
           [] OTHER -> {} : v \in 0..MaxStaticPeriod}

RECURSIVE StaticNumber(_)
StaticNumber(e) == e.k = "int" \/ (e.k = "neg" /\ StaticNumber(e.args[1]))

StaticLiteral(e) == e.k \in {"int", "str"} \/ (e.k = "name" /\ e.name \in {"nan", "inf"})

ValidKeywords(e, bound) ==
  \A kw \in e.kw :
    /\ kw[1] \in FunctionKeywords(e.name)
    /\ kw[1] \in IntegerKeywords => StaticInt(kw[2], bound) # {}
    /\ kw[1] \in NumberKeywords => StaticNumber(kw[2])
    /\ kw[1] \notin IntegerKeywords \cup NumberKeywords \cup DataKeywords => StaticLiteral(kw[2])

\* Mutant: a call that names no period is given the period 1.
CallPeriodGuessed(e, position, names, default, bound) ==
  LET given == {kw \in e.kw : kw[1] \in names}
                 \cup (IF Len(Positional(e)) > position
                       THEN {<<"positional", Positional(e)[position + 1]>>} ELSE {})
  IN  IF given = {} THEN {1}
      ELSE IF Cardinality(given) > 1 THEN {}
      ELSE UNION {StaticInt(g[2], bound) : g \in given}

\* The one period of a call: its positional argument or one keyword.
CallPeriod(e, position, names, default, bound) ==
  LET given == {kw \in e.kw : kw[1] \in names}
                 \cup (IF Len(Positional(e)) > position
                       THEN {<<"positional", Positional(e)[position + 1]>>} ELSE {})
  IN  IF given = {} THEN default
      ELSE IF Cardinality(given) > 1 THEN {}
      ELSE UNION {StaticInt(g[2], bound) : g \in given}

-----------------------------------------------------------------------------
(* Offsets of the calls.                                                   *)

\* Mutant: the window counts its period instead of ending one bar before it.
OffsetWindowOneMore(bases, periods) ==
  {{o + lag : o \in b, lag \in 0..p} : b \in bases \ {{}}, p \in periods \ {0}}

OffsetWindow(bases, periods) ==
  {{o + lag : o \in b, lag \in 0..(p - 1)} : b \in bases \ {{}}, p \in periods \ {0}}

TrailingWindow(e, period, bound) ==
  \A kw \in e.kw :
    \/ kw[1] \in PeriodNames
    \/ kw[1] = "min_periods" /\ \E v \in StaticInt(kw[2], bound) : v <= period

\* A call on the receiver x.rolling(...).
OnRolling(e) == e.k = "method" /\ e.args[1].k = "method" /\ e.args[1].name = "rolling"

FiniteRollingCorr(e) == OnRolling(e) /\ e.name = "corr"

RECURSIVE AttributeRoot(_)
AttributeRoot(e) ==
  CASE e.k = "attr" -> AttributeRoot(e.args[1])
    [] e.k = "name" -> e.name
    [] OTHER -> ""

DerivedAggregate(e) ==
  /\ e.name \in {"max", "mean", "median", "min", "std", "sum"}
  /\ OnRolling(e)
  /\ Positional(e) = <<>>
  /\ \A kw \in e.kw : kw[1] = "numeric_only" \/ (e.name = "std" /\ kw[1] = "ddof")

QualifiedCall(e) ==
  e.k = "method" =>
    \/ FiniteRollingCorr(e)
    \/ e.name \in {"diff", "pct_change", "rolling", "shift"}
         /\ AttributeRoot(e.args[1]) \notin NamespaceRoots
    \/ e.name \in QualifiedTemporal /\ DerivedAggregate(e)
    \/ e.name \notin QualifiedTemporal
         /\ (AttributeRoot(e.args[1]) \in NamespaceRoots => e.name \in NamespaceSafe)

\* How many data arguments a windowed function takes, 0 when the call is refused.
DataArguments(e, bound) ==
  LET n == Len(e.args)
      keyword == \E kw \in e.kw : kw[1] \in PeriodNames
  IN  IF e.name \in {"vwap", "rolling_vwap"}
      THEN CASE keyword -> IF n \in 1..2 THEN n ELSE 0
             [] ~keyword /\ n = 2 -> IF StaticInt(e.args[2], bound) = {} THEN 0 ELSE 1
             [] ~keyword /\ n = 3 -> 2
             [] OTHER -> 0
      ELSE LET data == CASE e.name \in {"corr", "correlation"} -> 2
                         [] e.name = "atr" -> 3
                         [] OTHER -> 1
           IN  IF n \in data..(data + 1) THEN data ELSE 0

\* Every way to take one answer from each of the arguments, united.
UnitedOver(answers) == 
  IF {} \in answers THEN {} ELSE {UNION UNION answers}

RECURSIVE Offsets(_, _)

WindowedOffsets(e, bound) ==
  LET only == IF e.name \in {"vwap", "rolling_vwap"} /\ Len(e.args) = 1
              THEN StaticInt(e.args[1], bound) ELSE {}
      data == DataArguments(e, bound)
  IN  IF only # {}
      THEN IF \E kw \in e.kw : kw[1] \in PeriodNames THEN {} ELSE {0..(p - 1) : p \in only}
      ELSE IF data = 0 THEN {}
      ELSE OffsetWindow(UnitedOver({Offsets(e.args[i], bound) : i \in 1..data}),
                        CallPeriod(e, data, PeriodNames, {}, bound))

CorrMethodOffsets(e, base, bound) ==
  IF e.kw # {} \/ Len(Positional(e)) # 1 THEN {}
  ELSE {b \cup w : b \in base,
                   w \in OffsetWindow(Offsets(Positional(e)[1], bound),
                                      CallPeriod(e.args[1], 0, PeriodNames, {}, bound))}

\* The calls that read only the present bar of their arguments.
PointwiseOffsets(e, base, bound) ==
  UnitedOver({base} \cup {Offsets(Positional(e)[i], bound) : i \in 1..Len(Positional(e))}
                    \cup {Offsets(kw[2], bound) : kw \in {k \in e.kw : k[1] \in DataKeywords}})

CallOffsets(e, bound) ==
  LET base == IF e.args = <<>> THEN {{}} ELSE Offsets(e.args[1], bound)
      at == IF e.k = "method" THEN 0 ELSE 1
      fits == Len(Positional(e)) <= at + 1
      lagged == CallPeriod(e, at, {"periods"}, {1}, bound)
  IN  CASE base = {} \/ e.name \in Unbounded \/ ~QualifiedCall(e)
             \/ e.name \notin KnownFunctions \/ ~ValidKeywords(e, bound) -> {}
        [] e.name \in {"diff", "pct_change"} ->
             IF fits THEN {b \cup {o + p : o \in b} : b \in base, p \in lagged} ELSE {}
        [] e.name = "shift" ->
             IF fits THEN {{o + p : o \in b} : b \in base, p \in lagged} ELSE {}
        [] e.name = "rolling" ->
             LET windows == CallPeriod(e, at, PeriodNames, {}, bound)
             IN  IF fits THEN OffsetWindow(base, {p \in windows : TrailingWindow(e, p, bound)})
                 ELSE {}
        [] FiniteRollingCorr(e) -> CorrMethodOffsets(e, base, bound)
        [] e.k = "call" /\ e.name \in BareAggregates ->
             IF fits THEN OffsetWindow(base, CallPeriod(e, at, PeriodNames, {}, bound)) ELSE {}
        [] e.k = "call" /\ e.name \in Windowed -> WindowedOffsets(e, bound)
        [] OTHER -> PointwiseOffsets(e, base, bound)

\* _dependency_offsets: {} for FormulaOffsetError, else the set of its lags.
Offsets(e, bound) ==
  CASE e.k = "name" -> IF e.name \in NonFields \cup KnownFunctions THEN {{}} ELSE {{0}}
    [] e.k \in {"int", "str"} -> {{}}
    [] e.k \in {"neg", "bin", "cmp", "attr"} ->
         UnitedOver({Offsets(e.args[i], bound) : i \in 1..Len(e.args)})
    [] e.k \in {"method", "call"} -> CallOffsets(e, bound)
    [] OTHER -> {}

-----------------------------------------------------------------------------
(* The canonical form formulas are compared in.                            *)

\* Mutant: a name is replaced by another parameter's value.
RECURSIVE NormalizedFirst(_, _)
NormalizedFirst(e, bound) ==
  IF e.k = "name" /\ e.name \in DOMAIN bound
  THEN Num(bound[e.name] + 1)
  ELSE [e EXCEPT !.args = [i \in DOMAIN e.args |-> NormalizedFirst(e.args[i], bound)],
                 !.kw = {<<kw[1], NormalizedFirst(kw[2], bound)>> : kw \in e.kw}]

\* _FormulaExpressionNormalizer: bound names become constants and static
\* integer arithmetic is folded, innermost first.
RECURSIVE Normalized(_, _)
Normalized(e, bound) ==
  LET inner == [e EXCEPT !.args = [i \in DOMAIN e.args |-> Normalized(e.args[i], bound)],
                         !.kw = {<<kw[1], Normalized(kw[2], bound)>> : kw \in e.kw}]
      unbound == [n \in {} |-> 0]
  IN  CASE e.k = "name" /\ e.name \in DOMAIN bound -> Num(bound[e.name])
        [] e.k = "bin" /\ StaticInt(inner, unbound) # {} ->
             Num(CHOOSE v \in StaticInt(inner, unbound) : TRUE)
        [] OTHER -> inner

\* _canonical_expression: nothing for a formula the oracle refuses.
Canonical(e, bound) == IF Offsets(e, bound) = {} THEN {} ELSE {Normalized(e, bound)}

-----------------------------------------------------------------------------
(* check_formula_integrity: a rolling or VWAP call without a window.       *)

RECURSIVE Calls(_)
Calls(e) == (IF e.k \in {"method", "call"} THEN {e} ELSE {})
              \cup UNION {Calls(e.args[i]) : i \in 1..Len(e.args)}
              \cup UNION {Calls(kw[2]) : kw \in e.kw}

WindowMissing(e) ==
  \E c \in Calls(e) :
    /\ c.name \in {"rolling", "vwap", "rolling_vwap"}
    /\ ~\E kw \in c.kw : kw[1] \in PeriodNames
    /\ \/ Positional(c) = <<>>
       \/ /\ c.name # "rolling"
          /\ Len(Positional(c)) = 2
          /\ Positional(c)[2].k \notin {"int", "str"}

-----------------------------------------------------------------------------
(* What a formula reads: the bars its value at bar t is computed from.     *)

RECURSIVE Value(_, _)
Value(e, bound) ==
  CASE e.k = "name" -> bound[e.name]
    [] e.k = "int" -> e.num
    [] e.k = "neg" -> -Value(e.args[1], bound)
    [] e.k = "bin" -> CHOOSE v \in Arith(e.name, Value(e.args[1], bound), Value(e.args[2], bound)) : TRUE

\* Every period a call with n data arguments is given, and 1 bar if none.
GivenPeriods(e, n, bound) ==
  LET given == {Value(kw[2], bound) : kw \in {k \in e.kw : k[1] \in PeriodNames}}
                 \cup {Value(e.args[i], bound) : i \in (n + 1)..Len(e.args)}
  IN  IF given = {} THEN {1} ELSE given

DataCount(e) ==
  CASE e.name \in {"corr", "correlation"} /\ e.k = "call" -> 2
    [] e.name = "vwap" -> IF e.kw = {} THEN Len(e.args) - 1 ELSE Len(e.args)
    [] OTHER -> 1

\* dpo_reference_values: the moving average over the window and the price
\* half a window and one bar ago.
DpoShift(window) == window \div 2 + 1

RECURSIVE Reads(_, _, _)

\* The bars the first n arguments read over the last p bars.
ReadsOver(e, n, p, t, bound) ==
  UNION {Reads(e.args[i], t - j, bound) : i \in 1..n, j \in 0..(p - 1)}

CallReads(e, t, bound) ==
  LET n == DataCount(e)
      ps == GivenPeriods(e, n, bound)
  IN  CASE e.name \in {"diff", "pct_change"} ->
             UNION {Reads(e.args[1], t, bound) \cup Reads(e.args[1], t - p, bound) : p \in ps}
        [] e.name \in {"shift", "delay"} -> UNION {Reads(e.args[1], t - p, bound) : p \in ps}
        [] e.name = "dpo" -> UNION {ReadsOver(e, 1, p, t, bound)
                                      \cup Reads(e.args[1], t - DpoShift(p), bound) : p \in ps}
        [] e.name = "vwap" /\ n = 0 -> UNION {(t - p + 1)..t : p \in ps}
        [] FiniteRollingCorr(e) ->
             Reads(e.args[1], t, bound)
               \cup UNION {Reads(e.args[2], t - j, bound) :
                            j \in UNION {0..(p - 1) : p \in GivenPeriods(e.args[1], 1, bound)}}
        [] e.name = "rolling" \/ (e.k = "call" /\ e.name \in Windowed \cup BareAggregates)
             \/ (e.k = "call" /\ e.name = "median" /\ Len(e.args) = 2) ->
             UNION {ReadsOver(e, n, p, t, bound) : p \in ps}
        [] OTHER -> ReadsOver(e, Len(e.args), 1, t, bound)
                      \cup UNION {Reads(kw[2], t, bound) : kw \in e.kw}

Reads(e, t, bound) ==
  CASE e.k = "name" -> IF e.name \in NonFields THEN {} ELSE {t}
    [] e.k \in {"int", "str"} -> {}
    [] e.k \in {"method", "call"} -> CallReads(e, t, bound)
    [] OTHER -> ReadsOver(e, Len(e.args), 1, t, bound)

Unbound == [n \in {} |-> 0]
Binding == [n \in {"window"} |-> WindowValue]

\* The formulas the oracle misreads: a delay counts as a window of the bars
\* after the one it reads, a functional median as a point-in-time call, and a
\* DPO over one or two bars reads a bar beyond its window.
Misread(e, bound) ==
  \E c \in Calls(e) :
    /\ c.k = "call"
    /\ \/ c.name = "delay"
       \/ c.name = "median" /\ Len(c.args) = 2
       \/ c.name = "dpo" /\ \E p \in GivenPeriods(c, 1, bound) : DpoShift(p) > p - 1

-----------------------------------------------------------------------------
(* A catalogue formula, grown one call at a time.                          *)

PeriodArguments == {Num(p) : p \in Periods} \cup
                     {Name("window"), Name("n"), Neg(Num(1)), Bin("+", Num(1), Num(2))}

Others == {Name("volume"), Method(Name("volume"), "shift", <<Num(1)>>, {})}

Chained(e) ==
  {Method(e, m, <<p>>, {}) : m \in {"shift", "diff"}, p \in PeriodArguments}
    \cup {Method(e, "pct_change", <<>>, {}), Method(e, "diff", <<>>, {<<"periods", Num(2)>>}),
          Method(e, "shift", <<Num(1)>>, {<<"periods", Num(2)>>}),
          Method(e, "clip", <<>>, {<<"lower", Neg(Num(1))>>}),
          Method(e, "fillna", <<>>, {<<"value", Name("volume")>>}),
          Method(e, "cumsum", <<>>, {}), Method(e, "mean", <<>>, {<<"window", Num(2)>>})}

Rolled(e) ==
  {Method(Method(e, "rolling", <<p>>, kw), agg, <<>>, {}) :
     p \in PeriodArguments, agg \in {"mean", "median"},
     kw \in {{}, {<<"min_periods", Num(2)>>}, {<<"center", Num(1)>>}}}
    \cup {Method(Method(e, "rolling", <<p>>, {}), "corr", <<other>>, {}) :
             p \in PeriodArguments, other \in Others}
    \cup {Method(Method(e, "rolling", <<>>, {}), "mean", <<>>, {}),
          Method(Method(e, "rolling", <<Num(2)>>, {}), "std", <<>>, {<<"ddof", Num(0)>>}),
          Method(Method(e, "rolling", <<Num(2)>>, {}), "mean", <<>>, {<<"axis", Num(1)>>})}

Called(e) ==
  {Call(op, <<e, p>>, {}) : op \in {"mean", "ma", "delay", "dpo", "vwap", "median"},
                            p \in PeriodArguments}
    \cup {Call("corr", <<e, other, p>>, {}) : other \in Others, p \in PeriodArguments}
    \cup {Call("vwap", <<e, Name("volume")>>, {<<"window", p>>}) : p \in PeriodArguments}
    \cup {Call("vwap", <<p>>, {}) : p \in PeriodArguments}
    \cup {Call("mean", <<e>>, {}), Call("mean", <<e>>, {<<"window", Num(2)>>}),
          Call("mean", <<e>>, {<<"window", Num(2)>>, <<"periods", Num(3)>>}),
          Call("ma", <<e, Num(2)>>, {<<"window", Num(3)>>}),
          Call("vwap", <<e>>, {}), Call("vwap", <<e, Name("volume")>>, {}),
          Call("unheard_of", <<e>>, {})}

Combined(e) ==
  {Bin("-", e, Name("close")), Neg(e), Node("if", "", 0, <<e, e, e>>, {}),
   Call("where", <<Node("cmp", ">", 0, <<e, Num(0)>>, {}), e, Name("window")>>, {}),
   Method(Name("np"), "log", <<e>>, {}), Method(Name("np"), "mean", <<e, Num(2)>>, {}),
   Bin("*", e, Bin("+", Num(1), Name("window")))}

Grow(forms) == depth < MaxDepth /\ formula' \in forms /\ depth' = depth + 1

Chain == Grow(Chained(formula))
Roll == Grow(Rolled(formula))
ApplyFunction == Grow(Called(formula))
Combine == Grow(Combined(formula))
Terminated == depth = MaxDepth /\ UNCHANGED vars

Init == formula \in {Name("close"), Name("window")} /\ depth = 0
Next == Chain \/ Roll \/ ApplyFunction \/ Combine \/ Terminated
Spec == Init /\ [][Next]_vars

-----------------------------------------------------------------------------
(* Properties.                                                             *)

\* For every formula the oracle answers, with the parameter bound, the lags
\* are exactly those of the bars the formula reads: none is missed, none is
\* added and none lies in the future.  Misread names the formulas that
\* _dependency_offsets gets wrong.
OffsetsAreExact ==
  \A lags \in Offsets(formula, Binding) :
    /\ lags \subseteq Nat
    /\ ~Misread(formula, Binding) => lags = {-bar : bar \in Reads(formula, 0, Binding)}

\* The canonical form two formulas are compared in reads what the formula
\* reads, without the binding too, and binding a parameter never changes the
\* answer of a formula that did not need it: values are never guessed.
CanonicalReadsAlike ==
  /\ \A e \in Canonical(formula, Binding) : Offsets(e, Unbound) = Offsets(formula, Binding)
  /\ Offsets(formula, Unbound) # {} => Offsets(formula, Binding) = Offsets(formula, Unbound)

\* A formula that the integrity check reports for a missing window is one the
\* oracle cannot answer either, as long as no variable of it is bound, except
\* where the window of a VWAP is written as arithmetic, which the integrity
\* check takes for no window at all.
MissingWindowIsUnresolved ==
  WindowMissing(formula) =>
    \/ Offsets(formula, Unbound) = {}
    \/ \E c \in Calls(formula) : c.name = "vwap" /\ Len(c.args) = 2 /\ c.args[2].k = "bin"

=============================================================================
