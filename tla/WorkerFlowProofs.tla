--------------------------- MODULE WorkerFlowProofs ---------------------------
(***************************************************************************)
(* WorkerFlow: what the client's checks guarantee of the rows they accept  *)
(* (AcceptedIsOneChain), that a report's components can be matched to the  *)
(* rows in one way only (MatchingIsForced), that a backend without a fault *)
(* is never blamed (SoundIsAccepted), and the types.                       *)
(*                                                                         *)
(* Most of AcceptedIsOneChain is what the last check compared.  What is    *)
(* not: links an earlier check established and no later call may disturb,  *)
(* and the history, whose neighbours are compared through objects handed   *)
(* from call to call.  The invariant ChainInv carries both over every      *)
(* call, replay and undone state.  SoundIsAccepted has its own, CleanInv.  *)
(***************************************************************************)
EXTENDS WorkerFlow, FiniteSetTheorems, TLAPS

-----------------------------------------------------------------------------
(* The matching of a report's components.                                  *)

\* The loop over a report of two components makes two turns: Taken unfolds into
\* two uses of TakeNext.
LEMMA TakenOfTwo ==
  ASSUME NEW report, NEW rows, NEW codes, Len(report) = 2
  PROVE  Taken(report, rows, codes) =
           TakeNext(TakeNext(<<>>, 1, report, rows, codes), 2, report, rows, codes)
  <1> DEFINE F(g, i) == IF i = 0 THEN <<>> ELSE TakeNext(g[i - 1], i, report, rows, codes)
             t1 == TakeNext(<<>>, 1, report, rows, codes)
             t2 == TakeNext(t1, 2, report, rows, codes)
             g0 == [i \in 0..2 |-> IF i = 0 THEN <<>> ELSE IF i = 1 THEN t1 ELSE t2]
             taken == CHOOSE g : g = [i \in 0..2 |-> F(g, i)]
  <1>0. 0..2 = {0, 1, 2} /\ 1 - 1 = 0 /\ 2 - 1 = 1 /\ 1 # 0 /\ 2 # 0
    OBVIOUS
  <1>1. g0 = [i \in 0..2 |-> F(g0, i)]
    <2>1. g0[0] = <<>> /\ g0[1] = t1
      BY <1>0
    <2>2. F(g0, 0) = <<>>
      OBVIOUS
    <2>3. F(g0, 1) = t1
      BY <1>0, <2>1, Zenon
    <2>4. F(g0, 2) = t2
      BY <1>0, <2>1, Zenon
    <2> HIDE DEF F, t1, t2
    <2> QED BY <1>0, <2>2, <2>3, <2>4
  <1>2. taken = [i \in 0..2 |-> F(taken, i)]
    BY <1>1, Zenon
  <1>3. Taken(report, rows, codes) = taken[2]
    BY Zenon DEF Taken
  <1>4. taken[0] = <<>> /\ taken[1] = F(taken, 1) /\ taken[2] = F(taken, 2)
    <2> HIDE DEF taken
    <2>1. \A i \in 0..2 : taken[i] = F(taken, i)
      <3> HIDE DEF F
      <3> QED BY <1>2
    <2>2. F(taken, 0) = <<>>
      OBVIOUS
    <2> HIDE DEF F
    <2> QED BY <2>1, <2>2, <1>0
  <1>5. F(taken, 1) = t1 /\ F(taken, 2) = TakeNext(taken[1], 2, report, rows, codes)
    BY <1>0, <1>4, Zenon
  <1> QED BY <1>3, <1>4, <1>5, Zenon

\* A set of row numbers with one element is the singleton of the row that
\* TakeNext appends.
LEMMA OneCandidate ==
  ASSUME NEW S, S \subseteq {1, 2}, Cardinality(S) = 1
  PROVE  S = {CHOOSE r \in S : TRUE}
  <1>1. IsFiniteSet(S)
    <2>1. IsFiniteSet(1..2)
      BY FS_Interval, 1 \in Int, 2 \in Int
    <2>2. S \subseteq 1..2
      OBVIOUS
    <2> QED BY <2>1, <2>2, FS_Subset
  <1>2. PICK x : S = {x}
    BY <1>1, FS_Singleton
  <1> QED BY <1>2

\* The numbers of the two component rows.
Two == {1, 2}

\* One turn of the loop either takes nothing or appends the only candidate.
LEMMA TakeNextCases ==
  ASSUME NEW before, NEW i, NEW report, NEW rows, NEW codes,
         DOMAIN rows = Two
  PROVE  \/ TakeNext(before, i, report, rows, codes) = before
         \/ \E r \in Two : /\ Len(before) = i - 1
                              /\ Candidates(before, i, report, rows, codes) = {r}
                              /\ TakeNext(before, i, report, rows, codes) = Append(before, r)
  <1> DEFINE candidates == Candidates(before, i, report, rows, codes)
             after == TakeNext(before, i, report, rows, codes)
  <1>1. candidates \subseteq Two
    BY DEF Candidates
  <1>2. CASE Len(before) = i - 1 /\ Cardinality(candidates) = 1
    <2> DEFINE r == CHOOSE x \in candidates : TRUE
    <2>1. candidates = {r}
      <3> HIDE DEF candidates
      <3> QED BY <1>1, <1>2, OneCandidate DEF Two
    <2>2. after = Append(before, r)
      BY <1>2 DEF TakeNext
    <2>3. r \in Two
      <3> HIDE DEF r, candidates
      <3> QED BY <1>1, <2>1
    <2>4. \E x \in Two : candidates = {x} /\ after = Append(before, x)
      <3> HIDE DEF r, candidates, after
      <3> QED BY <2>1, <2>2, <2>3
    <2> QED BY <1>2, <2>4, Zenon
  <1>3. CASE ~(Len(before) = i - 1 /\ Cardinality(candidates) = 1)
    BY <1>3 DEF TakeNext
  <1> QED BY <1>2, <1>3

\* What Append leaves and adds, for a sequence over a known set.
LEMMA AppendFacts ==
  ASSUME NEW S, NEW t \in Seq(S), NEW r \in S
  PROVE  /\ \A i \in 1..Len(t) : Append(t, r)[i] = t[i]
         /\ Append(t, r)[Len(t) + 1] = r
         /\ Append(t, r) \in Seq(S) /\ Len(Append(t, r)) = Len(t) + 1
  OBVIOUS

\* A sequence is a function from its positions.
LEMMA SeqIsFunction ==
  ASSUME NEW S, NEW t \in Seq(S)
  PROVE  t \in [1..Len(t) -> S]
  OBVIOUS

\* The second row taken is put behind the first.
LEMMA TwoTaken ==
  ASSUME NEW S, NEW t \in Seq(S), Len(t) = 1, NEW r \in S
  PROVE  Append(t, r) \in [1..2 -> S] /\ Append(t, r)[1] = t[1] /\ Append(t, r)[2] = r
  <1> DEFINE a == Append(t, r)
  <1>1. /\ \A i \in 1..Len(t) : a[i] = t[i]
        /\ a[Len(t) + 1] = r
        /\ a \in Seq(S) /\ Len(a) = Len(t) + 1
    BY AppendFacts, Zenon
  <1> HIDE DEF a
  <1>2. a \in [1..Len(a) -> S]
    BY <1>1, SeqIsFunction, Zenon
  <1> QED BY <1>1, <1>2 DEF a

\* When the greedy loop has taken a row for both report components, it has found
\* the only assignment of components to rows the names allow: the first
\* component had one candidate among both rows, so no other assignment could have
\* started differently.
LEMMA GreedyIsForced ==
  ASSUME NEW report, NEW rows, NEW codes, Len(report) = 2, DOMAIN rows = Two,
         Len(Taken(report, rows, codes)) = 2
  PROVE  {f \in Assignments : \A i \in 1..2 : Names(report[i], rows[f[i]], codes)}
           = {Taken(report, rows, codes)}
  <1> DEFINE t1 == TakeNext(<<>>, 1, report, rows, codes)
             t2 == TakeNext(t1, 2, report, rows, codes)
             N(i, r) == Names(report[i], rows[r], codes)
             possible == {f \in Assignments : \A i \in 1..2 : N(i, f[i])}
  <1>1. Taken(report, rows, codes) = t2 /\ Len(t2) = 2
    BY TakenOfTwo
  <1>2. /\ <<>> \in Seq(Two) /\ Len(<<>>) = 0
        /\ \A r \in Two : /\ Append(<<>>, r) = <<r>>
                             /\ <<r>> \in Seq(Two) /\ Len(<<r>>) = 1
    OBVIOUS
  <1>3. \/ t1 = <<>>
        \/ \E r \in Two : Candidates(<<>>, 1, report, rows, codes) = {r} /\ t1 = <<r>>
    <2>1. \/ t1 = <<>>
          \/ \E r \in Two : /\ Len(<<>>) = 1 - 1
                            /\ Candidates(<<>>, 1, report, rows, codes) = {r} /\ t1 = Append(<<>>, r)
      <3> DEFINE none == <<>>
      <3> HIDE DEF none
      <3>1. \/ TakeNext(none, 1, report, rows, codes) = none
            \/ \E r \in Two : /\ Len(none) = 1 - 1
                              /\ Candidates(none, 1, report, rows, codes) = {r}
                              /\ TakeNext(none, 1, report, rows, codes) = Append(none, r)
        BY TakeNextCases
      <3> QED BY <3>1, Zenon DEF none
    <2> HIDE DEF t1
    <2> QED BY <1>2, <2>1, Zenon
  <1>4. t1 \in Seq(Two) /\ Len(t1) \in {0, 1}
    <2> HIDE DEF t1
    <2> QED BY <1>2, <1>3, Zenon
  <1>5. \/ t2 = t1
        \/ \E r \in Two : /\ Len(t1) = 2 - 1
                             /\ Candidates(t1, 2, report, rows, codes) = {r} /\ t2 = Append(t1, r)
    <2> HIDE DEF t1
    <2> QED BY <1>4, TakeNextCases
  <1>6. PICK r2 \in Two : /\ Len(t1) = 1
                             /\ Candidates(t1, 2, report, rows, codes) = {r2} /\ t2 = Append(t1, r2)
    <2> HIDE DEF t1, t2
    <2>1. t2 # t1 /\ 2 - 1 = 1
      BY <1>1, <1>4
    <2> QED BY <1>5, <2>1, Zenon
  <1>7. PICK r1 \in Two : Candidates(<<>>, 1, report, rows, codes) = {r1} /\ t1 = <<r1>>
    <2> HIDE DEF t1
    <2>1. ASSUME t1 = <<>> PROVE FALSE
      BY <1>2, <1>6, <2>1
    <2> QED BY <2>1, <1>3, Zenon
  <1>8. t1 = <<r1>> /\ t2 \in [1..2 -> 1..2] /\ t2[1] = r1 /\ t2[2] = r2
    <2> HIDE DEF t1, t2
    <2>1. t1 \in Seq(Two) /\ t1[1] = r1
      BY <1>4, <1>7
    <2>2. t2 \in [1..2 -> Two] /\ t2[1] = t1[1] /\ t2[2] = r2
      BY <1>6, <2>1, TwoTaken
    <2>3. 1..2 = Two
      BY DEF Two
    <2> QED BY <1>7, <2>1, <2>2, <2>3, Zenon
  <1>9. \A r \in Two : N(1, r) <=> r = r1
    <2> HIDE DEF t1, t2
    <2> QED BY <1>7 DEF Candidates
  <1>10. \A r \in Two : r # r1 /\ N(2, r) <=> r = r2
    <2>1. {<<r1>>[j] : j \in DOMAIN <<r1>>} = {r1}
      OBVIOUS
    <2>2. {r \in Two \ {r1} : N(2, r)} = {r2}
      <3> HIDE DEF t1, t2
      <3> QED BY <1>6, <1>8, <2>1 DEF Candidates
    <2> HIDE DEF N
    <2> QED BY <2>2
  <1>11. t2 \in possible
    <2> HIDE DEF N, t1, t2
    <2> QED BY <1>8, <1>9, <1>10 DEF Assignments
  <1>12. ASSUME NEW f \in possible PROVE f = t2
    <2>1. f \in [1..2 -> 1..2] /\ f[1] # f[2] /\ N(1, f[1]) /\ N(2, f[2])
      BY <1>12 DEF Assignments
    <2>2. f[1] = r1 /\ f[2] = r2
      <3> HIDE DEF N
      <3> QED BY <2>1, <1>9, <1>10 DEF Two
    <2> HIDE DEF N, t1, t2
    <2> QED BY <2>1, <2>2, <1>8
  <1> HIDE DEF possible, t1, t2
  <1>13. possible = {t2}
    BY <1>11, <1>12
  <1> QED BY <1>1, <1>13 DEF possible

-----------------------------------------------------------------------------
(* The invariant.                                                          *)

\* The tables of cur, and the columns of the rows the proof follows.
Parts == {"answer", "form", "pool", "m1", "m2", "a1", "version", "c1", "c2", "experiment", "feedback",
          "sub", "detail", "validity", "mapping", "n_sub", "n_detail", "n_validity", "n_mapping"}
FormFields == {"id", "session", "form_no", "status", "pool", "run", "version", "experiment", "json", "spec"}
PoolFields == {"id", "form", "filter", "hash", "status"}
VersionFields == {"id", "combo", "family", "pool", "hash", "status", "experiment", "initial_form", "method"}
ExperimentFields == {"id", "external", "combo", "valid", "reason", "payload"}
FeedbackFields == {"id", "form", "round", "status", "source_version", "source_experiment", "source_run",
                   "text", "next_version", "next_run", "next_experiment"}

\* Stages at which the current version has its experiment, or is there at all.
HasExperiment == stage \in {"experiment", "feedback", "register"} \/ (stage = "claim" /\ round > 0)
HasVersion == stage = "version" \/ HasExperiment
\* The answer of call s has been written and not been checked.  Fresh: the next
\* version's first answer, for which the source has just moved to past.
Unread(s) == stage = s /\ pc = "check"
Fresh == Unread("version") /\ ~replayed

\* Control: which stages, rounds and histories go together.
Control ==
    /\ pc \in {"ready", "check", "done"} /\ stage \in Stages /\ round \in 0..MaxRounds
    /\ replayed \in BOOLEAN /\ cleared \in BOOLEAN /\ refreshed \in BOOLEAN /\ fault \in BOOLEAN
    /\ outcome \in Outcomes \cup {Null}
    /\ (pc = "done") = (outcome # Null)
    /\ stage = "none" => pc = "ready"
    /\ stage \in {"none", "submit", "order"} => round = 0
    /\ stage = "feedback" => round > 0
    /\ Len(past) = IF stage \in {"version", "experiment", "register"} \/ round = 0 THEN round ELSE round - 1
    /\ Len(pastFb) = IF round = 0 THEN 0 ELSE round - 1
    /\ DOMAIN client = {"task", "claim", "version", "experiment", "registration"}

\* The rows that exist have their columns, and the form keeps its id.
Shape ==
    /\ DOMAIN cur = Parts
    /\ stage # "none" => /\ DOMAIN cur.form = FormFields /\ cur.form.id = 1
                         /\ DOMAIN cur.pool = PoolFields
    /\ HasVersion => DOMAIN cur.version = VersionFields
    /\ HasExperiment => DOMAIN cur.experiment = ExperimentFields
    /\ round > 0 => DOMAIN cur.feedback = FeedbackFields
    /\ stage = "register" => "factor" \in DOMAIN cur.n_detail

\* What the client has compared so far and later calls do not disturb: the form
\* tracked for cleanup, form and pool of one task, the components' version, the
\* combination carried from the claim to the version and on to the experiment.
Links ==
    /\ Unread("submit") => tracked = {cur.answer.form} \ {Null}
    /\ stage # "none" /\ ~Unread("submit") => tracked = {1}
    /\ stage \in {"submit", "order"} /\ ~Unread("submit") =>
          /\ cur.form.pool = cur.pool.id /\ cur.pool.form = cur.form.id
          /\ \A m \in {cur.m1, cur.m2} : m.form = cur.form.id /\ m.pool = cur.pool.id
    /\ round = 0 /\ (stage \in {"experiment", "register"} \/ (stage = "version" /\ pc = "ready")) =>
          client.version.combo = client.claim.combo
    /\ HasExperiment => \A c \in Components : c.version = cur.version.id
    /\ stage = "register" /\ round = 0 => cur.experiment.combo = client.claim.combo
    /\ (stage = "feedback" /\ pc = "ready") \/ (stage = "claim" /\ round > 0) =>
          cur.version.experiment = cur.experiment.id

\* A past version holds the hash the backend gives its round.  The checks on
\* past[i] are complete once its successor has been accepted.
Canonical(i) == past[i].version.hash = i
Settled(i) == i < Len(past) \/ ~Fresh

\* Every past version was rejected and points to its own experiment.
PastLinked ==
    \A i \in 1..Len(past) :
       /\ Settled(i) => past[i].version.status = "rejected" /\ past[i].version.hash # Null
       /\ past[i].version.experiment = past[i].experiment.id

\* The backend deviates once, so at most one past hash is not its round's.
PastHashes ==
    /\ \A i \in 1..Len(past) : /\ past[i].version.hash \in {i, Null, Other}
                               /\ ~Canonical(i) => fault
    /\ \A i, j \in 1..Len(past) : ~Canonical(i) /\ ~Canonical(j) => i = j

\* Neighbouring versions share the combination, carried to the next check by the
\* objects the client hands on.
PastCombos ==
    /\ \A i \in 1..(Len(past) - 1) : Settled(i + 1) => past[i + 1].version.combo = past[i].version.combo
    /\ Len(past) > 0 /\ ~Fresh => client.version.combo = past[Len(past)].version.combo
    /\ Len(past) > 1 /\ Fresh => client.claim.source.combo = past[Len(past) - 1].version.combo
    /\ stage = "claim" /\ pc = "ready" /\ round > 0 => client.claim.source = client.version

\* The current hash is its round's, unless the one deviation is spent on it.
CurrentHash ==
    /\ Unread("version") /\ cur.answer.hash = cur.version.hash => cur.version.hash = Len(past) + 1
    /\ HasVersion /\ ~Unread("version") =>
          /\ cur.version.hash \in {Len(past) + 1, Null, Other}
          /\ cur.version.hash # Len(past) + 1 => fault /\ \A i \in 1..Len(past) : Canonical(i)

\* The history of versions.
Past == PastLinked /\ PastHashes /\ PastCombos /\ CurrentHash

\* past and pastFb are sequences, of whatever rows.
IsSeq(s) == \E S : s \in Seq(S)

\* The inductive invariant.  After the end of a test nothing is promised about the
\* rows but AcceptedIsOneChain itself.
ChainInv ==
    /\ Control /\ IsSeq(past) /\ IsSeq(pastFb)
    /\ pc # "done" => Shape /\ Links /\ Past
    /\ AcceptedIsOneChain

-----------------------------------------------------------------------------
(* What the backend writes.                                                *)

\* What Append leaves and adds, for any sequence.
LEMMA AppendElement ==
  ASSUME NEW s, NEW e, IsSeq(s)
  PROVE  /\ IsSeq(Append(s, e)) /\ Len(s) \in Nat /\ Len(Append(s, e)) = Len(s) + 1
         /\ \A i \in 1..Len(s) : Append(s, e)[i] = s[i]
         /\ Append(s, e)[Len(s) + 1] = e
  <1>1. PICK S : s \in Seq(S)
    BY DEF IsSeq
  <1> DEFINE T == S \cup {e}
  <1>2. s \in Seq(T) /\ e \in T
    BY <1>1
  <1> HIDE DEF T
  <1>3. /\ Append(s, e) \in Seq(T) /\ Len(s) \in Nat /\ Len(Append(s, e)) = Len(s) + 1
        /\ \A i \in 1..Len(s) : Append(s, e)[i] = s[i]
        /\ Append(s, e)[Len(s) + 1] = e
    BY <1>2
  <1> QED BY <1>3 DEF IsSeq

\* A write with at most one deviation leaves the parts it does not name, all
\* column sets and all keys as the backend meant them.
LEMMA WrittenKeeps ==
  ASSUME NEW w, NEW parts, Written(w, parts), DOMAIN w = Parts, parts \subseteq Parts
  PROVE  /\ DOMAIN cur' = Parts
         /\ \A p \in Parts : p \notin parts \cup {"answer"} => cur'[p] = w[p]
         /\ \A p \in Parts : DOMAIN cur'[p] = DOMAIN w[p]
         /\ \A p \in Parts : \A f \in Key(p) : f \in DOMAIN w[p] => cur'[p][f] = w[p][f]
  <1>1. CASE cur' = w
    BY <1>1
  <1>2. ASSUME NEW part \in parts \cup {"answer"}, NEW f \in DOMAIN w[part] \ Key(part), NEW v,
               cur' = [w EXCEPT ![part][f] = v]
        PROVE  /\ DOMAIN cur' = Parts
               /\ \A p \in Parts : p \notin parts \cup {"answer"} => cur'[p] = w[p]
               /\ \A p \in Parts : DOMAIN cur'[p] = DOMAIN w[p]
               /\ \A p \in Parts : \A g \in Key(p) : g \in DOMAIN w[p] => cur'[p][g] = w[p][g]
    <2>0. part \in Parts
      BY DEF Parts
    <2>1. DOMAIN cur' = Parts
      BY <1>2
    <2>2. \A p \in Parts : p # part => cur'[p] = w[p]
      BY <1>2
    <2>3. cur'[part] = [w[part] EXCEPT ![f] = v]
      BY <1>2, <2>0
    <2> QED BY <1>2, <2>0, <2>1, <2>2, <2>3
  <1> QED BY <1>1, <1>2 DEF Written

\* A write is exact, or spends the one deviation on one column of one part.
LEMMA WrittenOnce ==
  ASSUME NEW w, NEW parts, Written(w, parts), DOMAIN w = Parts, parts \subseteq Parts
  PROVE  \/ cur' = w /\ fault' = fault
         \/ /\ ~fault /\ fault'
            /\ \E part \in parts \cup {"answer"} : \E f \in DOMAIN w[part] :
                 /\ \A p \in Parts : p # part => cur'[p] = w[p]
                 /\ \A g \in DOMAIN w[part] : g # f => cur'[part][g] = w[part][g]
                 /\ cur'[part][f] \in Wrong(f) \cup {cur[part][f]}
                 /\ cur'[part][f] # w[part][f]
  <1>1. ASSUME NEW part \in parts \cup {"answer"}, NEW f \in DOMAIN w[part] \ Key(part),
               NEW v \in Wrong(f) \cup (IF part # "answer" /\ cur[part] # Null THEN {cur[part][f]} ELSE {}),
               v # w[part][f], cur' = [w EXCEPT ![part][f] = v]
        PROVE  /\ \A p \in Parts : p # part => cur'[p] = w[p]
               /\ \A g \in DOMAIN w[part] : g # f => cur'[part][g] = w[part][g]
               /\ cur'[part][f] \in Wrong(f) \cup {cur[part][f]}
               /\ cur'[part][f] # w[part][f]
    <2>1. part \in Parts
      BY DEF Parts
    <2>2. \A p \in Parts : p # part => cur'[p] = w[p]
      BY <1>1
    <2>3. cur'[part] = [w[part] EXCEPT ![f] = v]
      BY <1>1, <2>1
    <2>4. cur'[part][f] = v /\ \A g \in DOMAIN w[part] : g # f => cur'[part][g] = w[part][g]
      BY <2>3
    <2> QED BY <1>1, <2>2, <2>4
  <1> QED BY <1>1 DEF Written

\* The version's hash after a write: as meant, or the deviation is spent on it.
LEMMA WrittenHash ==
  ASSUME NEW w, NEW parts, Written(w, parts), DOMAIN w = Parts, parts \subseteq Parts,
         "hash" \in DOMAIN w.version
  PROVE  \/ cur'.version.hash = w.version.hash /\ (fault => fault')
         \/ ~fault /\ fault' /\ cur'.version.hash \in {Null, Other, cur.version.hash}
  <1>1. Wrong("hash") = {Null, Other}
    BY DEF Wrong
  <1>2. "version" \in Parts
    BY DEF Parts
  <1> HIDE DEF Wrong
  <1> QED BY <1>1, <1>2, WrittenOnce

\* What the backend means to write on a submit: a form and a pool.
LEMMA SubmitRowsFacts ==
  ASSUME NEW d, DOMAIN cur = Parts
  PROVE  /\ DOMAIN SubmitRows(d) = Parts
         /\ DOMAIN SubmitRows(d).form = FormFields /\ SubmitRows(d).form.id = 1
         /\ DOMAIN SubmitRows(d).pool = PoolFields
  BY DEF SubmitRows, Parts, FormFields, PoolFields

\* Reading the work order writes nothing but the answer.
LEMMA OrderRowsFacts ==
  ASSUME DOMAIN cur = Parts
  PROVE  /\ DOMAIN OrderRows = Parts
         /\ \A p \in Parts \ {"a1", "answer"} : OrderRows[p] = cur[p]
  BY DEF OrderRows, Parts

\* A claim touches the form, the pool and the feedback row only.
LEMMA ClaimRowsFacts ==
  ASSUME DOMAIN cur = Parts, DOMAIN cur.form = FormFields, DOMAIN cur.pool = PoolFields
  PROVE  /\ DOMAIN ClaimRows = Parts
         /\ DOMAIN ClaimRows.form = FormFields /\ ClaimRows.form.id = cur.form.id
         /\ DOMAIN ClaimRows.pool = PoolFields
         /\ DOMAIN ClaimRows.feedback = DOMAIN cur.feedback
         /\ ClaimRows.version = cur.version /\ ClaimRows.experiment = cur.experiment
         /\ ClaimRows.c1 = cur.c1 /\ ClaimRows.c2 = cur.c2
  BY DEF ClaimRows, Parts, FormFields, PoolFields

\* A version request writes a row of its round, the same hash in the answer, and
\* leaves the pool and the columns of form and feedback.
LEMMA VersionRowsFacts ==
  ASSUME DOMAIN cur = Parts, DOMAIN cur.form = FormFields
  PROVE  /\ DOMAIN VersionRows = Parts
         /\ DOMAIN VersionRows.form = FormFields /\ VersionRows.form.id = cur.form.id
         /\ VersionRows.pool = cur.pool
         /\ DOMAIN VersionRows.feedback = DOMAIN cur.feedback
         /\ DOMAIN VersionRows.version = VersionFields /\ VersionRows.version.hash = round + 1
         /\ "hash" \in DOMAIN VersionRows.answer /\ VersionRows.answer.hash = round + 1
  <1> USE DEF VersionRows, Version, Parts, FormFields, VersionFields
  <1>1. DOMAIN VersionRows = Parts
    OBVIOUS
  <1>2. DOMAIN VersionRows.form = FormFields
    OBVIOUS
  <1>3. VersionRows.form.id = cur.form.id
    OBVIOUS
  <1>4. VersionRows.pool = cur.pool
    OBVIOUS
  <1>5. DOMAIN VersionRows.feedback = DOMAIN cur.feedback
    OBVIOUS
  <1>6. DOMAIN VersionRows.version = VersionFields
    OBVIOUS
  <1>7. VersionRows.version.hash = round + 1
    OBVIOUS
  <1>8. "hash" \in DOMAIN VersionRows.answer
    OBVIOUS
  <1>9. VersionRows.answer.hash = round + 1
    OBVIOUS
  <1> QED BY <1>1, <1>2, <1>3, <1>4, <1>5, <1>6, <1>7, <1>8, <1>9

\* An experiment leaves the version's identity, hash and components.
LEMMA ExperimentRowsFacts ==
  ASSUME NEW valid, DOMAIN cur = Parts, DOMAIN cur.form = FormFields, DOMAIN cur.version = VersionFields
  PROVE  /\ DOMAIN ExperimentRows(valid) = Parts
         /\ DOMAIN ExperimentRows(valid).form = FormFields /\ ExperimentRows(valid).form.id = cur.form.id
         /\ ExperimentRows(valid).pool = cur.pool
         /\ DOMAIN ExperimentRows(valid).feedback = DOMAIN cur.feedback
         /\ DOMAIN ExperimentRows(valid).version = VersionFields
         /\ ExperimentRows(valid).version.id = cur.version.id
         /\ ExperimentRows(valid).version.hash = cur.version.hash
         /\ ExperimentRows(valid).c1 = cur.c1 /\ ExperimentRows(valid).c2 = cur.c2
         /\ DOMAIN ExperimentRows(valid).experiment = ExperimentFields
  BY DEF ExperimentRows, Parts, FormFields, VersionFields, ExperimentFields

\* A rejection leaves the version's identity, hash, components and the
\* experiment's id.
LEMMA FeedbackRowsFacts ==
  ASSUME NEW k, DOMAIN cur = Parts, DOMAIN cur.form = FormFields, DOMAIN cur.version = VersionFields,
         DOMAIN cur.experiment = ExperimentFields
  PROVE  /\ DOMAIN FeedbackRows(k) = Parts
         /\ DOMAIN FeedbackRows(k).form = FormFields /\ FeedbackRows(k).form.id = cur.form.id
         /\ FeedbackRows(k).pool = cur.pool
         /\ DOMAIN FeedbackRows(k).feedback = FeedbackFields
         /\ DOMAIN FeedbackRows(k).version = VersionFields
         /\ FeedbackRows(k).version.id = cur.version.id
         /\ FeedbackRows(k).version.hash = cur.version.hash
         /\ FeedbackRows(k).c1 = cur.c1 /\ FeedbackRows(k).c2 = cur.c2
         /\ DOMAIN FeedbackRows(k).experiment = ExperimentFields
         /\ FeedbackRows(k).experiment.id = cur.experiment.id
  <1> USE DEF FeedbackRows, Parts, FormFields, VersionFields, ExperimentFields, FeedbackFields
  <1>1. DOMAIN FeedbackRows(k) = Parts
    OBVIOUS
  <1>2. DOMAIN FeedbackRows(k).form = FormFields
    OBVIOUS
  <1>3. FeedbackRows(k).form.id = cur.form.id
    OBVIOUS
  <1>4. FeedbackRows(k).pool = cur.pool
    OBVIOUS
  <1>5. DOMAIN FeedbackRows(k).feedback = FeedbackFields
    OBVIOUS
  <1>6. DOMAIN FeedbackRows(k).version = VersionFields
    OBVIOUS
  <1>7. FeedbackRows(k).version.id = cur.version.id
    OBVIOUS
  <1>8. FeedbackRows(k).version.hash = cur.version.hash
    OBVIOUS
  <1>9. FeedbackRows(k).c1 = cur.c1
    OBVIOUS
  <1>10. FeedbackRows(k).c2 = cur.c2
    OBVIOUS
  <1>11. DOMAIN FeedbackRows(k).experiment = ExperimentFields
    OBVIOUS
  <1>12. FeedbackRows(k).experiment.id = cur.experiment.id
    OBVIOUS
  <1> QED BY <1>1, <1>2, <1>3, <1>4, <1>5, <1>6, <1>7, <1>8, <1>9, <1>10, <1>11, <1>12

\* A registration leaves form, pool, experiment and components.
LEMMA RegisterRowsFacts ==
  ASSUME DOMAIN cur = Parts, DOMAIN cur.version = VersionFields
  PROVE  /\ DOMAIN RegisterRows = Parts
         /\ RegisterRows.form = cur.form /\ RegisterRows.pool = cur.pool
         /\ RegisterRows.feedback = cur.feedback /\ RegisterRows.experiment = cur.experiment
         /\ DOMAIN RegisterRows.version = VersionFields
         /\ RegisterRows.version.id = cur.version.id /\ RegisterRows.version.hash = cur.version.hash
         /\ RegisterRows.c1 = cur.c1 /\ RegisterRows.c2 = cur.c2
         /\ "factor" \in DOMAIN RegisterRows.n_detail
  BY DEF RegisterRows, Parts, VersionFields

-----------------------------------------------------------------------------
(* Steps of the backend.                                                   *)

\* Between a call and its check nothing is claimed about the rows.
LEMMA NotYetRead ==
  ASSUME pc' = "check", outcome' = Null
  PROVE  AcceptedIsOneChain'
  BY ValueAssumption DEF ValueAssumption, Outcomes, AcceptedIsOneChain, Validated

\* The history parts of the invariant outlive a step that leaves past alone.
LEMMA PastKept ==
  ASSUME Past, past' = past, client' = client, fault => fault', ~Fresh, ~Fresh',
         stage' = "claim" /\ pc' = "ready" /\ round' > 0 => client.claim.source = client.version
  PROVE  PastLinked' /\ PastHashes' /\ PastCombos'
  <1>1. PastLinked'
    BY DEF Past, PastLinked, Settled
  <1>2. PastHashes'
    BY DEF Past, PastHashes, Canonical
  <1>3. PastCombos'
    BY DEF Past, PastCombos, Settled
  <1> QED BY <1>1, <1>2, <1>3

\* submit_form preserves the invariant.
LEMMA SubmitStep ==
  ASSUME ChainInv, NEW d, NEW direct, submit_form(d, direct)
  PROVE  ChainInv'
  <1>1. /\ pc = "ready" /\ outcome = Null /\ stage = "none" /\ ~cleared
        /\ pc' = "check" /\ stage' = "submit" /\ replayed' = FALSE /\ outcome' = Null
        /\ UNCHANGED <<client, cleared, refreshed, past, pastFb, round>>
        /\ Written(SubmitRows(d), {"form", "pool", "m1"})
        /\ tracked' = {cur'.answer.form} \ {Null}
    BY DEF submit_form, Call
  <1>2. Control /\ Shape /\ Links /\ Past
    BY <1>1 DEF ChainInv
  <1>3. DOMAIN cur = Parts /\ round = 0 /\ Len(past) = 0
    BY <1>1, <1>2 DEF Control, Shape
  <1>4. /\ DOMAIN cur' = Parts /\ DOMAIN cur'.form = FormFields /\ cur'.form.id = 1
        /\ DOMAIN cur'.pool = PoolFields
    BY <1>1, <1>3, SubmitRowsFacts, WrittenKeeps DEF Parts, Key, FormFields
  <1>5. fault' \in BOOLEAN
    BY <1>1, <1>2 DEF Written, Control
  <1>6. Control'
    BY <1>1, <1>2, <1>3, <1>5 DEF Control, Stages
  <1>7. Shape'
    BY <1>1, <1>3, <1>4 DEF Shape, HasVersion, HasExperiment
  <1>8. Links'
    BY <1>1, <1>3 DEF Links, HasExperiment, Unread
  <1>9. Past'
    BY <1>1, <1>3 DEF Past, PastLinked, PastHashes, PastCombos, CurrentHash, HasVersion, HasExperiment, Unread, Fresh
  <1> QED BY <1>1, <1>6, <1>7, <1>8, <1>9, NotYetRead DEF ChainInv

\* get_work_order preserves the invariant.
LEMMA OrderStep ==
  ASSUME ChainInv, get_work_order
  PROVE  ChainInv'
  <1>1. /\ pc = "ready" /\ outcome = Null /\ stage = "submit" /\ ~cleared
        /\ pc' = "check" /\ stage' = "order" /\ replayed' = FALSE /\ outcome' = Null
        /\ UNCHANGED <<client, cleared, refreshed, past, pastFb, round, tracked>>
        /\ Written(OrderRows, {"a1"})
    BY DEF get_work_order, Call
  <1>2. Control /\ Shape /\ Links /\ Past
    BY <1>1 DEF ChainInv
  <1>3. DOMAIN cur = Parts /\ round = 0 /\ Len(past) = 0
    BY <1>1, <1>2 DEF Control, Shape
  <1>4. DOMAIN cur' = Parts /\ \A p \in Parts \ {"a1", "answer"} : cur'[p] = cur[p]
    <2>1. {"a1"} \subseteq Parts
      BY DEF Parts
    <2> QED BY <1>1, <1>3, <2>1, OrderRowsFacts, WrittenKeeps
  <1>5. /\ cur'.form = cur.form /\ cur'.pool = cur.pool /\ cur'.m1 = cur.m1 /\ cur'.m2 = cur.m2
    BY <1>4 DEF Parts
  <1>6. Control'
    BY <1>1, <1>2, <1>3 DEF Control, Stages, Written
  <1>7. Shape'
    BY <1>1, <1>2, <1>3, <1>4, <1>5 DEF Shape, HasVersion, HasExperiment
  <1>8. Links'
    BY <1>1, <1>2, <1>3, <1>5 DEF Links, HasExperiment, Unread
  <1>9. Past'
    BY <1>1, <1>3 DEF Past, PastLinked, PastHashes, PastCombos, CurrentHash, HasVersion, HasExperiment, Unread, Fresh
  <1> QED BY <1>1, <1>6, <1>7, <1>8, <1>9, NotYetRead DEF ChainInv

\* claim_legacy_pipeline (form or feedback row) preserves the invariant.
LEMMA ClaimStep ==
  ASSUME ChainInv, claim_legacy_pipeline
  PROVE  ChainInv'
  <1> DEFINE parts == {"form", "pool"} \cup (IF round = 0 THEN {} ELSE {"feedback"})
  <1>1. /\ pc = "ready" /\ outcome = Null /\ stage \in {"submit", "order", "feedback"} /\ ~cleared
        /\ pc' = "check" /\ stage' = "claim" /\ replayed' = FALSE /\ outcome' = Null
        /\ UNCHANGED <<client, cleared, refreshed, past, pastFb, round, tracked>>
        /\ Written(ClaimRows, parts)
    BY DEF claim_legacy_pipeline, Call
  <1>2. Control /\ Shape /\ Links /\ Past
    BY <1>1 DEF ChainInv
  <1>3. /\ DOMAIN cur = Parts /\ DOMAIN cur.form = FormFields /\ cur.form.id = 1
        /\ DOMAIN cur.pool = PoolFields
    BY <1>1, <1>2 DEF Shape
  <1>4. parts \subseteq Parts /\ {"version", "experiment", "c1", "c2"} \cap (parts \cup {"answer"}) = {}
    BY DEF Parts
  <1>5. /\ DOMAIN cur' = Parts /\ DOMAIN cur'.form = FormFields /\ cur'.form.id = 1
        /\ DOMAIN cur'.pool = PoolFields /\ DOMAIN cur'.feedback = DOMAIN cur.feedback
        /\ cur'.version = cur.version /\ cur'.experiment = cur.experiment
        /\ cur'.c1 = cur.c1 /\ cur'.c2 = cur.c2
    <2> HIDE DEF parts
    <2> QED BY <1>1, <1>3, <1>4, ClaimRowsFacts, WrittenKeeps DEF Parts, Key, FormFields
  <1>6. Control'
    <2>1. fault' \in BOOLEAN
      BY <1>1, <1>2 DEF Written, Control
    <2> QED BY <1>1, <1>2, <2>1 DEF Control, Stages
  <1>7. Shape'
    BY <1>1, <1>2, <1>3, <1>5 DEF Shape, HasVersion, HasExperiment, Control
  <1>8. Links'
    BY <1>1, <1>2, <1>3, <1>5 DEF Links, HasExperiment, Unread, Control, Components
  <1>9. Past'
    <2>1. fault => fault'
      BY <1>1 DEF Written
    <2>2. ~Fresh /\ ~Fresh'
      BY <1>1 DEF Fresh, Unread
    <2>3. PastLinked' /\ PastHashes' /\ PastCombos'
      BY <1>1, <1>2, <2>1, <2>2, PastKept
    <2>4. CurrentHash'
      BY <1>1, <1>2, <1>5, <2>1 DEF Past, CurrentHash, HasVersion, HasExperiment, Unread, Control, Canonical
    <2> QED BY <2>3, <2>4 DEF Past
  <1> QED BY <1>1, <1>6, <1>7, <1>8, <1>9, NotYetRead DEF ChainInv

\* The current hash stays within bounds when a write keeps it or damages it once.
LEMMA CurrentHashKept ==
  ASSUME Past, past' = past, HasVersion, ~Unread("version"), ~Unread("version")',
         \/ cur'.version.hash = cur.version.hash /\ (fault => fault')
         \/ ~fault /\ fault' /\ cur'.version.hash \in {Null, Other, cur.version.hash}
  PROVE  CurrentHash'
  BY DEF Past, PastHashes, CurrentHash, Canonical

\* What a written experiment leaves, damaged or not.
LEMMA ExperimentWritten ==
  ASSUME NEW valid, NEW parts \in SUBSET Parts, Written(ExperimentRows(valid), parts),
         {"pool", "c1", "c2"} \cap (parts \cup {"answer"}) = {},
         DOMAIN cur = Parts, DOMAIN cur.form = FormFields, DOMAIN cur.version = VersionFields
  PROVE  /\ DOMAIN cur' = Parts /\ DOMAIN cur'.form = FormFields /\ cur'.form.id = cur.form.id
         /\ cur'.pool = cur.pool /\ DOMAIN cur'.feedback = DOMAIN cur.feedback
         /\ DOMAIN cur'.version = VersionFields /\ cur'.version.id = cur.version.id
         /\ DOMAIN cur'.experiment = ExperimentFields
         /\ cur'.c1 = cur.c1 /\ cur'.c2 = cur.c2
         /\ \/ cur'.version.hash = cur.version.hash /\ (fault => fault')
            \/ ~fault /\ fault' /\ cur'.version.hash \in {Null, Other, cur.version.hash}
  <1> DEFINE w == ExperimentRows(valid)
  <1>1. /\ DOMAIN w = Parts /\ DOMAIN w.form = FormFields /\ w.form.id = cur.form.id /\ w.pool = cur.pool
        /\ DOMAIN w.feedback = DOMAIN cur.feedback
        /\ DOMAIN w.version = VersionFields /\ w.version.id = cur.version.id
        /\ w.version.hash = cur.version.hash
        /\ DOMAIN w.experiment = ExperimentFields /\ w.c1 = cur.c1 /\ w.c2 = cur.c2
    BY ExperimentRowsFacts
  <1>2. Written(w, parts)
    OBVIOUS
  <1> HIDE DEF w
  <1>3. /\ DOMAIN cur' = Parts
        /\ \A p \in Parts : p \notin parts \cup {"answer"} => cur'[p] = w[p]
        /\ \A p \in Parts : DOMAIN cur'[p] = DOMAIN w[p]
        /\ \A p \in Parts : \A f \in Key(p) : f \in DOMAIN w[p] => cur'[p][f] = w[p][f]
    BY <1>1, <1>2, WrittenKeeps
  <1>4. {"form", "pool", "feedback", "version", "experiment", "c1", "c2"} \subseteq Parts
    BY DEF Parts
  <1>5. cur'.form.id = w.form.id /\ cur'.version.id = w.version.id
    <2>1. "id" \in Key("form") /\ "id" \in Key("version")
      BY DEF Key
    <2>2. "id" \in FormFields /\ "id" \in VersionFields
      BY DEF FormFields, VersionFields
    <2> QED BY <1>1, <1>3, <1>4, <2>1, <2>2
  <1>6. \/ cur'.version.hash = w.version.hash /\ (fault => fault')
        \/ ~fault /\ fault' /\ cur'.version.hash \in {Null, Other, cur.version.hash}
    <2>1. "hash" \in DOMAIN w.version
      BY <1>1 DEF VersionFields
    <2> QED BY <1>1, <1>2, <2>1, WrittenHash
  <1> QED BY <1>1, <1>3, <1>4, <1>5, <1>6

\* What a written rejection leaves, damaged or not.
LEMMA FeedbackWritten ==
  ASSUME NEW k, NEW parts \in SUBSET Parts, Written(FeedbackRows(k), parts),
         {"pool", "c1", "c2"} \cap (parts \cup {"answer"}) = {},
         DOMAIN cur = Parts, DOMAIN cur.form = FormFields, DOMAIN cur.version = VersionFields,
         DOMAIN cur.experiment = ExperimentFields
  PROVE  /\ DOMAIN cur' = Parts /\ DOMAIN cur'.form = FormFields /\ cur'.form.id = cur.form.id
         /\ cur'.pool = cur.pool /\ DOMAIN cur'.feedback = FeedbackFields
         /\ DOMAIN cur'.version = VersionFields /\ cur'.version.id = cur.version.id
         /\ DOMAIN cur'.experiment = ExperimentFields
         /\ cur'.c1 = cur.c1 /\ cur'.c2 = cur.c2
         /\ \/ cur'.version.hash = cur.version.hash /\ (fault => fault')
            \/ ~fault /\ fault' /\ cur'.version.hash \in {Null, Other, cur.version.hash}
  <1> DEFINE w == FeedbackRows(k)
  <1>1. /\ DOMAIN w = Parts /\ DOMAIN w.form = FormFields /\ w.form.id = cur.form.id /\ w.pool = cur.pool
        /\ DOMAIN w.feedback = FeedbackFields
        /\ DOMAIN w.version = VersionFields /\ w.version.id = cur.version.id
        /\ w.version.hash = cur.version.hash
        /\ DOMAIN w.experiment = ExperimentFields /\ w.c1 = cur.c1 /\ w.c2 = cur.c2
    BY FeedbackRowsFacts
  <1>2. Written(w, parts)
    OBVIOUS
  <1> HIDE DEF w
  <1>3. /\ DOMAIN cur' = Parts
        /\ \A p \in Parts : p \notin parts \cup {"answer"} => cur'[p] = w[p]
        /\ \A p \in Parts : DOMAIN cur'[p] = DOMAIN w[p]
        /\ \A p \in Parts : \A f \in Key(p) : f \in DOMAIN w[p] => cur'[p][f] = w[p][f]
    BY <1>1, <1>2, WrittenKeeps
  <1>4. {"form", "pool", "feedback", "version", "experiment", "c1", "c2"} \subseteq Parts
    BY DEF Parts
  <1>5. cur'.form.id = w.form.id /\ cur'.version.id = w.version.id
    <2>1. "id" \in Key("form") /\ "id" \in Key("version")
      BY DEF Key
    <2>2. "id" \in FormFields /\ "id" \in VersionFields
      BY DEF FormFields, VersionFields
    <2> QED BY <1>1, <1>3, <1>4, <2>1, <2>2
  <1>6. \/ cur'.version.hash = w.version.hash /\ (fault => fault')
        \/ ~fault /\ fault' /\ cur'.version.hash \in {Null, Other, cur.version.hash}
    <2>1. "hash" \in DOMAIN w.version
      BY <1>1 DEF VersionFields
    <2> QED BY <1>1, <1>2, <2>1, WrittenHash
  <1> QED BY <1>1, <1>3, <1>4, <1>5, <1>6

\* What a written registration leaves, damaged or not.
LEMMA RegisterWritten ==
  ASSUME NEW parts \in SUBSET Parts, Written(RegisterRows, parts),
         {"form", "pool", "experiment", "feedback", "c1", "c2"} \cap (parts \cup {"answer"}) = {},
         DOMAIN cur = Parts, DOMAIN cur.form = FormFields, DOMAIN cur.version = VersionFields,
         DOMAIN cur.experiment = ExperimentFields
  PROVE  /\ DOMAIN cur' = Parts /\ DOMAIN cur'.form = FormFields /\ cur'.form.id = cur.form.id
         /\ cur'.pool = cur.pool /\ DOMAIN cur'.feedback = DOMAIN cur.feedback
         /\ DOMAIN cur'.version = VersionFields /\ cur'.version.id = cur.version.id
         /\ cur'.experiment = cur.experiment /\ "factor" \in DOMAIN cur'.n_detail
         /\ cur'.c1 = cur.c1 /\ cur'.c2 = cur.c2
         /\ \/ cur'.version.hash = cur.version.hash /\ (fault => fault')
            \/ ~fault /\ fault' /\ cur'.version.hash \in {Null, Other, cur.version.hash}
  <1> DEFINE w == RegisterRows
  <1>1. /\ DOMAIN w = Parts /\ DOMAIN w.form = FormFields /\ w.form.id = cur.form.id /\ w.pool = cur.pool
        /\ DOMAIN w.feedback = DOMAIN cur.feedback
        /\ DOMAIN w.version = VersionFields /\ w.version.id = cur.version.id
        /\ w.version.hash = cur.version.hash
        /\ w.experiment = cur.experiment /\ "factor" \in DOMAIN w.n_detail /\ w.c1 = cur.c1 /\ w.c2 = cur.c2
    BY RegisterRowsFacts
  <1>2. Written(w, parts)
    OBVIOUS
  <1> HIDE DEF w
  <1>3. /\ DOMAIN cur' = Parts
        /\ \A p \in Parts : p \notin parts \cup {"answer"} => cur'[p] = w[p]
        /\ \A p \in Parts : DOMAIN cur'[p] = DOMAIN w[p]
        /\ \A p \in Parts : \A f \in Key(p) : f \in DOMAIN w[p] => cur'[p][f] = w[p][f]
    BY <1>1, <1>2, WrittenKeeps
  <1>4. {"form", "pool", "feedback", "version", "experiment", "c1", "c2", "n_detail"} \subseteq Parts
    BY DEF Parts
  <1>5. cur'.form.id = w.form.id /\ cur'.version.id = w.version.id
    <2>1. "id" \in Key("form") /\ "id" \in Key("version")
      BY DEF Key
    <2>2. "id" \in FormFields /\ "id" \in VersionFields
      BY DEF FormFields, VersionFields
    <2> QED BY <1>1, <1>3, <1>4, <2>1, <2>2
  <1>6. \/ cur'.version.hash = w.version.hash /\ (fault => fault')
        \/ ~fault /\ fault' /\ cur'.version.hash \in {Null, Other, cur.version.hash}
    <2>1. "hash" \in DOMAIN w.version
      BY <1>1 DEF VersionFields
    <2> QED BY <1>1, <1>2, <2>1, WrittenHash
  <1> QED BY <1>1, <1>3, <1>4, <1>5, <1>6

\* What a written version leaves, damaged or not: row and answer agree on the hash
\* only when it is the round's.
LEMMA VersionWritten ==
  ASSUME NEW parts \in SUBSET Parts, Written(VersionRows, parts), "pool" \notin parts \cup {"answer"},
         DOMAIN cur = Parts, DOMAIN cur.form = FormFields
  PROVE  /\ DOMAIN cur' = Parts /\ DOMAIN cur'.form = FormFields /\ cur'.form.id = cur.form.id
         /\ cur'.pool = cur.pool /\ DOMAIN cur'.feedback = DOMAIN cur.feedback
         /\ DOMAIN cur'.version = VersionFields
         /\ cur'.answer.hash = cur'.version.hash => cur'.version.hash = round + 1
         /\ fault => fault'
  <1>1. /\ DOMAIN cur' = Parts /\ DOMAIN cur'.form = FormFields /\ cur'.form.id = cur.form.id
        /\ cur'.pool = cur.pool /\ DOMAIN cur'.feedback = DOMAIN cur.feedback
        /\ DOMAIN cur'.version = VersionFields
    BY VersionRowsFacts, WrittenKeeps DEF Parts, Key, FormFields
  <1>2. cur'.answer.hash = cur'.version.hash => cur'.version.hash = round + 1
    BY VersionRowsFacts, WrittenOnce DEF Parts, VersionFields
  <1>3. fault => fault'
    BY DEF Written
  <1> QED BY <1>1, <1>2, <1>3

\* create_version preserves the invariant: the rejected version joins past.
LEMMA CreateStep ==
  ASSUME ChainInv, create_version
  PROVE  ChainInv'
  <1> DEFINE parts == {"form", "version", "c1"} \cup (IF round = 0 THEN {} ELSE {"feedback"})
             entry == [version |-> cur.version, components |-> {cur.c1, cur.c2}, experiment |-> cur.experiment]
  <1>1. /\ pc = "ready" /\ outcome = Null /\ stage = "claim" /\ ~cleared
        /\ pc' = "check" /\ stage' = "version" /\ replayed' = FALSE /\ outcome' = Null
        /\ UNCHANGED <<client, cleared, refreshed, pastFb, round, tracked>>
        /\ past' = IF round = 0 THEN past ELSE Append(past, entry)
        /\ Written(VersionRows, parts)
    BY DEF create_version, Call
  <1>2. Control /\ Shape /\ Links /\ Past /\ IsSeq(past)
    BY <1>1 DEF ChainInv
  <1>3. /\ DOMAIN cur = Parts /\ DOMAIN cur.form = FormFields /\ cur.form.id = 1
        /\ DOMAIN cur.pool = PoolFields
    BY <1>1, <1>2 DEF Shape
  <1>4. parts \subseteq Parts /\ "pool" \notin parts \cup {"answer"}
    BY DEF Parts
  <1>5. /\ DOMAIN cur' = Parts /\ DOMAIN cur'.form = FormFields /\ cur'.form.id = 1
        /\ DOMAIN cur'.pool = PoolFields /\ DOMAIN cur'.feedback = DOMAIN cur.feedback
        /\ DOMAIN cur'.version = VersionFields
    <2> HIDE DEF parts
    <2> QED BY <1>1, <1>3, <1>4, VersionWritten
  <1>6. /\ IsSeq(past') /\ Len(past) \in Nat /\ Len(past') = round
        /\ round # 0 => /\ Len(past) = round - 1
                        /\ \A i \in 1..Len(past) : past'[i] = past[i]
                        /\ past'[round] = entry
    <2> HIDE DEF entry
    <2>1. Len(past) = (IF round = 0 THEN 0 ELSE round - 1) /\ round \in Nat
      BY <1>1, <1>2, WorkerAssumption DEF Control, WorkerAssumption
    <2>2. CASE round = 0
      BY <1>1, <1>2, <2>1, <2>2
    <2>3. CASE round # 0
      <3>1. past' = Append(past, entry)
        BY <1>1, <2>3
      <3>2. /\ IsSeq(past') /\ Len(past) \in Nat /\ Len(past') = Len(past) + 1
            /\ \A i \in 1..Len(past) : past'[i] = past[i]
            /\ past'[Len(past) + 1] = entry
        BY <1>2, <3>1, AppendElement
      <3>3. Len(past) + 1 = round
        BY <2>1, <2>3
      <3> QED BY <2>1, <2>3, <3>2, <3>3
    <2> QED BY <2>2, <2>3
  <1>7. Control'
    <2>1. fault' \in BOOLEAN
      BY <1>1, <1>2 DEF Written, Control
    <2> QED BY <1>1, <1>2, <1>6, <2>1 DEF Control, Stages
  <1>8. Shape'
    BY <1>1, <1>2, <1>3, <1>5 DEF Shape, HasVersion, HasExperiment, Control
  <1>9. Links'
    BY <1>1, <1>2, <1>3, <1>5 DEF Links, HasExperiment, Unread, Control, Components
  <1>10. Fresh' /\ ~Fresh /\ (fault => fault')
    BY <1>1 DEF Fresh, Unread, Written
  <1>11. round # 0 => HasVersion /\ ~Unread("version") /\ round > 0 /\ HasExperiment
    BY <1>1, <1>2 DEF HasVersion, HasExperiment, Unread, Control
  <1>12. PastLinked'
    <2>1. CASE round = 0
      BY <1>6, <2>1 DEF PastLinked
    <2>2. CASE round # 0
      <3>1. cur.version.experiment = cur.experiment.id
        BY <1>1, <1>2, <1>11, <2>2 DEF Links
      <3> QED BY <1>2, <1>6, <1>10, <2>2, <3>1 DEF Past, PastLinked, Settled
    <2> QED BY <2>1, <2>2
  <1>13. PastHashes'
    <2>1. CASE round = 0
      BY <1>6, <2>1 DEF PastHashes
    <2>2. CASE round # 0
      BY <1>2, <1>6, <1>10, <1>11, <2>2 DEF Past, PastHashes, CurrentHash, Canonical
    <2> QED BY <2>1, <2>2
  <1>14. PastCombos'
    <2>1. CASE round = 0
      BY <1>1, <1>6, <2>1 DEF PastCombos
    <2>2. CASE round # 0
      <3>1. client.claim.source = client.version
        BY <1>1, <1>2, <1>11, <2>2 DEF Past, PastCombos
      <3>2. Len(past) > 0 => client.version.combo = past[Len(past)].version.combo
        BY <1>2, <1>10 DEF Past, PastCombos
      <3> QED BY <1>1, <1>2, <1>6, <1>10, <2>2, <3>1, <3>2 DEF Past, PastCombos, Settled
    <2> QED BY <2>1, <2>2
  <1>15. CurrentHash'
    <2>1. cur'.answer.hash = cur'.version.hash => cur'.version.hash = round + 1
      <3> HIDE DEF parts
      <3> QED BY <1>1, <1>3, <1>4, VersionWritten
    <2> QED BY <1>1, <1>6, <2>1 DEF CurrentHash, Unread
  <1> QED BY <1>1, <1>6, <1>7, <1>8, <1>9, <1>12, <1>13, <1>14, <1>15, NotYetRead DEF ChainInv, Past

\* write_experiment preserves the invariant.
LEMMA ExperimentStep ==
  ASSUME ChainInv, NEW valid, write_experiment(valid)
  PROVE  ChainInv'
  <1> DEFINE parts == {"form", "version", "experiment"} \cup (IF round = 0 THEN {} ELSE {"feedback"})
  <1>1. /\ pc = "ready" /\ outcome = Null /\ stage = "version" /\ ~cleared
        /\ pc' = "check" /\ stage' = "experiment" /\ replayed' = FALSE /\ outcome' = Null
        /\ UNCHANGED <<client, cleared, refreshed, past, pastFb, round, tracked>>
        /\ Written(ExperimentRows(valid), parts)
    BY DEF write_experiment, Call
  <1>2. Control /\ Shape /\ Links /\ Past
    BY <1>1 DEF ChainInv
  <1>3. /\ DOMAIN cur = Parts /\ DOMAIN cur.form = FormFields /\ cur.form.id = 1
        /\ DOMAIN cur.pool = PoolFields /\ DOMAIN cur.version = VersionFields
    BY <1>1, <1>2 DEF Shape, HasVersion
  <1>4. parts \subseteq Parts /\ {"pool", "c1", "c2"} \cap (parts \cup {"answer"}) = {}
    BY DEF Parts
  <1>5. /\ DOMAIN cur' = Parts /\ DOMAIN cur'.form = FormFields /\ cur'.form.id = 1
        /\ DOMAIN cur'.pool = PoolFields /\ DOMAIN cur'.feedback = DOMAIN cur.feedback
        /\ DOMAIN cur'.version = VersionFields /\ cur'.version.id = cur.version.id
        /\ DOMAIN cur'.experiment = ExperimentFields
        /\ cur'.c1 = cur.c1 /\ cur'.c2 = cur.c2
    <2> HIDE DEF parts
    <2> QED BY <1>1, <1>3, <1>4, ExperimentWritten
  <1>6. Control'
    <2>1. fault' \in BOOLEAN
      BY <1>1, <1>2 DEF Written, Control
    <2> QED BY <1>1, <1>2, <2>1 DEF Control, Stages
  <1>7. Shape'
    BY <1>1, <1>2, <1>3, <1>5 DEF Shape, HasVersion, HasExperiment, Control
  <1>8. Links'
    <2>1. \A c \in Components : c.version = cur.version.id
      BY <1>1 DEF ChainInv, AcceptedIsOneChain, Validated
    <2>2. Components' = Components
      BY <1>5 DEF Components
    <2> QED BY <1>1, <1>2, <1>3, <1>5, <2>1, <2>2 DEF Links, HasExperiment, Unread
  <1>9. Past'
    <2>1. (fault => fault') /\ ~Fresh /\ ~Fresh' /\ HasVersion /\ ~Unread("version") /\ ~Unread("version")'
      BY <1>1 DEF Written, Fresh, Unread, HasVersion
    <2>2. PastLinked' /\ PastHashes' /\ PastCombos'
      BY <1>1, <1>2, <2>1, PastKept
    <2>3. \/ cur'.version.hash = cur.version.hash /\ (fault => fault')
          \/ ~fault /\ fault' /\ cur'.version.hash \in {Null, Other, cur.version.hash}
      <3> HIDE DEF parts
      <3> QED BY <1>1, <1>3, <1>4, ExperimentWritten
    <2>4. CurrentHash'
      BY <1>1, <1>2, <2>1, <2>3, CurrentHashKept
    <2> QED BY <2>2, <2>4 DEF Past
  <1> QED BY <1>1, <1>6, <1>7, <1>8, <1>9, NotYetRead DEF ChainInv

\* submit_feedback preserves the invariant: a new round begins.
LEMMA FeedbackStep ==
  ASSUME ChainInv, submit_feedback
  PROVE  ChainInv'
  <1> DEFINE parts == {"form", "version", "experiment", "feedback"}
  <1>1. /\ pc = "ready" /\ outcome = Null /\ stage = "experiment" /\ ~cleared /\ round < MaxRounds
        /\ pc' = "check" /\ stage' = "feedback" /\ replayed' = FALSE /\ outcome' = Null
        /\ UNCHANGED <<client, cleared, refreshed, past, tracked>>
        /\ round' = round + 1
        /\ pastFb' = IF round = 0 THEN pastFb ELSE Append(pastFb, cur.feedback)
        /\ Written(FeedbackRows(round + 1), parts)
    BY DEF submit_feedback, Call
  <1>2. Control /\ Shape /\ Links /\ Past /\ IsSeq(pastFb) /\ IsSeq(past)
    BY <1>1 DEF ChainInv
  <1>3. /\ DOMAIN cur = Parts /\ DOMAIN cur.form = FormFields /\ cur.form.id = 1
        /\ DOMAIN cur.pool = PoolFields /\ DOMAIN cur.version = VersionFields
        /\ DOMAIN cur.experiment = ExperimentFields
    BY <1>1, <1>2 DEF Shape, HasVersion, HasExperiment
  <1>4. parts \subseteq Parts /\ {"pool", "c1", "c2"} \cap (parts \cup {"answer"}) = {}
    BY DEF Parts
  <1>5. /\ DOMAIN cur' = Parts /\ DOMAIN cur'.form = FormFields /\ cur'.form.id = 1
        /\ DOMAIN cur'.pool = PoolFields /\ DOMAIN cur'.feedback = FeedbackFields
        /\ DOMAIN cur'.version = VersionFields /\ cur'.version.id = cur.version.id
        /\ DOMAIN cur'.experiment = ExperimentFields
        /\ cur'.c1 = cur.c1 /\ cur'.c2 = cur.c2
    <2> HIDE DEF parts
    <2> QED BY <1>1, <1>3, <1>4, FeedbackWritten
  <1>6. Control' /\ IsSeq(pastFb')
    <2>1. fault' \in BOOLEAN
      BY <1>1, <1>2 DEF Written, Control
    <2>2. /\ round \in 0..MaxRounds /\ MaxRounds \in Nat /\ Len(past) = round
          /\ Len(pastFb) = IF round = 0 THEN 0 ELSE round - 1
      BY <1>1, <1>2, WorkerAssumption DEF Control, WorkerAssumption
    <2>3. IsSeq(pastFb') /\ Len(pastFb') = round
      BY <1>1, <1>2, <2>2, AppendElement
    <2>4. round' \in 0..MaxRounds /\ round' > 0 /\ round' # 0 /\ round' - 1 = round
      BY <1>1, <2>2
    <2> QED BY <1>1, <1>2, <2>1, <2>2, <2>3, <2>4 DEF Control, Stages
  <1>7. Shape'
    BY <1>1, <1>2, <1>3, <1>5 DEF Shape, HasVersion, HasExperiment, Control
  <1>8. Links'
    <2>1. \A c \in Components : c.version = cur.version.id
      BY <1>1, <1>2 DEF Links, HasExperiment
    <2>2. Components' = Components
      BY <1>5 DEF Components
    <2> QED BY <1>1, <1>2, <1>3, <1>5, <2>1, <2>2 DEF Links, HasExperiment, Unread
  <1>9. Past'
    <2>1. (fault => fault') /\ ~Fresh /\ ~Fresh' /\ HasVersion /\ ~Unread("version") /\ ~Unread("version")'
      BY <1>1 DEF Written, Fresh, Unread, HasVersion, HasExperiment
    <2>2. PastLinked' /\ PastHashes' /\ PastCombos'
      BY <1>1, <1>2, <2>1, PastKept
    <2>3. \/ cur'.version.hash = cur.version.hash /\ (fault => fault')
          \/ ~fault /\ fault' /\ cur'.version.hash \in {Null, Other, cur.version.hash}
      <3> HIDE DEF parts
      <3> QED BY <1>1, <1>3, <1>4, FeedbackWritten
    <2>4. CurrentHash'
      BY <1>1, <1>2, <2>1, <2>3, CurrentHashKept
    <2> QED BY <2>2, <2>4 DEF Past
  <1> QED BY <1>1, <1>2, <1>6, <1>7, <1>8, <1>9, NotYetRead DEF ChainInv

\* register_report preserves the invariant, for every report and code table.
LEMMA RegisterStep ==
  ASSUME ChainInv, NEW items, NEW codes, register_report(items, codes)
  PROVE  ChainInv'
  <1> DEFINE parts == IF items = <<Item(1), Item(2)>> /\ codes = OwnCodes
                      THEN {"version", "sub", "detail", "validity", "mapping",
                            "n_sub", "n_detail", "n_validity", "n_mapping"} ELSE {}
  <1>1. /\ pc = "ready" /\ outcome = Null /\ stage = "experiment" /\ ~cleared
        /\ pc' = "check" /\ stage' = "register" /\ replayed' = FALSE /\ outcome' = Null
        /\ UNCHANGED <<client, cleared, refreshed, past, pastFb, round, tracked>>
        /\ Written(RegisterRows, parts)
    BY DEF register_report, Call
  <1>2. Control /\ Shape /\ Links /\ Past
    BY <1>1 DEF ChainInv
  <1>3. /\ DOMAIN cur = Parts /\ DOMAIN cur.form = FormFields /\ cur.form.id = 1
        /\ DOMAIN cur.pool = PoolFields /\ DOMAIN cur.version = VersionFields
        /\ DOMAIN cur.experiment = ExperimentFields
    BY <1>1, <1>2 DEF Shape, HasVersion, HasExperiment
  <1>4. /\ parts \subseteq Parts
        /\ {"form", "pool", "experiment", "feedback", "c1", "c2"} \cap (parts \cup {"answer"}) = {}
    BY DEF Parts
  <1>5. /\ DOMAIN cur' = Parts /\ DOMAIN cur'.form = FormFields /\ cur'.form.id = 1
        /\ cur'.pool = cur.pool
        /\ DOMAIN cur'.feedback = DOMAIN cur.feedback /\ cur'.experiment = cur.experiment
        /\ DOMAIN cur'.version = VersionFields /\ cur'.version.id = cur.version.id
        /\ cur'.c1 = cur.c1 /\ cur'.c2 = cur.c2 /\ "factor" \in DOMAIN cur'.n_detail
    <2> HIDE DEF parts
    <2> QED BY <1>1, <1>3, <1>4, RegisterWritten
  <1>6. Control'
    <2>1. fault' \in BOOLEAN
      BY <1>1, <1>2 DEF Written, Control
    <2> QED BY <1>1, <1>2, <2>1 DEF Control, Stages
  <1>7. Shape'
    BY <1>1, <1>2, <1>3, <1>5 DEF Shape, HasVersion, HasExperiment, Control
  <1>8. Links'
    <2>1. \A c \in Components : c.version = cur.version.id
      BY <1>1, <1>2 DEF Links, HasExperiment
    <2>2. Components' = Components
      BY <1>5 DEF Components
    <2>3. round = 0 => cur.experiment.combo = client.claim.combo
      BY <1>1 DEF ChainInv, AcceptedIsOneChain, Validated
    <2> QED BY <1>1, <1>2, <1>3, <1>5, <2>1, <2>2, <2>3 DEF Links, HasExperiment, Unread
  <1>9. Past'
    <2>1. (fault => fault') /\ ~Fresh /\ ~Fresh' /\ HasVersion /\ ~Unread("version") /\ ~Unread("version")'
      BY <1>1 DEF Written, Fresh, Unread, HasVersion, HasExperiment
    <2>2. PastLinked' /\ PastHashes' /\ PastCombos'
      BY <1>1, <1>2, <2>1, PastKept
    <2>3. \/ cur'.version.hash = cur.version.hash /\ (fault => fault')
          \/ ~fault /\ fault' /\ cur'.version.hash \in {Null, Other, cur.version.hash}
      <3> HIDE DEF parts
      <3> QED BY <1>1, <1>3, <1>4, RegisterWritten
    <2>4. CurrentHash'
      BY <1>1, <1>2, <2>1, <2>3, CurrentHashKept
    <2> QED BY <2>2, <2>4 DEF Past
  <1> QED BY <1>1, <1>6, <1>7, <1>8, <1>9, NotYetRead DEF ChainInv

\* replay_request preserves the invariant, also out of a half-finished state.
LEMMA ReplayStep ==
  ASSUME ChainInv, replay_request
  PROVE  ChainInv'
  <1>1. /\ pc = "ready" /\ outcome = Null /\ stage \in {"version", "experiment", "feedback", "register"}
        /\ pc' = "check" /\ stage' = stage /\ replayed' = TRUE /\ cleared' = FALSE /\ outcome' = Null
        /\ UNCHANGED <<client, refreshed, past, pastFb, round, tracked>>
    BY DEF replay_request
  <1>2. Control /\ Shape /\ Links /\ Past
    BY <1>1 DEF ChainInv
  <1>3. /\ DOMAIN cur = Parts /\ DOMAIN cur.form = FormFields /\ cur.form.id = 1
        /\ DOMAIN cur.pool = PoolFields /\ DOMAIN cur.version = VersionFields
        /\ HasExperiment => DOMAIN cur.experiment = ExperimentFields
    BY <1>1, <1>2 DEF Shape, HasVersion, HasExperiment
  <1>4. ~Fresh /\ ~Fresh' /\ ~Unread("version")
    BY <1>1 DEF Fresh, Unread
  <1>5. CASE stage = "version"
    <2> DEFINE parts == {"form", "version", "c1"} \cup (IF round = 0 THEN {} ELSE {"feedback"})
    <2>1. Written(VersionRows, parts)
      BY <1>5 DEF replay_request
    <2>2. parts \in SUBSET Parts /\ "pool" \notin parts \cup {"answer"}
      BY DEF Parts
    <2> HIDE DEF parts
    <2>3. /\ DOMAIN cur' = Parts /\ DOMAIN cur'.form = FormFields /\ cur'.form.id = 1
          /\ DOMAIN cur'.pool = PoolFields /\ DOMAIN cur'.feedback = DOMAIN cur.feedback
          /\ DOMAIN cur'.version = VersionFields
          /\ cur'.answer.hash = cur'.version.hash => cur'.version.hash = round + 1
          /\ fault => fault'
      BY <1>3, <2>1, <2>2, VersionWritten
    <2>4. Control'
      <3>1. fault' \in BOOLEAN
        BY <1>2, <2>1 DEF Written, Control
      <3> QED BY <1>1, <1>2, <3>1 DEF Control
    <2>5. Shape'
      BY <1>1, <1>2, <1>5, <2>3 DEF Shape, HasVersion, HasExperiment
    <2>6. Links'
      BY <1>1, <1>2, <1>5, <2>3 DEF Links, HasExperiment, Unread
    <2>7. PastLinked' /\ PastHashes' /\ PastCombos'
      BY <1>1, <1>2, <1>4, <2>3, PastKept
    <2>8. CurrentHash'
      BY <1>1, <1>2, <1>5, <2>3 DEF CurrentHash, Unread, Control
    <2> QED BY <1>1, <2>4, <2>5, <2>6, <2>7, <2>8, NotYetRead DEF ChainInv, Past
  <1>6. ASSUME stage \in {"experiment", "feedback", "register"},
               DOMAIN cur' = Parts, DOMAIN cur'.form = FormFields, cur'.form.id = 1, cur'.pool = cur.pool,
               DOMAIN cur'.feedback \in {DOMAIN cur.feedback, FeedbackFields},
               DOMAIN cur'.version = VersionFields, cur'.version.id = cur.version.id,
               DOMAIN cur'.experiment = ExperimentFields,
               stage = "register" => /\ cur'.experiment = cur.experiment
                                     /\ "factor" \in DOMAIN cur'.n_detail,
               cur'.c1 = cur.c1, cur'.c2 = cur.c2, fault' \in BOOLEAN,
               \/ cur'.version.hash = cur.version.hash /\ (fault => fault')
               \/ ~fault /\ fault' /\ cur'.version.hash \in {Null, Other, cur.version.hash}
        PROVE  ChainInv'
    <2>1. Control'
      BY <1>1, <1>2, <1>6 DEF Control
    <2>2. Shape'
      BY <1>1, <1>2, <1>3, <1>6 DEF Shape, HasVersion, HasExperiment
    <2>3. Components' = Components
      BY <1>6 DEF Components
    <2>4. Links'
      BY <1>1, <1>2, <1>6, <2>3 DEF Links, HasExperiment, Unread
    <2>5. HasVersion /\ ~Unread("version")' /\ (fault => fault')
      BY <1>1, <1>6 DEF HasVersion, HasExperiment, Unread
    <2>6. PastLinked' /\ PastHashes' /\ PastCombos'
      BY <1>1, <1>2, <1>4, <1>6, <2>5, PastKept
    <2>7. CurrentHash'
      BY <1>1, <1>2, <1>4, <1>6, <2>5, CurrentHashKept
    <2> QED BY <1>1, <2>1, <2>2, <2>4, <2>6, <2>7, NotYetRead DEF ChainInv, Past
  <1>7. CASE stage = "experiment"
    <2> DEFINE parts == {"form", "version", "experiment"}
    <2>1. Written(ExperimentRows(request.valid), parts) /\ fault' \in BOOLEAN
      BY <1>2, <1>7 DEF replay_request, Written, Control
    <2>2. parts \in SUBSET Parts /\ {"pool", "c1", "c2"} \cap (parts \cup {"answer"}) = {}
      BY DEF Parts
    <2> HIDE DEF parts
    <2> QED BY <1>3, <1>6, <1>7, <2>1, <2>2, ExperimentWritten
  <1>8. CASE stage = "feedback"
    <2> DEFINE parts == {"form", "version", "experiment", "feedback"}
    <2>1. Written(FeedbackRows(round), parts) /\ fault' \in BOOLEAN
      BY <1>2, <1>8 DEF replay_request, Written, Control
    <2>2. parts \in SUBSET Parts /\ {"pool", "c1", "c2"} \cap (parts \cup {"answer"}) = {}
      BY DEF Parts
    <2>3. HasExperiment
      BY <1>8 DEF HasExperiment
    <2> HIDE DEF parts
    <2> QED BY <1>3, <1>6, <1>8, <2>1, <2>2, <2>3, FeedbackWritten
  <1>9. CASE stage = "register"
    <2> DEFINE parts == {"version", "mapping"}
    <2>1. Written(RegisterRows, parts) /\ fault' \in BOOLEAN
      BY <1>2, <1>9 DEF replay_request, Written, Control
    <2>2. /\ parts \in SUBSET Parts
          /\ {"form", "pool", "experiment", "feedback", "c1", "c2"} \cap (parts \cup {"answer"}) = {}
      BY DEF Parts
    <2>3. HasExperiment
      BY <1>9 DEF HasExperiment
    <2> HIDE DEF parts
    <2> QED BY <1>3, <1>6, <1>9, <2>1, <2>2, <2>3, RegisterWritten
  <1> QED BY <1>1, <1>5, <1>7, <1>8, <1>9

\* RefreshLinks, the refresh racing the client's reads, preserves the invariant.
LEMMA RefreshStep ==
  ASSUME ChainInv, RefreshLinks
  PROVE  ChainInv'
  <1>1. /\ pc = "check" /\ stage = "register" /\ cur' = [cur EXCEPT !.validity.ts_summary = 1]
        /\ UNCHANGED <<past, pastFb, client, request, stage, round, pc, replayed, cleared, tracked, fault, outcome>>
        /\ refreshed' = TRUE
    BY DEF RefreshLinks
  <1>2. Control /\ Shape /\ Links /\ Past
    BY <1>1 DEF ChainInv
  <1>3. DOMAIN cur' = Parts /\ \A p \in Parts \ {"validity"} : cur'[p] = cur[p]
    BY <1>1, <1>2 DEF Shape, Parts
  <1>4. /\ cur'.form = cur.form /\ cur'.pool = cur.pool /\ cur'.version = cur.version
        /\ cur'.experiment = cur.experiment /\ cur'.feedback = cur.feedback
        /\ cur'.n_detail = cur.n_detail /\ cur'.c1 = cur.c1 /\ cur'.c2 = cur.c2
    BY <1>3 DEF Parts
  <1>5. Control' /\ outcome' = Null
    BY <1>1, <1>2 DEF Control
  <1>6. Shape'
    BY <1>1, <1>2, <1>3, <1>4 DEF Shape, HasVersion, HasExperiment
  <1>7. Components' = Components
    BY <1>4 DEF Components
  <1>8. Links'
    BY <1>1, <1>2, <1>4, <1>7 DEF Links, HasExperiment, Unread
  <1>9. ~Fresh /\ ~Fresh' /\ HasVersion /\ ~Unread("version") /\ ~Unread("version")'
    BY <1>1 DEF Fresh, Unread, HasVersion, HasExperiment
  <1>10. PastLinked' /\ PastHashes' /\ PastCombos'
    BY <1>1, <1>2, <1>9, PastKept
  <1>11. CurrentHash'
    BY <1>1, <1>2, <1>4, <1>9, CurrentHashKept
  <1> QED BY <1>1, <1>5, <1>6, <1>8, <1>10, <1>11, NotYetRead DEF ChainInv, Past

-----------------------------------------------------------------------------
(* Half-finished states.                                                   *)

\* What every ..._for_test helper leaves alone.
Undone(rows) ==
    /\ DOMAIN rows = Parts
    /\ DOMAIN rows.form = FormFields /\ rows.form.id = cur.form.id /\ DOMAIN rows.pool = PoolFields
    /\ HasVersion => /\ DOMAIN rows.version = VersionFields /\ rows.version.id = cur.version.id
                     /\ rows.version.hash = cur.version.hash
    /\ HasExperiment => DOMAIN rows.experiment = ExperimentFields /\ rows.experiment.id = cur.experiment.id
    /\ stage = "feedback" => rows.version.experiment = cur.version.experiment
    /\ stage = "register" => rows.experiment = cur.experiment /\ rows.n_detail = cur.n_detail
    /\ round > 0 => DOMAIN rows.feedback = FeedbackFields
    /\ rows.c1 \in {cur.c1, Null} /\ rows.c2 = cur.c2

\* A helper that leaves that much preserves the invariant, also when it stops
\* with RuntimeError after its commit.
LEMMA UndoStep ==
  ASSUME ChainInv, NEW rows, NEW parts, Undo(rows, parts), Undone(rows),
         stage \in {"version", "experiment", "feedback", "register"} \/ (stage = "claim" /\ round = 0)
  PROVE  ChainInv'
  <1>1. /\ pc = "ready" /\ outcome = Null /\ cur' = rows
        /\ UNCHANGED <<past, pastFb, client, request, stage, round, replayed, tracked, fault, refreshed>>
        /\ \/ cleared' = TRUE /\ UNCHANGED <<pc, outcome>>
           \/ pc' = "done" /\ outcome' = "RuntimeError" /\ UNCHANGED cleared
    BY DEF Undo
  <1>2. Control /\ Shape /\ Links /\ Past
    BY <1>1 DEF ChainInv
  <1>3. Control'
    BY <1>1, <1>2, ValueAssumption DEF Control, ValueAssumption, Outcomes
  <1>4. AcceptedIsOneChain'
    BY <1>1, ValueAssumption DEF ValueAssumption, Outcomes, AcceptedIsOneChain, Validated
  <1>5. CASE pc' = "done"
    BY <1>1, <1>3, <1>4, <1>5 DEF ChainInv
  <1>6. CASE pc' = "ready"
    <2>1. Shape'
      BY <1>1, <1>2, <1>6 DEF Shape, Undone, HasVersion, HasExperiment
    <2>2. Components' \subseteq Components
      BY <1>1 DEF Components, Undone
    <2>3. Links'
      BY <1>1, <1>2, <1>6, <2>2 DEF Links, Undone, HasVersion, HasExperiment, Unread
    <2>4. ~Fresh /\ ~Fresh' /\ ~Unread("version") /\ ~Unread("version")'
      BY <1>1, <1>6 DEF Fresh, Unread
    <2>5. PastLinked' /\ PastHashes' /\ PastCombos'
      BY <1>1, <1>2, <1>6, <2>4, PastKept DEF Past, PastCombos
    <2>6. CurrentHash'
      <3>1. CASE HasVersion
        <4>1. cur'.version.hash = cur.version.hash
          BY <1>1, <3>1 DEF Undone
        <4> QED BY <1>1, <1>2, <2>4, <3>1, <4>1, CurrentHashKept
      <3>2. CASE ~HasVersion
        BY <1>1, <2>4, <3>2 DEF CurrentHash, HasVersion, HasExperiment
      <3> QED BY <3>1, <3>2
    <2> QED BY <1>1, <1>3, <1>4, <2>1, <2>3, <2>5, <2>6 DEF ChainInv, Past
  <1> QED BY <1>1, <1>5, <1>6

\* The columns of the rows a helper finds.
LEMMA RowsBeforeUndo ==
  ASSUME ChainInv, pc = "ready", stage # "none"
  PROVE  /\ DOMAIN cur = Parts
         /\ DOMAIN cur.form = FormFields /\ DOMAIN cur.pool = PoolFields
         /\ HasVersion => DOMAIN cur.version = VersionFields
         /\ HasExperiment => DOMAIN cur.experiment = ExperimentFields
         /\ round > 0 => DOMAIN cur.feedback = FeedbackFields
  BY DEF ChainInv, Shape

\* clear_experiment_links_for_test preserves the invariant.
LEMMA UndoExperiment ==
  ASSUME ChainInv, clear_experiment_links_for_test
  PROVE  ChainInv'
  <1> DEFINE rows == [cur EXCEPT !.form.status = "processing", !.form.experiment = Null,
                                 !.version.experiment = Null]
  <1>1. stage = "experiment" /\ pc = "ready" /\ Undo(rows, {"form", "version"})
    BY DEF clear_experiment_links_for_test, Undo
  <1>2. Undone(rows)
    <2>1. HasVersion /\ HasExperiment
      BY <1>1 DEF HasVersion, HasExperiment
    <2> QED BY <1>1, <2>1, RowsBeforeUndo DEF Undone, Parts, FormFields, VersionFields
  <1> HIDE DEF rows
  <1> QED BY <1>1, <1>2, UndoStep

\* clear_next_version_links_for_test preserves the invariant.
LEMMA UndoNextVersion ==
  ASSUME ChainInv, clear_next_version_links_for_test
  PROVE  ChainInv'
  <1> DEFINE rows == [cur EXCEPT !.feedback.status = "processing", !.feedback.next_run = Null,
                        !.feedback.next_version = Null, !.feedback.next_experiment = Null,
                        !.form.status = "processing", !.form.run = Null, !.form.version = Null,
                        !.form.experiment = Null]
  <1>1. stage = "version" /\ round > 0 /\ pc = "ready" /\ Undo(rows, {"feedback", "form"})
    BY DEF clear_next_version_links_for_test, Undo
  <1>2. Undone(rows)
    <2>1. HasVersion /\ ~HasExperiment
      BY <1>1 DEF HasVersion, HasExperiment
    <2> QED BY <1>1, <2>1, RowsBeforeUndo DEF Undone, Parts, FormFields
  <1> HIDE DEF rows
  <1> QED BY <1>1, <1>2, UndoStep

\* clear_next_version_pointer_for_test preserves the invariant.
LEMMA UndoPointer ==
  ASSUME ChainInv, clear_next_version_pointer_for_test
  PROVE  ChainInv'
  <1>1. stage = "version" /\ round > 0 /\ pc = "ready"
    BY DEF clear_next_version_pointer_for_test, Undo
  <1>2. HasVersion /\ ~HasExperiment
    BY <1>1 DEF HasVersion, HasExperiment
  <1>3. ASSUME NEW target \in {<<"feedback", "next_run">>, <<"feedback", "next_version">>,
                               <<"form", "run">>, <<"form", "version">>}
        PROVE  Undone([cur EXCEPT ![target[1]][target[2]] = Null])
    <2>1. \/ target[1] = "feedback" /\ target[2] # "id"
          \/ target[1] = "form" /\ target[2] \in {"run", "version"}
      BY <1>3
    <2> QED BY <1>1, <1>2, <2>1, RowsBeforeUndo DEF Undone, Parts, FormFields
  <1> QED BY <1>1, <1>3, UndoStep DEF clear_next_version_pointer_for_test

\* prepare_feedback_partial_replay_for_test preserves the invariant.
LEMMA UndoFeedback ==
  ASSUME ChainInv, prepare_feedback_partial_replay_for_test
  PROVE  ChainInv'
  <1> DEFINE rows == [cur EXCEPT !.feedback = [@ EXCEPT !.status = "preparing", !.next_run = Null,
                                                !.next_version = Null, !.next_experiment = Null],
                        !.version.status = "candidate",
                        !.experiment.valid = TRUE, !.experiment.reason = Null,
                        !.form = [@ EXCEPT !.status = "completed", !.run = client.claim.run,
                                           !.version = cur.version.id, !.experiment = cur.experiment.id]]
  <1>1. stage = "feedback" /\ pc = "ready" /\ Undo(rows, {})
    BY DEF prepare_feedback_partial_replay_for_test, Undo
  <1>2. Undone(rows)
    <2>1. HasVersion /\ HasExperiment
      BY <1>1 DEF HasVersion, HasExperiment
    <2> QED BY <1>1, <2>1, RowsBeforeUndo DEF Undone, Parts, FormFields, VersionFields, ExperimentFields
  <1> HIDE DEF rows
  <1> QED BY <1>1, <1>2, UndoStep

\* clear_registration_marker_for_test preserves the invariant.
LEMMA UndoMarker ==
  ASSUME ChainInv, clear_registration_marker_for_test
  PROVE  ChainInv'
  <1> DEFINE rows == [cur EXCEPT !.mapping = Null]
  <1>1. stage = "register" /\ pc = "ready" /\ Undo(rows, {"mapping"})
    BY DEF clear_registration_marker_for_test, Undo
  <1>2. Undone(rows)
    <2>1. HasVersion /\ HasExperiment
      BY <1>1 DEF HasVersion, HasExperiment
    <2> QED BY <1>1, <2>1, RowsBeforeUndo DEF Undone, Parts
  <1> HIDE DEF rows
  <1> QED BY <1>1, <1>2, UndoStep

\* clear_one_next_version_component_for_test preserves the invariant.
LEMMA UndoComponent ==
  ASSUME ChainInv, clear_one_next_version_component_for_test
  PROVE  ChainInv'
  <1> DEFINE rows == [cur EXCEPT !.c1 = Null]
  <1>1. stage = "version" /\ round > 0 /\ pc = "ready" /\ Undo(rows, {"c1"})
    BY DEF clear_one_next_version_component_for_test, Undo
  <1>2. Undone(rows)
    <2>1. HasVersion /\ ~HasExperiment
      BY <1>1 DEF HasVersion, HasExperiment
    <2> QED BY <1>1, <2>1, RowsBeforeUndo DEF Undone, Parts
  <1> HIDE DEF rows
  <1> QED BY <1>1, <1>2, UndoStep

\* set_form_status_for_test and its like preserve the invariant.
LEMMA SetStep ==
  ASSUME ChainInv, set_for_test
  PROVE  ChainInv'
  <1>1. stage = "claim" /\ round = 0 /\ pc = "ready"
    BY DEF set_for_test, Undo
  <1>2. ~HasVersion /\ ~HasExperiment /\ ~(round > 0)
    BY <1>1 DEF HasVersion, HasExperiment
  <1>3. ASSUME NEW v PROVE /\ Undone([cur EXCEPT !.form.status = v]) /\ Undone([cur EXCEPT !.form.run = v])
                           /\ Undone([cur EXCEPT !.pool.status = v])
    BY <1>1, <1>2, RowsBeforeUndo DEF Undone, Parts, FormFields
  <1> QED BY <1>1, <1>3, UndoStep DEF set_for_test

\* prepare_form_for_worker preserves the invariant.
LEMMA PrepareStep ==
  ASSUME ChainInv, prepare_form_for_worker
  PROVE  ChainInv'
  <1>1. /\ pc = "ready" /\ outcome = Null /\ stage \in {"submit", "order"}
        /\ UNCHANGED <<past, pastFb, request, round, replayed, cleared, tracked, fault, refreshed>>
    BY DEF prepare_form_for_worker
  <1>2. Control /\ Shape /\ Links /\ Past
    BY <1>1 DEF ChainInv
  <1>3. round = 0 /\ Len(past) = 0 /\ tracked = {1} /\ cur.form.id = 1
    BY <1>1, <1>2 DEF Control, Shape, Links, Unread
  <1>4. CASE cur.pool.status = "locked"
    <2>1. pc' = "done" /\ outcome' = "RuntimeError" /\ UNCHANGED <<cur, client, stage>>
      BY <1>4 DEF prepare_form_for_worker
    <2>2. Control'
      BY <1>1, <1>2, <2>1, ValueAssumption DEF Control, ValueAssumption, Outcomes
    <2>3. AcceptedIsOneChain'
      BY <2>1 DEF AcceptedIsOneChain, Validated
    <2> QED BY <1>1, <2>1, <2>2, <2>3 DEF ChainInv
  <1>5. CASE cur.pool.status # "locked"
    <2>1. /\ cur' = [cur EXCEPT !.pool.status = "locked",
                                !.form = [@ EXCEPT !.status = "processing", !.run = 1,
                                                   !.version = Null, !.experiment = Null]]
          /\ stage' = "claim" /\ UNCHANGED <<pc, outcome>> /\ DOMAIN client' = DOMAIN client
      BY <1>5 DEF prepare_form_for_worker
    <2>2. /\ DOMAIN cur' = Parts /\ DOMAIN cur'.form = FormFields /\ cur'.form.id = 1
          /\ DOMAIN cur'.pool = PoolFields
      BY <1>1, <1>2, <2>1 DEF Shape, Parts, FormFields
    <2>3. Control'
      BY <1>1, <1>2, <1>3, <2>1 DEF Control, Stages
    <2>4. Shape'
      BY <1>1, <1>3, <2>1, <2>2 DEF Shape, HasVersion, HasExperiment
    <2>5. Links'
      BY <1>1, <1>3, <2>1, <2>2 DEF Links, HasExperiment, Unread
    <2>6. Past'
      BY <1>1, <1>3, <2>1 DEF Past, PastLinked, PastHashes, PastCombos, CurrentHash, HasVersion, HasExperiment,
                              Unread, Fresh
    <2>7. AcceptedIsOneChain'
      BY <1>1, <1>3, <2>1, <2>2 DEF AcceptedIsOneChain
    <2> QED BY <1>1, <2>3, <2>4, <2>5, <2>6, <2>7 DEF ChainInv
  <1> QED BY <1>4, <1>5

-----------------------------------------------------------------------------
(* Checks of the client.                                                   *)

\* The client's checks only read.
CheckUnchanged == UNCHANGED <<cur, past, pastFb, request, stage, round, replayed, cleared, tracked, fault, refreshed>>

\* A rejected answer ends the test; nothing has been accepted.
LEMMA CheckRejects ==
  ASSUME ChainInv, Check, ~Accepted
  PROVE  ChainInv'
  <1>1. pc' = "done" /\ outcome' = "FAIL_CONTRACT" /\ UNCHANGED client /\ CheckUnchanged /\ stage # "none"
    BY DEF Check, CheckUnchanged, ChainInv, Control
  <1>2. Control'
    BY <1>1, ValueAssumption DEF ChainInv, Control, CheckUnchanged, ValueAssumption, Outcomes
  <1>3. AcceptedIsOneChain'
    BY <1>1 DEF AcceptedIsOneChain, Validated
  <1> QED BY <1>1, <1>2, <1>3 DEF ChainInv, CheckUnchanged

\* What an accepted answer leaves as it was.
LEMMA CheckKeeps ==
  ASSUME ChainInv, Check, Accepted
  PROVE  /\ pc = "check" /\ pc' = "ready" /\ outcome' = Null /\ outcome = Null /\ client' = Handed /\ CheckUnchanged
         /\ stage \in Stages \ {"none"} /\ Shape /\ Links /\ Past /\ Control /\ Shape'
         /\ IsSeq(past') /\ IsSeq(pastFb')
  <1>1. /\ pc = "check" /\ pc' = "ready" /\ outcome' = Null /\ outcome = Null /\ client' = Handed
        /\ CheckUnchanged /\ Control /\ Shape /\ Links /\ Past /\ IsSeq(past) /\ IsSeq(pastFb)
    BY DEF Check, ChainInv, Control, CheckUnchanged
  <1>2. stage \in Stages \ {"none"}
    BY <1>1 DEF Control
  <1>3. Shape'
    BY <1>1 DEF Shape, CheckUnchanged, HasVersion, HasExperiment
  <1> QED BY <1>1, <1>2, <1>3 DEF CheckUnchanged

\* Control survives an accepted answer.
LEMMA ControlChecked ==
  ASSUME Control, pc' = "ready", outcome' = Null, CheckUnchanged, DOMAIN client' = DOMAIN client
  PROVE  Control'
  BY DEF Control, CheckUnchanged

\* An accepted form and its rows establish the first links: form, pool, members
\* and the tracked id are of one task.
LEMMA CheckSubmit ==
  ASSUME ChainInv, Check, Accepted, stage = "submit"
  PROVE  ChainInv'
  <1>1. /\ pc = "check" /\ pc' = "ready" /\ outcome' = Null /\ client' = Handed /\ CheckUnchanged
        /\ Shape /\ Links /\ Past /\ Control /\ Shape' /\ IsSeq(past') /\ IsSeq(pastFb')
    BY CheckKeeps
  <1>2. SubmitAccepted /\ client' = [client EXCEPT !.task = Task]
    BY <1>1 DEF Accepted, Handed
  <1>3. Control'
    BY <1>1, <1>2, ControlChecked
  <1>4. round = 0 /\ Len(past) = 0 /\ cur.form.id = 1 /\ tracked = {cur.answer.form} \ {Null}
    BY <1>1 DEF Control, Shape, Links, Unread
  <1>5. /\ cur.answer.form = cur.form.id /\ cur.answer.form # Null
        /\ cur.answer.pool = cur.form.pool /\ cur.form.pool = cur.pool.id /\ cur.answer.form = cur.pool.form
    BY <1>2 DEF SubmitAccepted, SubmittedFormAnswered, Present, FormPersisted, FormRowPersisted, Same, Answer
  <1>6. \A m \in {cur.m1, cur.m2} : m.form = cur.answer.form /\ m.pool = cur.answer.pool
    <2>1. \A i \in {1, 2} : Members[i].form = Task.form /\ Members[i].pool = Task.pool
      BY <1>2 DEF SubmitAccepted, FormPersisted, MembersPersisted, Members
    <2>2. Task.form = cur.answer.form /\ Task.pool = cur.answer.pool
      BY DEF Task, Answer
    <2>3. Members[1] = cur.m1 /\ Members[2] = cur.m2
      BY DEF Members
    <2> QED BY <2>1, <2>2, <2>3
  <1>7. tracked = {1}
    BY <1>4, <1>5
  <1>8. Links'
    BY <1>1, <1>4, <1>5, <1>6, <1>7 DEF Links, HasExperiment, Unread, CheckUnchanged
  <1>9. Past'
    BY <1>1, <1>4 DEF Past, PastLinked, PastHashes, PastCombos, CurrentHash, HasVersion, HasExperiment,
                      Unread, Fresh, CheckUnchanged
  <1>10. AcceptedIsOneChain'
    BY <1>1, <1>4, <1>5, <1>6, <1>7 DEF AcceptedIsOneChain, CheckUnchanged
  <1> QED BY <1>1, <1>3, <1>8, <1>9, <1>10 DEF ChainInv

\* An accepted work order keeps the links of the form.
LEMMA CheckOrder ==
  ASSUME ChainInv, Check, Accepted, stage = "order"
  PROVE  ChainInv'
  <1>1. /\ pc = "check" /\ pc' = "ready" /\ outcome' = Null /\ client' = Handed /\ CheckUnchanged
        /\ Shape /\ Links /\ Past /\ Control /\ Shape' /\ IsSeq(past') /\ IsSeq(pastFb')
    BY CheckKeeps
  <1>2. client' = client
    BY <1>1 DEF Handed
  <1>3. Control'
    BY <1>1, <1>2, ControlChecked
  <1>4. round = 0 /\ Len(past) = 0 /\ cur.form.id = 1
    BY <1>1 DEF Control, Shape
  <1>5. Links'
    BY <1>1, <1>4 DEF Links, HasExperiment, Unread, CheckUnchanged
  <1>6. Past'
    BY <1>1, <1>4 DEF Past, PastLinked, PastHashes, PastCombos, CurrentHash, HasVersion, HasExperiment,
                      Unread, Fresh, CheckUnchanged
  <1>7. AcceptedIsOneChain'
    BY <1>1, <1>4, <1>5 DEF AcceptedIsOneChain, Links, Unread, CheckUnchanged
  <1> QED BY <1>1, <1>3, <1>5, <1>6, <1>7 DEF ChainInv

\* An accepted claim remembers the version it continues.
LEMMA CheckClaim ==
  ASSUME ChainInv, Check, Accepted, stage = "claim"
  PROVE  ChainInv'
  <1>1. /\ pc = "check" /\ pc' = "ready" /\ outcome' = Null /\ client' = Handed /\ CheckUnchanged
        /\ Shape /\ Links /\ Past /\ Control /\ Shape' /\ IsSeq(past') /\ IsSeq(pastFb')
    BY CheckKeeps
  <1>2. client' = [client EXCEPT !.claim = Claim]
    BY <1>1 DEF Handed
  <1>3. Control'
    BY <1>1, <1>2, ControlChecked
  <1>4. client'.version = client.version /\ client'.claim.source = client.version
    BY <1>1, <1>2 DEF Control, Claim
  <1>5. Links'
    BY <1>1 DEF Links, HasExperiment, Unread, CheckUnchanged, Components
  <1>6. ~Fresh /\ ~Fresh' /\ ~Unread("version") /\ ~Unread("version")'
    BY <1>1 DEF Fresh, Unread, CheckUnchanged
  <1>7. Past'
    <2>1. PastLinked'
      BY <1>1, <1>6 DEF Past, PastLinked, Settled, CheckUnchanged
    <2>2. PastHashes'
      BY <1>1 DEF Past, PastHashes, Canonical, CheckUnchanged
    <2>3. PastCombos'
      BY <1>1, <1>4, <1>6 DEF Past, PastCombos, Settled, CheckUnchanged
    <2>4. CurrentHash'
      BY <1>1, <1>6 DEF Past, CurrentHash, Canonical, CheckUnchanged, HasVersion, HasExperiment
    <2> QED BY <2>1, <2>2, <2>3, <2>4 DEF Past
  <1>8. AcceptedIsOneChain'
    BY <1>1, <1>5 DEF AcceptedIsOneChain, Links, Shape, Unread, CheckUnchanged
  <1> QED BY <1>1, <1>3, <1>5, <1>7, <1>8 DEF ChainInv

\* The history is unaffected by the check of any other call.
LEMMA PastChecked ==
  ASSUME Control, Past, pc = "check", pc' = "ready", stage \notin {"claim", "version"}, CheckUnchanged,
         client'.version = client.version, client'.claim = client.claim
  PROVE  Past'
  <1>1. ~Fresh /\ ~Fresh' /\ ~Unread("version") /\ ~Unread("version")'
    BY DEF Fresh, Unread, CheckUnchanged
  <1>2. PastLinked'
    BY <1>1 DEF Past, PastLinked, Settled, CheckUnchanged
  <1>3. PastHashes'
    BY DEF Past, PastHashes, Canonical, CheckUnchanged
  <1>4. PastCombos'
    BY <1>1 DEF Past, PastCombos, Settled, CheckUnchanged
  <1>5. CurrentHash'
    BY <1>1 DEF Past, CurrentHash, Canonical, CheckUnchanged, HasVersion, HasExperiment
  <1> QED BY <1>2, <1>3, <1>4, <1>5 DEF Past

\* An accepted experiment: version, form and experiment point to each other, and
\* the combination is the claimed one.
LEMMA CheckExperiment ==
  ASSUME ChainInv, Check, Accepted, stage = "experiment"
  PROVE  ChainInv'
  <1>1. /\ pc = "check" /\ pc' = "ready" /\ outcome' = Null /\ client' = Handed /\ CheckUnchanged
        /\ Shape /\ Links /\ Past /\ Control /\ Shape' /\ IsSeq(past') /\ IsSeq(pastFb')
    BY CheckKeeps
  <1>2. ExperimentAccepted /\ client' = [client EXCEPT !.experiment = Answer.experiment]
    BY <1>1 DEF Accepted, Handed
  <1>3. Control'
    BY <1>1, <1>2, ControlChecked
  <1>4. client'.version = client.version /\ client'.claim = client.claim
    BY <1>1, <1>2 DEF Control
  <1>5. /\ cur.form.version = cur.version.id /\ cur.version.experiment = cur.experiment.id
        /\ cur.form.experiment = cur.experiment.id /\ cur.experiment.combo = cur.version.combo
        /\ cur.version.combo = client.version.combo
    BY <1>2 DEF ExperimentAccepted, ExperimentAnswered, ExperimentPersisted, ExperimentRowPersisted, Same,
                ExperimentLinked, Answer
  <1>6. Links'
    BY <1>1, <1>4 DEF Links, HasExperiment, Unread, CheckUnchanged, Components
  <1>7. Past'
    BY <1>1, <1>4, PastChecked
  <1>8. AcceptedIsOneChain'
    <2>1. tracked = {cur.form.id} /\ \A c \in Components : c.version = cur.version.id
      BY <1>1 DEF Links, Shape, HasExperiment, Unread
    <2>2. round = 0 => cur.version.combo = client.claim.combo
      BY <1>1, <1>5 DEF Links
    <2> QED BY <1>1, <1>4, <1>5, <2>1, <2>2 DEF AcceptedIsOneChain, CheckUnchanged, Components
  <1> QED BY <1>1, <1>3, <1>6, <1>7, <1>8 DEF ChainInv

\* An accepted rejection names the experiment of the version it rejects.
LEMMA CheckFeedback ==
  ASSUME ChainInv, Check, Accepted, stage = "feedback"
  PROVE  ChainInv'
  <1>1. /\ pc = "check" /\ pc' = "ready" /\ outcome' = Null /\ client' = Handed /\ CheckUnchanged
        /\ Shape /\ Links /\ Past /\ Control /\ Shape' /\ IsSeq(past') /\ IsSeq(pastFb')
    BY CheckKeeps
  <1>2. FeedbackAccepted /\ client' = client
    BY <1>1 DEF Accepted, Handed
  <1>3. Control'
    BY <1>1, <1>2, ControlChecked
  <1>4. cur.version.experiment = cur.experiment.id
    BY <1>2 DEF FeedbackAccepted, FeedbackPersisted, FeedbackRowPersisted, RejectionPersisted, Same, Answer
  <1>5. Links'
    BY <1>1, <1>2, <1>4 DEF Links, HasExperiment, Unread, CheckUnchanged, Components
  <1>6. Past'
    BY <1>1, <1>2, PastChecked
  <1>7. AcceptedIsOneChain'
    BY <1>1, <1>5 DEF AcceptedIsOneChain, Links, Shape, Unread, CheckUnchanged
  <1> QED BY <1>1, <1>3, <1>5, <1>6, <1>7 DEF ChainInv

\* An accepted registration: mapping, sub-factor, detail and version agree, over
\* the nested objects of the answer.
LEMMA CheckRegister ==
  ASSUME ChainInv, Check, Accepted, stage = "register", ~replayed
  PROVE  ChainInv'
  <1>1. /\ pc = "check" /\ pc' = "ready" /\ outcome' = Null /\ client' = Handed /\ CheckUnchanged
        /\ Shape /\ Links /\ Past /\ Control /\ Shape' /\ IsSeq(past') /\ IsSeq(pastFb')
    BY CheckKeeps
  <1>2. RegisterAccepted /\ client' = [client EXCEPT !.registration = Answer]
    BY <1>1 DEF Accepted, Handed
  <1>3. /\ DOMAIN client' = DOMAIN client /\ client'.version = client.version /\ client'.claim = client.claim
         /\ client'.task = client.task
    BY <1>1, <1>2 DEF Control
  <1>4. Control'
    BY <1>1, <1>3, ControlChecked
  <1>5. /\ cur.form.version = cur.version.id /\ cur.version.experiment = cur.experiment.id
        /\ cur.form.experiment = cur.experiment.id /\ cur.experiment.combo = cur.version.combo
        /\ cur.experiment.valid = TRUE
    BY <1>2 DEF RegisterAccepted, RegistrationPersisted, PointersFit
  <1>6. /\ cur.mapping.hash = cur.version.hash /\ cur.mapping.combo = cur.version.combo
        /\ cur.mapping.sub = cur.answer.sub /\ cur.sub.id = cur.answer.sub
    BY <1>2 DEF RegisterAccepted, RegistrationPersisted, MappingPersisted, Same, Rows, Answer
  <1>7. cur.detail.factor = cur.answer.sub
    <2>1. cur.n_detail.factor = cur.answer.sub
      BY <1>2 DEF RegisterAccepted, RegistrationAnswered, NestedIdentitiesFit, Answer
    <2>2. Nested.detail = cur.n_detail /\ Rows.detail = cur.detail /\ "detail" \in DOMAIN Nested
      BY DEF Nested, Rows
    <2>3. \A f \in DOMAIN Nested.detail : Nested.detail[f] = Rows.detail[f]
      BY <1>2, <2>2 DEF RegisterAccepted, RegistrationPersisted, NestedStored
    <2>4. "factor" \in DOMAIN cur.n_detail
      BY <1>1 DEF Shape
    <2> QED BY <2>1, <2>2, <2>3, <2>4
  <1>8. Links'
    BY <1>1, <1>3, <1>5 DEF Links, HasExperiment, Unread, CheckUnchanged, Components
  <1>9. Past'
    BY <1>1, <1>3, PastChecked
  <1>10. AcceptedIsOneChain'
    <2>1. tracked = {cur.form.id} /\ \A c \in Components : c.version = cur.version.id
      BY <1>1 DEF Links, Shape, HasExperiment, Unread
    <2>2. round = 0 => cur.version.combo = client.claim.combo
      BY <1>1, <1>5 DEF Links
    <2> QED BY <1>1, <1>3, <1>5, <1>6, <1>7, <2>1, <2>2 DEF AcceptedIsOneChain, CheckUnchanged, Components
  <1> QED BY <1>1, <1>4, <1>8, <1>9, <1>10 DEF ChainInv

\* A repeated registration that repeats the first answer is accepted; the rows
\* behind it are not read again, and nothing is promised about them.
LEMMA CheckReplay ==
  ASSUME ChainInv, Check, Accepted, stage = "register", replayed
  PROVE  ChainInv'
  <1>1. /\ pc = "check" /\ pc' = "ready" /\ outcome' = Null /\ client' = Handed /\ CheckUnchanged
        /\ Shape /\ Links /\ Past /\ Control /\ Shape' /\ IsSeq(past') /\ IsSeq(pastFb')
    BY CheckKeeps
  <1>2. client' = client
    BY <1>1 DEF Handed
  <1>3. Control'
    BY <1>1, <1>2, ControlChecked
  <1>4. Links'
    BY <1>1, <1>2 DEF Links, HasExperiment, Unread, CheckUnchanged, Components
  <1>5. Past'
    BY <1>1, <1>2, PastChecked
  <1>6. AcceptedIsOneChain'
    BY <1>1 DEF AcceptedIsOneChain, Validated, CheckUnchanged
  <1> QED BY <1>1, <1>3, <1>4, <1>5, <1>6 DEF ChainInv

\* What the checks of a version have compared (require_combo_version,
\* require_next_version and the rows behind them).
LEMMA VersionRead ==
  ASSUME VersionAccepted
  PROVE  /\ cur.form.version = cur.version.id /\ cur.version.pool = cur.form.pool
         /\ cur.answer.combo = cur.version.combo /\ cur.answer.hash = cur.version.hash
         /\ \A c \in Components : c.version = cur.version.id
         /\ round = 0 => cur.version.combo = client.claim.combo
         /\ round # 0 => LET source == past[Len(past)] IN
                         /\ source.version.status = "rejected" /\ source.version.hash # Null
                         /\ source.version.combo = cur.version.combo
                         /\ source.version.hash # cur.version.hash
                         /\ client.claim.source.combo = cur.version.combo
                         /\ cur.feedback.source_version = source.version.id
                         /\ cur.feedback.source_experiment = source.version.experiment
                         /\ cur.feedback.next_version = cur.version.id
  <1>1. VersionRowPersisted(Answer, request, cur.form, cur.version, Components)
    BY DEF VersionAccepted, VersionPersisted, NextVersionPersisted
  <1>2. /\ Answer.version = cur.version.id /\ Answer.combo = cur.version.combo
        /\ Answer.hash = cur.version.hash /\ cur.form.version = Answer.version
        /\ cur.form.pool = cur.version.pool
        /\ \A c \in Components : c.version = Answer.version
    BY <1>1 DEF VersionRowPersisted, Same, ComponentsPersisted, OwnComponents
  <1>3. CASE round = 0
    <2>1. Answer.combo = client.claim.combo
      BY <1>3 DEF VersionAccepted, VersionAnswered
    <2> QED BY <1>2, <1>3, <2>1 DEF Answer
  <1>4. CASE round # 0
    <2> DEFINE source == past[Len(past)]
    <2>1. /\ NextVersionAnswered(Answer, client.claim, client.task, client.claim.source)
          /\ FeedbackLinked(Answer, cur.feedback, cur.version, source.version, cur.form)
      BY <1>4 DEF VersionAccepted, NextVersionPersisted
    <2>2. Answer.combo = client.claim.source.combo
      BY <2>1 DEF NextVersionAnswered
    <2>3. /\ source.version.status = "rejected" /\ source.version.hash # Null
          /\ source.version.combo = Answer.combo
          /\ source.version.hash # Answer.hash
          /\ cur.feedback.source_version = source.version.id
          /\ cur.feedback.source_experiment = source.version.experiment
          /\ cur.feedback.next_version = Answer.version
      <3> HIDE DEF source
      <3> QED BY <2>1 DEF FeedbackLinked, Present, Same
    <2> QED BY <1>2, <1>4, <2>2, <2>3 DEF Answer
  <1> QED BY <1>3, <1>4

\* Neighbouring past versions differ in content: both hashes are present, and at
\* most one of them is not its round's.
LEMMA HashesDiffer ==
  ASSUME PastHashes, Len(past) \in Nat, NEW i \in 1..(Len(past) - 1),
         past[i].version.hash # Null, past[i + 1].version.hash # Null
  PROVE  past[i + 1].version.hash # past[i].version.hash
  <1>1. i \in 1..Len(past) /\ i + 1 \in 1..Len(past) /\ i # i + 1 /\ i \in Int /\ i + 1 \in Int
    OBVIOUS
  <1>2. /\ past[i].version.hash \in {i, Other} /\ past[i + 1].version.hash \in {i + 1, Other}
        /\ past[i].version.hash = i \/ past[i + 1].version.hash = i + 1
    BY <1>1 DEF PastHashes, Canonical
  <1> QED BY <1>1, <1>2, ValueAssumption DEF ValueAssumption

\* An accepted version extends the chain: the source is rejected, shares the
\* combination and differs in hash, and the feedback row links the two.
LEMMA CheckVersion ==
  ASSUME ChainInv, Check, Accepted, stage = "version"
  PROVE  ChainInv'
  <1>1. /\ pc = "check" /\ pc' = "ready" /\ outcome' = Null /\ client' = Handed /\ CheckUnchanged
        /\ Shape /\ Links /\ Past /\ Control /\ Shape' /\ IsSeq(past') /\ IsSeq(pastFb')
    BY CheckKeeps
  <1>2. /\ VersionAccepted
        /\ client' = [client EXCEPT !.version = [version |-> Answer.version, combo |-> Answer.combo,
                                                 pool |-> Answer.pool, hash |-> Answer.hash]]
    BY <1>1 DEF Accepted, Handed
  <1>3. Control'
    BY <1>1, <1>2, ControlChecked
  <1>4. client'.version.combo = cur.version.combo /\ client'.claim = client.claim
    <2>1. client'.version = [version |-> Answer.version, combo |-> Answer.combo,
                             pool |-> Answer.pool, hash |-> Answer.hash] /\ client'.claim = client.claim
      BY <1>1, <1>2 DEF Control
    <2>2. Answer.combo = cur.version.combo
      BY <1>2, VersionRead DEF Answer
    <2> QED BY <2>1, <2>2
  <1>5. /\ Len(past) = round /\ Len(past) \in Nat /\ ~Fresh' /\ Unread("version") /\ ~Unread("version")'
        /\ cur.form.id = 1
    BY <1>1, WorkerAssumption DEF Control, Fresh, Unread, CheckUnchanged, Shape, WorkerAssumption
  <1>6. /\ cur.form.version = cur.version.id /\ cur.version.pool = cur.form.pool
        /\ \A c \in Components : c.version = cur.version.id
        /\ round = 0 => cur.version.combo = client.claim.combo
        /\ cur.version.hash = Len(past) + 1
    BY <1>1, <1>2, <1>5, VersionRead DEF Past, CurrentHash
  <1>7. Links'
    BY <1>1, <1>4, <1>6 DEF Links, HasExperiment, Unread, CheckUnchanged
  <1>8. \A i \in 1..Len(past) : /\ past[i].version.status = "rejected" /\ past[i].version.hash # Null
                                /\ past[i].version.experiment = past[i].experiment.id
    <2>1. ASSUME NEW i \in 1..Len(past), i < Len(past)
          PROVE  past[i].version.status = "rejected" /\ past[i].version.hash # Null
      BY <1>1, <2>1 DEF Past, PastLinked, Settled
    <2>2. Len(past) # 0 => past[Len(past)].version.status = "rejected" /\ past[Len(past)].version.hash # Null
      BY <1>2, <1>5, VersionRead
    <2>3. \A i \in 1..Len(past) : past[i].version.experiment = past[i].experiment.id
      BY <1>1 DEF Past, PastLinked
    <2>4. \A i \in 1..Len(past) : i < Len(past) \/ (i = Len(past) /\ Len(past) # 0)
      BY <1>5
    <2> QED BY <2>1, <2>2, <2>3, <2>4
  <1>9. \A i \in 1..(Len(past) - 1) : past[i + 1].version.combo = past[i].version.combo
    <2> SUFFICES ASSUME NEW i \in 1..(Len(past) - 1)
                 PROVE  past[i + 1].version.combo = past[i].version.combo
      OBVIOUS
    <2>1. CASE Settled(i + 1)
      BY <1>1, <2>1 DEF Past, PastCombos
    <2>2. CASE ~Settled(i + 1)
      <3>1. Fresh /\ i + 1 = Len(past) /\ i = Len(past) - 1 /\ Len(past) > 1 /\ round # 0
        BY <1>5, <2>2 DEF Settled
      <3>2. client.claim.source.combo = past[Len(past) - 1].version.combo
        BY <1>1, <3>1 DEF Past, PastCombos
      <3>3. past[Len(past)].version.combo = client.claim.source.combo
        BY <1>2, <3>1, VersionRead
      <3> QED BY <3>1, <3>2, <3>3
    <2> QED BY <2>1, <2>2
  <1>10. Len(past) > 0 => /\ cur.version.combo = past[Len(past)].version.combo
                          /\ cur.version.hash # past[Len(past)].version.hash
    <2>1. Len(past) > 0 => round # 0
      BY <1>5
    <2> QED BY <1>2, <2>1, VersionRead
  <1>11. Past'
    <2>1. PastLinked'
      BY <1>1, <1>8 DEF PastLinked, CheckUnchanged
    <2>2. PastHashes'
      BY <1>1 DEF Past, PastHashes, Canonical, CheckUnchanged
    <2>3. PastCombos'
      BY <1>1, <1>4, <1>5, <1>9, <1>10 DEF PastCombos, CheckUnchanged
    <2>4. CurrentHash'
      BY <1>1, <1>5, <1>6 DEF CurrentHash, CheckUnchanged
    <2> QED BY <2>1, <2>2, <2>3, <2>4 DEF Past
  <1>12. AcceptedIsOneChain'
    <2>1. tracked = {cur.form.id}
      BY <1>1, <1>5 DEF Links, Unread
    <2>2. ASSUME NEW i \in DOMAIN past
          PROVE  LET next == IF i < Len(past) THEN past[i + 1].version ELSE cur.version
                 IN /\ past[i].version.status = "rejected"
                    /\ next.combo = past[i].version.combo /\ next.hash # past[i].version.hash
      <3>1. DOMAIN past = 1..Len(past)
        BY <1>1 DEF IsSeq, CheckUnchanged
      <3>2. CASE i < Len(past)
        <4>1. i \in 1..(Len(past) - 1) /\ i + 1 \in 1..Len(past)
          BY <1>5, <3>1, <3>2
        <4>2. past[i + 1].version.hash # past[i].version.hash
          BY <1>1, <1>5, <1>8, <3>1, <4>1, HashesDiffer DEF Past
        <4> QED BY <1>8, <1>9, <3>1, <3>2, <4>1, <4>2
      <3>3. CASE ~(i < Len(past))
        <4>1. i = Len(past) /\ Len(past) > 0
          BY <1>5, <3>1, <3>3
        <4> QED BY <1>8, <1>10, <3>1, <3>3, <4>1
      <3> QED BY <3>2, <3>3
    <2>3. round > 0 =>
            LET source == past[Len(past)]
            IN /\ cur.feedback.source_version = source.version.id
               /\ cur.feedback.source_experiment = source.experiment.id
               /\ cur.feedback.next_version = cur.version.id
      <3>1. round > 0 => round # 0 /\ Len(past) \in 1..Len(past)
        BY <1>5
      <3> QED BY <1>2, <1>8, <3>1, VersionRead
    <2> QED BY <1>1, <1>4, <1>6, <2>1, <2>2, <2>3 DEF AcceptedIsOneChain, CheckUnchanged, Components
  <1> QED BY <1>1, <1>3, <1>7, <1>11, <1>12 DEF ChainInv

-----------------------------------------------------------------------------
(* The theorems.                                                           *)

\* The invariant holds before the first call.
LEMMA InitHolds ==
  ASSUME Init
  PROVE  ChainInv
  <1>1. DOMAIN cur = Parts /\ DOMAIN client = {"task", "claim", "version", "experiment", "registration"}
    BY DEF Init, Empty, Parts
  <1>2. IsSeq(past) /\ IsSeq(pastFb) /\ Len(past) = 0 /\ Len(pastFb) = 0
    <2>1. <<>> \in Seq({}) /\ Len(<<>>) = 0
      OBVIOUS
    <2> QED BY <2>1 DEF Init, IsSeq
  <1>3. Control
    <2>1. 0 \in 0..MaxRounds
      BY WorkerAssumption DEF WorkerAssumption
    <2> QED BY <1>1, <1>2, <2>1 DEF Init, Control, Stages
  <1>4. Shape /\ Links
    BY <1>1 DEF Init, Shape, Links, HasVersion, HasExperiment, Unread
  <1>5. Past
    BY <1>2 DEF Init, Past, PastLinked, PastHashes, PastCombos, CurrentHash, HasVersion, HasExperiment,
                Unread, Fresh
  <1>6. AcceptedIsOneChain
    BY DEF Init, AcceptedIsOneChain, Validated
  <1> QED BY <1>2, <1>3, <1>4, <1>5, <1>6 DEF ChainInv

\* A refused request writes nothing and ends the test.
LEMMA RefusedStep ==
  ASSUME ChainInv, submit_mixed_parent_and_sub_factor_for_rejection \/ create_version_refused
  PROVE  ChainInv'
  <1>1. /\ pc' = "done" /\ outcome' = "REFUSED" /\ stage' \in {"submit", "claim"}
        /\ stage' = stage \/ (stage = "none" /\ stage' = "submit")
        /\ UNCHANGED <<cur, past, pastFb, client, round, replayed, cleared, tracked, fault, refreshed>>
    <2>1. CASE submit_mixed_parent_and_sub_factor_for_rejection
      BY <2>1 DEF submit_mixed_parent_and_sub_factor_for_rejection
    <2>2. CASE create_version_refused
      BY <2>2 DEF create_version_refused
    <2> QED BY <2>1, <2>2
  <1>2. Control'
    <2>1. "REFUSED" # Null
      BY ValueAssumption DEF ValueAssumption, Outcomes
    <2> QED BY <1>1, <2>1 DEF ChainInv, Control, Stages, Outcomes
  <1>3. AcceptedIsOneChain'
    BY <1>1 DEF AcceptedIsOneChain, Validated
  <1> QED BY <1>1, <1>2, <1>3 DEF ChainInv

\* A test that ends after an accepted call ends with the rows it accepted.
LEMMA FinishStep ==
  ASSUME ChainInv, Finish
  PROVE  ChainInv'
  <1>1. /\ pc = "ready" /\ ~cleared /\ stage # "none" /\ pc' = "done" /\ outcome' = "PASS"
        /\ UNCHANGED <<cur, past, pastFb, client, request, stage, round, replayed, cleared, tracked, fault, refreshed>>
    BY DEF Finish
  <1>2. Control'
    <2>1. "PASS" # Null
      BY ValueAssumption DEF ValueAssumption, Outcomes
    <2> QED BY <1>1, <2>1 DEF ChainInv, Control, Outcomes
  <1>3. AcceptedIsOneChain'
    BY <1>1 DEF ChainInv, AcceptedIsOneChain, Validated, Components
  <1> QED BY <1>1, <1>2, <1>3 DEF ChainInv

\* The invariant survives stuttering.
LEMMA StutterStep ==
  ASSUME ChainInv, UNCHANGED vars
  PROVE  ChainInv'
  <1>1. Control' /\ IsSeq(past') /\ IsSeq(pastFb')
    BY DEF ChainInv, Control, vars
  <1>2. pc' # "done" => Shape' /\ Links' /\ Past'
    BY DEF ChainInv, vars, Shape, Links, Past, PastLinked, PastHashes, PastCombos, CurrentHash, HasVersion,
           HasExperiment, Unread, Fresh, Settled, Canonical, Components
  <1>3. AcceptedIsOneChain'
    BY DEF ChainInv, AcceptedIsOneChain, Validated, Components, vars
  <1> QED BY <1>1, <1>2, <1>3 DEF ChainInv

\* Check preserves the invariant, whatever call it follows.
LEMMA CheckStep ==
  ASSUME ChainInv, Check
  PROVE  ChainInv'
  <1>1. Accepted => stage \in Stages \ {"none"}
    BY CheckKeeps
  <1> QED BY <1>1, CheckRejects, CheckSubmit, CheckOrder, CheckClaim, CheckVersion, CheckExperiment,
             CheckFeedback, CheckRegister, CheckReplay DEF Stages

\* Every step preserves the invariant.
LEMMA ChainInvNext ==
  ASSUME ChainInv, [Next]_vars
  PROVE  ChainInv'
  <1>1. ASSUME NEW d \in Directions, NEW direct \in BOOLEAN, submit_form(d, direct) PROVE ChainInv'
    BY <1>1, SubmitStep
  <1>2. CASE submit_mixed_parent_and_sub_factor_for_rejection \/ create_version_refused
    BY <1>2, RefusedStep
  <1>3. CASE get_work_order
    BY <1>3, OrderStep
  <1>4. CASE claim_legacy_pipeline
    BY <1>4, ClaimStep
  <1>5. CASE create_version
    BY <1>5, CreateStep
  <1>6. ASSUME NEW valid \in BOOLEAN, write_experiment(valid) PROVE ChainInv'
    BY <1>6, ExperimentStep
  <1>7. CASE submit_feedback
    BY <1>7, FeedbackStep
  <1>8. ASSUME NEW items, NEW codes, register_report(items, codes) PROVE ChainInv'
    BY <1>8, RegisterStep
  <1>9. CASE replay_request \/ RefreshLinks
    BY <1>9, ReplayStep, RefreshStep
  <1>10. CASE \/ clear_experiment_links_for_test \/ clear_next_version_links_for_test
              \/ clear_next_version_pointer_for_test \/ prepare_feedback_partial_replay_for_test
              \/ clear_registration_marker_for_test \/ clear_one_next_version_component_for_test
              \/ set_for_test
    BY <1>10, UndoExperiment, UndoNextVersion, UndoPointer, UndoFeedback, UndoMarker, UndoComponent, SetStep
  <1>11. CASE prepare_form_for_worker
    BY <1>11, PrepareStep
  <1>12. CASE Check \/ Finish
    BY <1>12, CheckStep, FinishStep
  <1>13. CASE Terminated \/ UNCHANGED vars
    BY <1>13, StutterStep DEF Terminated
  <1> QED BY <1>1, <1>2, <1>3, <1>4, <1>5, <1>6, <1>7, <1>8, <1>9, <1>10, <1>11, <1>12, <1>13, Zenon DEF Next

\* The inductive invariant holds in every behaviour, for every number of feedback
\* rounds, every combination id and every set of directions.
THEOREM ChainInvariant == Spec => []ChainInv
  <1>1. Init => ChainInv
    BY InitHolds
  <1>2. ChainInv /\ [Next]_vars => ChainInv'
    BY ChainInvNext
  <1> QED BY <1>1, <1>2, PTL DEF Spec

\* Whatever single field the backend gets wrong in any row or answer, the rows a
\* test of FactorComboService accepts form one chain (AcceptedIsOneChain), after
\* any number of rejections, repeated requests and half-finished states.
THEOREM AcceptedChain == Spec => []AcceptedIsOneChain
  <1>1. ChainInv => AcceptedIsOneChain
    BY DEF ChainInv
  <1> QED BY <1>1, ChainInvariant, PTL

\* A helper drops no table.
LEMMA UndoKeepsTables ==
  ASSUME \/ clear_experiment_links_for_test \/ clear_next_version_links_for_test
         \/ clear_next_version_pointer_for_test \/ prepare_feedback_partial_replay_for_test
         \/ clear_registration_marker_for_test \/ clear_one_next_version_component_for_test
         \/ set_for_test
  PROVE  DOMAIN cur' = DOMAIN cur
  BY DEF Undo, clear_experiment_links_for_test, clear_next_version_links_for_test,
         clear_next_version_pointer_for_test, prepare_feedback_partial_replay_for_test,
         clear_registration_marker_for_test, clear_one_next_version_component_for_test, set_for_test

\* The step that ends a test drops no table.
LEMMA EndKeepsTables ==
  ASSUME [Next]_vars, pc' = "done"
  PROVE  DOMAIN cur' = DOMAIN cur
  <1>1. ASSUME NEW s, NEW r, Call(s, r) PROVE FALSE
    BY <1>1 DEF Call
  <1>2. CASE \/ clear_experiment_links_for_test \/ clear_next_version_links_for_test
              \/ clear_next_version_pointer_for_test \/ prepare_feedback_partial_replay_for_test
              \/ clear_registration_marker_for_test \/ clear_one_next_version_component_for_test
              \/ set_for_test
    BY <1>2, UndoKeepsTables
  <1>3. CASE prepare_form_for_worker
    BY <1>3 DEF prepare_form_for_worker
  <1>4. CASE \/ submit_mixed_parent_and_sub_factor_for_rejection \/ create_version_refused
             \/ Check \/ Finish \/ Terminated \/ UNCHANGED vars
    BY <1>4 DEF submit_mixed_parent_and_sub_factor_for_rejection, create_version_refused, Check, Finish,
                Terminated, vars
  <1>5. CASE replay_request \/ RefreshLinks
    BY <1>5 DEF replay_request, RefreshLinks
  <1> QED BY <1>1, <1>2, <1>3, <1>4, <1>5, Zenon
          DEF Next, submit_form, get_work_order, claim_legacy_pipeline, create_version, write_experiment,
              submit_feedback, register_report

\* TypeOK: in particular the histories have one entry per round that has reached
\* its next version or its next rejection.
THEOREM WorkerTypes == Spec => []TypeOK
  <1> DEFINE Tables == DOMAIN cur = Parts
  <1>1. Init => Tables
    BY DEF Init, Empty, Parts
  <1>2. ChainInv /\ ChainInv' /\ Tables /\ [Next]_vars => Tables'
    <2>1. pc' # "done" /\ ChainInv' => Tables'
      BY DEF ChainInv, Shape
    <2> QED BY <2>1, EndKeepsTables
  <1>3. ChainInv /\ Tables => TypeOK
    <2>1. DOMAIN Empty = Parts
      BY DEF Empty, Parts
    <2>2. Control /\ Tables => TypeOK
      BY <2>1, WorkerAssumption DEF Control, TypeOK, WorkerAssumption
    <2> QED BY <2>2 DEF ChainInv
  <1> HIDE DEF Tables
  <1> QED BY <1>1, <1>2, <1>3, ChainInvariant, PTL DEF Spec

\* After an accepted first registration every report component has taken a row.
Matched ==
    Validated /\ stage = "register" =>
      Len(request.items) = 2 /\ Len(Taken(request.items, <<cur.c1, cur.c2>>, request.codes)) = 2

\* Only Check establishes this, from validate_registered_formula_and_sources, and
\* every later call withdraws it.
LEMMA MatchedNext ==
  ASSUME Control, Matched, [Next]_vars
  PROVE  Matched'
  <1>1. CASE Check
    <2>1. UNCHANGED <<cur, request, stage>> /\ pc = "check"
      BY <1>1 DEF Check
    <2>2. CASE Accepted /\ stage = "register" /\ ~replayed
      <3>1. ReportAccepted(request.items, request.formula, <<cur.c1, cur.c2>>, request.codes, cur.sub,
                           cur.detail, Relations)
        BY <2>2 DEF Accepted, RegisterAccepted
      <3>2. Len(<<cur.c1, cur.c2>>) = 2
        OBVIOUS
      <3>3. Len(request.items) = 2 /\ Len(Taken(request.items, <<cur.c1, cur.c2>>, request.codes)) = 2
        BY <3>1, <3>2 DEF ReportAccepted
      <3> QED BY <2>1, <3>3 DEF Matched
    <2>3. CASE stage # "register"
      BY <2>1, <2>3 DEF Matched
    <2>4. CASE stage = "register" /\ replayed
      BY <1>1, <2>4 DEF Check, Matched, Validated
    <2>5. CASE ~Accepted
      BY <1>1, <2>5 DEF Check, Matched, Validated
    <2> QED BY <2>2, <2>3, <2>4, <2>5
  <1>2. ASSUME NEW s, NEW r, Call(s, r) PROVE ~Validated'
    BY <1>2, ValueAssumption DEF Call, Validated, ValueAssumption, Outcomes
  <1>3. CASE replay_request \/ RefreshLinks
    BY <1>3, ValueAssumption DEF replay_request, RefreshLinks, Matched, Validated, ValueAssumption, Outcomes, Control
  <1>4. CASE \/ clear_experiment_links_for_test \/ clear_next_version_links_for_test
             \/ clear_next_version_pointer_for_test \/ prepare_feedback_partial_replay_for_test
             \/ clear_registration_marker_for_test \/ clear_one_next_version_component_for_test
             \/ set_for_test
    <2>1. \E rows, parts : Undo(rows, parts)
      BY <1>4, Zenon
         DEF clear_experiment_links_for_test, clear_next_version_links_for_test,
             clear_next_version_pointer_for_test, prepare_feedback_partial_replay_for_test,
             clear_registration_marker_for_test, clear_one_next_version_component_for_test, set_for_test
    <2>2. ~Validated'
      BY <2>1 DEF Undo, Validated
    <2> QED BY <2>2 DEF Matched
  <1>5. CASE prepare_form_for_worker \/ submit_mixed_parent_and_sub_factor_for_rejection \/ create_version_refused
    BY <1>5 DEF prepare_form_for_worker, submit_mixed_parent_and_sub_factor_for_rejection,
                create_version_refused, Matched
  <1>6. CASE Finish
    BY <1>6 DEF Finish, Matched, Validated
  <1>7. CASE Terminated \/ UNCHANGED vars
    BY <1>7 DEF Terminated, vars, Matched, Validated
  <1>8. ~Validated' => Matched'
    BY DEF Matched
  <1> QED BY <1>1, <1>2, <1>3, <1>4, <1>5, <1>6, <1>7, <1>8, Zenon
          DEF Next, submit_form, get_work_order, claim_legacy_pipeline, create_version, write_experiment,
              submit_feedback, register_report

\* In every accepted first registration the greedy matching of report components to
\* rows was the only possible one (MatchingIsForced).
THEOREM ForcedMatching == Spec => []MatchingIsForced
  <1>1. Init => Matched
    BY DEF Init, Matched
  <1>2. ChainInv /\ Matched /\ [Next]_vars => Matched'
    BY MatchedNext DEF ChainInv
  <1>3. Matched => MatchingIsForced
    <2> SUFFICES ASSUME Matched, Validated, stage = "register"
                 PROVE  {f \in Assignments :
                           \A i \in 1..2 : Names(request.items[i], <<cur.c1, cur.c2>>[f[i]], request.codes)}
                        = {Taken(request.items, <<cur.c1, cur.c2>>, request.codes)}
      BY DEF MatchingIsForced
    <2> DEFINE rows == <<cur.c1, cur.c2>>
    <2>1. Len(request.items) = 2 /\ Len(Taken(request.items, rows, request.codes)) = 2
      BY DEF Matched
    <2>2. DOMAIN rows = Two
      BY DEF Two
    <2> HIDE DEF rows
    <2>3. {f \in Assignments : \A i \in 1..2 : Names(request.items[i], rows[f[i]], request.codes)}
          = {Taken(request.items, rows, request.codes)}
      BY <2>1, <2>2, GreedyIsForced
    <2> QED BY <2>3 DEF rows
  <1> QED BY <1>1, <1>2, <1>3, ChainInvariant, PTL DEF Spec


-----------------------------------------------------------------------------
(* SoundIsAccepted: what the backend has written as long as it has not     *)
(* deviated, at every point of the flow, undone states included.           *)

\* The rows of version k + 1 and of its experiment, the k-th feedback row, and the
\* form, by the columns that change.
VersionRow(k, status, experiment) ==
    [id |-> k + 1, combo |-> Combo, family |-> 1, pool |-> 1, hash |-> k + 1, status |-> status,
     experiment |-> experiment, initial_form |-> 1, method |-> 1]
ExperimentRow(k, valid) ==
    [id |-> k + 1, external |-> k + 1, combo |-> Combo, valid |-> valid,
     reason |-> IF valid THEN Null ELSE 1, payload |-> 1]
FeedbackRow(k, status, next) ==
    [id |-> k, form |-> 1, round |-> k, status |-> status, source_version |-> k, source_experiment |-> k,
     source_run |-> k, text |-> 1, next_version |-> next, next_run |-> next, next_experiment |-> Null]
FormRow(status, run, version, experiment) ==
    [id |-> 1, session |-> 1, form_no |-> 1, status |-> status, pool |-> 1, run |-> run,
     version |-> version, experiment |-> experiment, json |-> 1, spec |-> 1]
\* What the client keeps of an accepted version.
VersionObject(k) == [version |-> k + 1, combo |-> Combo, pool |-> 1, hash |-> k + 1]

\* Rows of which only some columns matter.
IsFormRow(row) == row = FormRow(row.status, row.run, row.version, row.experiment)
CleanPool(row) == row = [id |-> 1, form |-> 1, filter |-> <<1, 2>>, hash |-> 1, status |-> row.status]
OwnRows(k) == cur.c1 = Component(k, 1) /\ cur.c2 = Component(k, 2)

\* Form, pool and members: the form keeps its other columns while its status and
\* its three pointers follow the flow.
CleanForm ==
    stage # "none" =>
       /\ IsFormRow(cur.form)
       /\ CleanPool(cur.pool)
       /\ \E d \in Directions : cur.m1 = Member(1, d)
       /\ cur.m2 = Member(2, 1)
       /\ stage \in {"submit", "order"} => cur.form.status = "submitted"
       /\ pc = "ready" \/ stage # "submit" => client.task = [session |-> 1, form |-> 1, pool |-> 1, form_no |-> 1]

\* A version just written.  A helper may have undone its component, its form's
\* pointers or the feedback row's pointers; the rest of the feedback row stays.
CleanVersion ==
    stage = "version" =>
       /\ cur.version = Version(round)
       /\ ~cleared => OwnRows(round) /\ cur.form = FormRow("processing", round + 1, round + 1, Null)
       /\ round > 0 =>
            /\ cur.feedback = [FeedbackRow(round, "processing", cur.feedback.next_run)
                                  EXCEPT !.next_version = cur.feedback.next_version]
            /\ ~cleared => cur.feedback = FeedbackRow(round, "processing", round + 1)
            /\ past[Len(past)].version = VersionRow(round - 1, "rejected", round)
            /\ past[Len(past)].components = {Component(round - 1, 1), Component(round - 1, 2)}
       /\ pc = "ready" => client.version = VersionObject(round)
       /\ request = [run |-> round + 1, combo |-> Combo, method |-> 1, components |-> Requested(round)]

\* An experiment just written, or its links undone.
CleanExperiment ==
    stage = "experiment" =>
       /\ OwnRows(round)
       /\ cur.version = VersionRow(round, "candidate", IF cleared THEN Null ELSE round + 1)
       /\ cur.form = IF cleared THEN FormRow("processing", round + 1, round + 1, Null)
                     ELSE FormRow("completed", round + 1, round + 1, round + 1)
       /\ request.valid \in BOOLEAN
       /\ cur.experiment = ExperimentRow(round, request.valid)
       /\ pc = "ready" => client.experiment = round + 1
       /\ request = [run |-> round + 1, valid |-> request.valid, payload |-> 1,
                     reason |-> IF request.valid THEN Null ELSE 1]

\* Between a rejection and the next version the rejected version is still the
\* current one.
CleanRejected ==
    (stage = "feedback" \/ (stage = "claim" /\ round > 0)) =>
       /\ OwnRows(round - 1)
       /\ cur.version = VersionRow(round - 1, IF cleared THEN "candidate" ELSE "rejected", round)
       /\ client.version = VersionObject(round - 1)
       /\ ~cleared => cur.feedback = FeedbackRow(round, IF stage = "claim" THEN "processing" ELSE "pending", Null)

\* A rejection just written, or the moment before it recreated.
CleanFeedback ==
    stage = "feedback" =>
       /\ \E valid \in BOOLEAN : cur.experiment = ExperimentRow(round - 1, valid)
       /\ ~cleared => /\ cur.experiment = ExperimentRow(round - 1, FALSE)
                      /\ cur.form = FormRow("processing", Null, Null, Null)
       /\ client.experiment = round
       /\ request = [reply |-> 2, session |-> 1, form |-> 1, run |-> round, text |-> 1]

\* What the answer to the registration of version k + 1 says of it.
Registered(k) == [version |-> k + 1, combo |-> Combo, hash |-> k + 1, sub |-> 9, detail |-> 8, validity |-> 7,
                  registration |-> 6, type |-> 1, task |-> 1]

\* A registration leaves form, experiment and components as they were.  The
\* client holds its answer, once accepted, against a repetition.
CleanRegister ==
    stage = "register" =>
       /\ OwnRows(round)
       /\ cur.version = VersionRow(round, "active", round + 1)
       /\ cur.form = FormRow("completed", round + 1, round + 1, round + 1)
       /\ cur.experiment = ExperimentRow(round, TRUE)
       /\ request.session = 1 /\ request.run = round + 1 /\ request.report = 1 /\ request.validity = 1
       /\ request.formula = 1
       /\ pc = "ready" \/ replayed => \A f \in ReplayFields : client.registration[f] = Registered(round)[f]

\* The claim the client works under, and the version it last accepted.
CleanClaim ==
    /\ stage \in {"version", "experiment", "register"} \/ (stage = "claim" /\ pc = "ready") =>
          /\ client.claim.run = round + 1 /\ client.claim.combo = Combo /\ client.claim.experiment = round + 1
          /\ client.claim.components = Requested(round)
          /\ client.claim.feedback = round /\ client.claim.round \in {Null, round}
          /\ round > 0 => client.claim.source = VersionObject(round - 1)
    /\ stage \in {"experiment", "register"} => client.version = VersionObject(round)

\* The rows and the answer of a registration.
RegisterWrites ==
    /\ cur.sub = [id |-> 9, name |-> 1, type |-> 1, formula |-> 1, metadata_formula |-> 1, report |-> 1]
    /\ cur.detail = [id |-> 8, factor |-> 9, is_sub |-> TRUE, enabled |-> 1, formula |-> 1,
                     params_formula |-> 1, report |-> 1]
    /\ cur.validity = [id |-> 7, factor |-> 9, is_sub |-> TRUE, snapshot |-> 1, ts_summary |-> Null,
                       cs_summary |-> Null]
    /\ cur.mapping = [id |-> 6, combo |-> Combo, hash |-> round + 1, sub |-> 9]
    /\ cur.n_sub = [id |-> 9, name |-> 1, type |-> 1]
    /\ cur.n_detail = [id |-> 8, factor |-> 9, is_sub |-> TRUE, enabled |-> 1]
    /\ cur.n_validity = [id |-> 7, factor |-> 9, is_sub |-> TRUE]
    /\ cur.n_mapping = [id |-> 6, combo |-> Combo, hash |-> round + 1, sub |-> 9]
    /\ cur.answer = [form |-> 1, version |-> round + 1, combo |-> Combo, hash |-> round + 1,
                     sub |-> 9, detail |-> 8, validity |-> 7, registration |-> 6, type |-> 1,
                     registered |-> TRUE, replay |-> replayed, refresh |-> "queued", task |-> 1]

\* The answer not yet read.
CleanAnswer ==
    pc = "check" =>
       /\ ~cleared
       /\ stage = "submit" =>
            /\ cur.answer = [form |-> 1, pool |-> 1, form_no |-> 1, status |-> "submitted"]
            /\ \E direct \in BOOLEAN : request = FormRequest(direct)
       /\ stage = "order" =>
            /\ cur.a1 = Answered(cur.m1)
            /\ cur.answer = [form |-> 1, pool |-> 1, form_no |-> 1, hash |-> 1, json |-> 1, spec |-> 1,
                             status |-> "submitted"]
       /\ stage = "claim" => cur.answer = [run |-> round + 1, combo |-> Combo, experiment |-> round + 1,
                                           components |-> Requested(round)]
       /\ stage = "version" =>
            cur.answer = [form |-> 1, pool |-> 1, form_status |-> "processing", run |-> round + 1,
                          combo |-> Combo, family |-> 1, hash |-> round + 1, version |-> round + 1,
                          combo_status |-> "candidate", count |-> 2,
                          feedback |-> round, round |-> round, feedback_status |-> "processing",
                          http |-> IF replayed THEN 200 ELSE 201, replay |-> replayed]
       /\ stage = "experiment" =>
            cur.answer = [experiment |-> round + 1, external |-> round + 1, form |-> 1,
                          version |-> round + 1, combo |-> Combo, form_status |-> "completed",
                          combo_status |-> "candidate", valid |-> request.valid,
                          http |-> IF replayed THEN 200 ELSE 201, replay |-> replayed]
       /\ stage = "feedback" =>
            cur.answer = [feedback |-> round, round |-> round, recorded |-> TRUE, replay |-> replayed,
                          status |-> "pending", reply |-> 2, form |-> 1, experiment |-> round,
                          form_status |-> "processing", valid |-> FALSE, rejected |-> round]
       /\ stage = "register" => RegisterWrites

\* Nothing is asked once the backend has deviated or the refresh has linked its
\* summaries: those behaviours SoundIsAccepted excepts.
Clean == /\ CleanForm /\ CleanVersion /\ CleanExperiment /\ CleanRejected /\ CleanFeedback /\ CleanRegister
         /\ CleanClaim /\ CleanAnswer
CleanInv == ~fault /\ ~refreshed /\ pc # "done" => Clean

-----------------------------------------------------------------------------
(* The checks accept such rows: one lemma per call.                        *)

\* A sequence of two elements.
LEMMA PairFacts ==
  ASSUME NEW a, NEW b
  PROVE  /\ Len(<<a, b>>) = 2 /\ DOMAIN <<a, b>> = {1, 2} /\ <<a, b>>[1] = a /\ <<a, b>>[2] = b
  OBVIOUS

\* Two different elements make a set of two.
LEMMA TwoDiffer ==
  ASSUME NEW a, NEW b, a # b
  PROVE  Cardinality({a, b}) = 2
  <1>1. IsFiniteSet({a}) /\ Cardinality({a}) = 1
    BY FS_Singleton
  <1>2. Cardinality({a} \cup {b}) = 2
    BY <1>1, FS_AddElement
  <1>3. {a, b} = {a} \cup {b}
    OBVIOUS
  <1> QED BY <1>2, <1>3

\* Distinct, of two rows whose key differs.
LEMMA DistinctPair ==
  ASSUME NEW a, NEW b, NEW field
  PROVE  /\ IdsOf(<<a, b>>, field) = {a[field], b[field]}
         /\ a[field] # b[field] => Distinct(<<a, b>>, field)
  <1> DEFINE p == <<a, b>>
  <1>1. Len(p) = 2 /\ DOMAIN p = {1, 2} /\ p[1] = a /\ p[2] = b
    BY PairFacts
  <1> HIDE DEF p
  <1>2. IdsOf(p, field) = {a[field], b[field]}
    BY <1>1 DEF IdsOf
  <1>3. a[field] # b[field] => Distinct(p, field)
    BY <1>1, <1>2, TwoDiffer DEF Distinct
  <1> QED BY <1>2, <1>3 DEF p

\* submit_form: the answer and the form, pool and members behind it.
LEMMA SubmitIsAccepted ==
  ASSUME CleanForm, CleanAnswer, stage = "submit", pc = "check"
  PROVE  SubmitAccepted
  <1>1. /\ cur.answer = [form |-> 1, pool |-> 1, form_no |-> 1, status |-> "submitted"]
        /\ cur.form = FormRow("submitted", cur.form.run, cur.form.version, cur.form.experiment)
        /\ cur.pool = [id |-> 1, form |-> 1, filter |-> <<1, 2>>, hash |-> 1, status |-> cur.pool.status]
        /\ cur.m2 = Member(2, 1)
    BY DEF CleanForm, CleanPool, CleanAnswer, IsFormRow
  <1>2. PICK d \in Directions : cur.m1 = Member(1, d)
    BY DEF CleanForm
  <1>3. PICK direct \in BOOLEAN : request = FormRequest(direct)
    BY DEF CleanAnswer
  <1>4. Null # 1 /\ Null # 2 /\ Null # 0
    BY ValueAssumption DEF ValueAssumption
  <1>5. SubmittedFormAnswered(Answer)
    BY <1>1, <1>4 DEF SubmittedFormAnswered, Present, FormStatuses, Answer
  <1>6. /\ request.session = 1 /\ request.json = 1 /\ request.direct = direct
        /\ request.names = IF direct THEN <<1, 2>> ELSE <<1>>
    BY <1>3 DEF FormRequest
  <1>7. FormRowPersisted(Answer, request, Task, cur.form, cur.pool)
    <2>1. Same(Answer, cur.form, {<<"form", "id">>, <<"form_no", "form_no">>,
                                     <<"status", "status">>, <<"pool", "pool">>})
      BY <1>1 DEF Same, Answer, FormRow
    <2>2. Same(request, cur.form, {<<"session", "session">>, <<"json", "json">>})
      BY <1>1, <1>6 DEF Same, FormRow
    <2>3. Same(Answer, cur.pool, {<<"pool", "id">>, <<"form", "form">>})
      BY <1>1 DEF Same, Answer
    <2>4. cur.form.pool # Null /\ cur.form.pool = cur.pool.id
      BY <1>1, <1>4 DEF FormRow
    <2>5. request.session = Task.session
      BY DEF Task
    <2> QED BY <2>1, <2>2, <2>3, <2>4, <2>5 DEF FormRowPersisted
  <1>8. MembersPersisted(request, Task, cur.pool, Members)
    <2>1. Len(Members) = 2 /\ DOMAIN Members = {1, 2} /\ Members[1] = cur.m1 /\ Members[2] = cur.m2
      BY PairFacts DEF Members
    <2>2. /\ cur.m1.form = 1 /\ cur.m1.pool = 1 /\ cur.m1.sub = 1 /\ cur.m1.order = 0 /\ cur.m1.name = 1
          /\ cur.m1.detail = 1 /\ cur.m1.detail_record = 1 /\ cur.m1.detail_factor = 1
      BY <1>2 DEF Member
    <2>3. /\ cur.m2.form = 1 /\ cur.m2.pool = 1 /\ cur.m2.sub = 2 /\ cur.m2.order = 1 /\ cur.m2.name = 2
          /\ cur.m2.detail = 2 /\ cur.m2.detail_record = 2 /\ cur.m2.detail_factor = 2
      BY <1>1 DEF Member
    <2>4. Task.form = 1 /\ Task.pool = 1
      BY <1>1 DEF Task, Answer
    <2>5. \A i \in DOMAIN Members :
             /\ Members[i].form = Task.form /\ Members[i].pool = Task.pool
             /\ Present(Members[i], {"form", "pool", "sub", "order"})
             /\ DetailFits(Members[i])
      BY <1>4, <2>1, <2>2, <2>3, <2>4 DEF Present, DetailFits
    <2>6. Distinct(Members, "sub") /\ IdsOf(Members, "order") = {0, 1}
      BY <2>2, <2>3, DistinctPair DEF Members
    <2>7. 0..(Len(Members) - 1) = {0, 1}
      BY <2>1
    <2>8. cur.pool.filter = [i \in DOMAIN Members |-> Members[i].sub]
      <3>1. cur.pool.filter = <<1, 2>>
        BY <1>1
      <3>2. <<1, 2>> = [i \in {1, 2} |-> IF i = 1 THEN 1 ELSE 2]
        OBVIOUS
      <3>3. [i \in {1, 2} |-> IF i = 1 THEN 1 ELSE 2] = [i \in DOMAIN Members |-> Members[i].sub]
        BY <2>1, <2>2, <2>3
      <3> QED BY <3>1, <3>2, <3>3
    <2>9. request.direct => request.names = [i \in DOMAIN Members |-> Members[i].name]
      <3>1. request.direct => request.names = <<1, 2>>
        BY <1>6
      <3>2. <<1, 2>> = [i \in {1, 2} |-> IF i = 1 THEN 1 ELSE 2]
        OBVIOUS
      <3>3. [i \in {1, 2} |-> IF i = 1 THEN 1 ELSE 2] = [i \in DOMAIN Members |-> Members[i].name]
        BY <2>1, <2>2, <2>3
      <3> QED BY <3>1, <3>2, <3>3
    <2> QED BY <2>1, <2>5, <2>6, <2>7, <2>8, <2>9 DEF MembersPersisted
  <1> QED BY <1>5, <1>7, <1>8 DEF SubmitAccepted, FormPersisted

\* No number the backend writes is Null.
LEMMA Weights ==
  ASSUME NEW k \in Nat
  PROVE  /\ Null # 1 /\ Null # 2 /\ Null # 0 /\ Null # k + 1 /\ Null # Combo /\ Null # k
         /\ Other # 1 /\ Null # "static" /\ Null # "artifact"
  BY ValueAssumption, WorkerAssumption DEF ValueAssumption, WorkerAssumption, Transforms

\* The two components of a version and their content.
LEMMA ComponentFacts ==
  ASSUME NEW k \in Nat
  PROVE  /\ Component(k, 1) = [version |-> k + 1, sub |-> 1, factor |-> 1, direction |-> 1,
                               transform |-> "static", weight |-> k + 1]
         /\ Component(k, 2) = [version |-> k + 1, sub |-> 2, factor |-> 1, direction |-> -1,
                               transform |-> "artifact", weight |-> Null]
         /\ Requested(k) = {[sub |-> 1, factor |-> 1, direction |-> 1, transform |-> "static", weight |-> k + 1],
                            [sub |-> 2, factor |-> 1, direction |-> -1, transform |-> "artifact", weight |-> Null]}
         /\ Cardinality(Requested(k)) = 2
  <1> DEFINE r1 == [sub |-> 1, factor |-> 1, direction |-> 1, transform |-> "static", weight |-> k + 1]
             r2 == [sub |-> 2, factor |-> 1, direction |-> -1, transform |-> "artifact", weight |-> Null]
  <1>1. Content1(k, 1) = r1 /\ Content1(k, 2) = r2
    BY DEF Content1
  <1>2. Requested(k) = {r1, r2}
    <2>1. 1..2 = {1, 2}
      OBVIOUS
    <2> HIDE DEF r1, r2
    <2> QED BY <1>1, <2>1 DEF Requested
  <1>3. r1 # r2
    <2>1. r1.sub # r2.sub
      OBVIOUS
    <2> HIDE DEF r1, r2
    <2> QED BY <2>1
  <1>4. Cardinality(Requested(k)) = 2
    <2> HIDE DEF r1, r2
    <2> QED BY <1>2, <1>3, TwoDiffer
  <1>5. /\ Component(k, 1) = [version |-> k + 1, sub |-> 1, factor |-> 1, direction |-> 1,
                               transform |-> "static", weight |-> k + 1]
        /\ Component(k, 2) = [version |-> k + 1, sub |-> 2, factor |-> 1, direction |-> -1,
                               transform |-> "artifact", weight |-> Null]
    BY <1>1 DEF Component
  <1> QED BY <1>2, <1>4, <1>5

\* get_work_order: with members of direction 1 (the exception for -1 is a finding).
LEMMA OrderIsAccepted ==
  ASSUME CleanForm, CleanAnswer, stage = "order", pc = "check", cur.m1.snapshots # {-1}
  PROVE  OrderAccepted
  <1> DEFINE a == [form |-> 1, pool |-> 1, form_no |-> 1, hash |-> 1, json |-> 1, spec |-> 1,
                   status |-> "submitted"]
  <1>1. /\ cur.answer = a
        /\ cur.a1 = Answered(cur.m1)
        /\ cur.form = FormRow("submitted", cur.form.run, cur.form.version, cur.form.experiment)
        /\ cur.pool = [id |-> 1, form |-> 1, filter |-> <<1, 2>>, hash |-> 1, status |-> cur.pool.status]
        /\ cur.m2 = Member(2, 1)
        /\ client.task = [session |-> 1, form |-> 1, pool |-> 1, form_no |-> 1]
    BY DEF CleanForm, CleanPool, CleanAnswer, IsFormRow
  <1>2. PICK d \in Directions : cur.m1 = Member(1, d)
    BY DEF CleanForm
  <1>3. cur.m1 = Member(1, 1)
    <2>1. cur.m1.snapshots = {d}
      BY <1>2 DEF Member
    <2>2. d = 1
      BY <2>1, WorkerAssumption DEF WorkerAssumption
    <2> QED BY <1>2, <2>2
  <1>4. Null # 1 /\ Null # 2 /\ Null # 0 /\ Other # 1
    BY ValueAssumption DEF ValueAssumption
  <1> DEFINE p == <<[factor |-> 1, code |-> 1]>>
             x1 == [component |-> 1, sub |-> 1, factor |-> 1, code |-> 1, name |-> 1, direction |-> 1]
             x2 == [component |-> 2, sub |-> 2, factor |-> 1, code |-> 1, name |-> 2, direction |-> 1]
  <1>5. {1} # {-1}
    OBVIOUS
  <1>6. cur.a1 = x1 /\ Answered(cur.m2) = x2
    BY <1>1, <1>3, <1>5 DEF Answered, Member
  <1>7. /\ OrderAnswer.form = 1 /\ OrderAnswer.pool = 1 /\ OrderAnswer.form_no = 1 /\ OrderAnswer.hash = 1
        /\ OrderAnswer.json = 1 /\ OrderAnswer.spec = 1 /\ OrderAnswer.status = "submitted"
        /\ OrderAnswer.members = <<cur.a1, Answered(cur.m2)>>
    BY <1>1 DEF OrderAnswer, Answer
  <1> DEFINE ms == OrderAnswer.members
  <1>8. Len(ms) = 2 /\ DOMAIN ms = {1, 2} /\ ms[1] = x1 /\ ms[2] = x2
    BY <1>6, <1>7, PairFacts
  <1>9. IdsOf(ms, "sub") = {1, 2} /\ Distinct(ms, "sub") /\ Distinct(ms, "component")
    <2>1. ms = <<x1, x2>>
      BY <1>6, <1>7
    <2>2. x1["sub"] = 1 /\ x2["sub"] = 2 /\ x1["component"] = 1 /\ x2["component"] = 2 /\ 1 # 2
      OBVIOUS
    <2> HIDE DEF x1, x2, ms
    <2> QED BY <2>1, <2>2, DistinctPair
  <1>10. Len(Members) = 2 /\ DOMAIN Members = {1, 2} /\ Members[1] = cur.m1 /\ Members[2] = cur.m2
    BY PairFacts DEF Members
  <1>11. /\ cur.m1.form = 1 /\ cur.m1.pool = 1 /\ cur.m1.sub = 1 /\ cur.m1.name = 1
         /\ cur.m1.detail = 1 /\ cur.m1.detail_record = 1 /\ cur.m1.detail_factor = 1
         /\ cur.m1.detail_kind = "sub_factor" /\ cur.m1.parents = p /\ cur.m1.snapshots = {1}
    BY <1>3 DEF Member
  <1>12. /\ cur.m2.form = 1 /\ cur.m2.pool = 1 /\ cur.m2.sub = 2 /\ cur.m2.name = 2
         /\ cur.m2.detail = 2 /\ cur.m2.detail_record = 2 /\ cur.m2.detail_factor = 2
         /\ cur.m2.detail_kind = "sub_factor" /\ cur.m2.parents = p /\ cur.m2.snapshots = {1}
    BY <1>1 DEF Member
  <1>13. Distinct(Members, "sub") /\ IdsOf(Members, "sub") = {1, 2}
    BY <1>11, <1>12, DistinctPair DEF Members
  <1>14. WorkOrderAnswered(OrderAnswer, client.task)
    <2>1. \A i \in DOMAIN ms :
            /\ Present(ms[i], {"component", "sub", "factor", "code"})
            /\ RequiredInt(ms[i].direction) /\ ms[i].direction \in {-1, 1}
      <3>1. \A i \in {1, 2} : (ms[i] = x1 \/ ms[i] = x2)
        BY <1>8
      <3>2. \A x \in {x1, x2} : /\ Present(x, {"component", "sub", "factor", "code"})
                                /\ RequiredInt(x.direction) /\ x.direction \in {-1, 1}
        BY <1>4 DEF Present, RequiredInt
      <3> HIDE DEF x1, x2, ms
      <3> QED BY <1>8, <3>1, <3>2
    <2>2. Present(OrderAnswer, {"form_no", "hash", "json", "spec"})
      BY <1>4, <1>7 DEF Present
    <2>3. OrderAnswer.form = client.task.form /\ OrderAnswer.pool = client.task.pool
          /\ OrderAnswer.form_no = client.task.form_no /\ OrderAnswer.status \in FormStatuses
      BY <1>1, <1>7 DEF FormStatuses
    <2>4. Len(ms) >= 2
      BY <1>8
    <2> QED BY <1>9, <2>1, <2>2, <2>3, <2>4 DEF WorkOrderAnswered
  <1>15. WorkOrderPersisted(OrderAnswer, cur.form, cur.pool, Members)
    <2>1. Same(OrderAnswer, cur.form, {<<"form", "id">>, <<"form_no", "form_no">>, <<"status", "status">>,
                      <<"pool", "pool">>, <<"json", "json">>})
      BY <1>1, <1>7 DEF Same, FormRow
    <2>2. Same(OrderAnswer, cur.pool, {<<"pool", "id">>, <<"hash", "hash">>})
      BY <1>1, <1>7 DEF Same
    <2>3. OrderAnswer.spec # Null /\ cur.form.spec \in {Null, OrderAnswer.spec}
      BY <1>1, <1>4, <1>7 DEF FormRow
    <2>4. \A i \in DOMAIN Members : MemberRowFits(Members[i], OrderAnswer.form, OrderAnswer.pool)
      BY <1>7, <1>10, <1>11, <1>12 DEF MemberRowFits, DetailFits
    <2>5. Len(p) = 1 /\ DOMAIN p = {1} /\ p[1].factor = 1 /\ p[1].code = 1
      OBVIOUS
    <2>6. IdsOf(p, "factor") = {1} /\ IdsOf(p, "code") = {1}
      <3> HIDE DEF p
      <3> QED BY <2>5 DEF IdsOf
    <2>7. Cardinality({1}) = 1
      BY FS_Singleton
    <2>8. Distinct(p, "factor")
      BY <2>5, <2>6, <2>7 DEF Distinct
    <2>9. \A m, row : m.factor = 1 /\ m.code = 1 /\ row.parents = p => ParentFits(m, row)
      <3> HIDE DEF p
      <3> QED BY <1>4, <2>5, <2>6, <2>8 DEF ParentFits
    <2>10. \A m, row : m.direction = 1 /\ row.snapshots = {1} => SnapshotsFit(m, row)
      BY <2>7 DEF SnapshotsFit
    <2>11. ParentFits(x1, cur.m1) /\ SnapshotsFit(x1, cur.m1) /\ ParentFits(x2, cur.m2) /\ SnapshotsFit(x2, cur.m2)
      <3>1. x1.factor = 1 /\ x1.code = 1 /\ x1.direction = 1 /\ x2.factor = 1 /\ x2.code = 1 /\ x2.direction = 1
        OBVIOUS
      <3> HIDE DEF x1, x2, p
      <3> QED BY <2>9, <2>10, <1>11, <1>12, <3>1
    <2>12. \A i \in DOMAIN ms, j \in DOMAIN Members :
              ms[i].sub = Members[j].sub =>
                 ParentFits(ms[i], Members[j]) /\ SnapshotsFit(ms[i], Members[j]) /\ ms[i].name = Members[j].name
      <3>1. /\ x1.sub = 1 /\ x2.sub = 2 /\ x1.name = 1 /\ x2.name = 2
        OBVIOUS
      <3> HIDE DEF x1, x2, ms, p
      <3> QED BY <1>8, <1>10, <1>11, <1>12, <2>11, <3>1
    <2>13. MembersAnswered(OrderAnswer, Members)
      <3> DEFINE o == OrderAnswer
      <3>0. o.members = ms
        OBVIOUS
      <3> HIDE DEF ms, o
      <3>1. MembersAnswered(o, Members)
        BY <1>8, <1>9, <1>10, <1>13, <2>4, <2>12, <3>0 DEF MembersAnswered, o
      <3> QED BY <3>1 DEF o
    <2> QED BY <2>1, <2>2, <2>3, <2>13 DEF WorkOrderPersisted
  <1> QED BY <1>14, <1>15 DEF OrderAccepted

\* claim_legacy_pipeline: the answer alone is checked.
LEMMA ClaimIsAccepted ==
  ASSUME CleanAnswer, stage = "claim", pc = "check", round \in Nat
  PROVE  ClaimAnswered(Answer)
  <1>1. cur.answer = [run |-> round + 1, combo |-> Combo, experiment |-> round + 1,
                      components |-> Requested(round)]
    BY DEF CleanAnswer
  <1>2. Null # round + 1 /\ Null # Combo
    BY Weights
  <1>3. Requested(round) # {}
    BY ComponentFacts
  <1> QED BY <1>1, <1>2, <1>3 DEF ClaimAnswered, Present, Answer

\* Content of the rows of a version is what its claim requested.
LEMMA OwnContent ==
  ASSUME NEW k \in Nat, NEW S, S = {Component(k, 1), Component(k, 2)}
  PROVE  /\ Content(S) = Requested(k)
         /\ Cardinality(S) = 2
         /\ OwnComponents(S, k + 1)
         /\ \A c \in S : c.direction \in {1, -1} /\ c.transform # Null
  <1> DEFINE c1 == Component(k, 1)
             c2 == Component(k, 2)
             V(c) == [sub |-> c.sub, factor |-> c.factor, direction |-> c.direction,
                      transform |-> c.transform, weight |-> c.weight]
  <1>1. /\ c1.version = k + 1 /\ c1.sub = 1 /\ c1.factor = 1 /\ c1.direction = 1
        /\ c1.transform = "static" /\ c1.weight = k + 1
    BY ComponentFacts
  <1>2. /\ c2.version = k + 1 /\ c2.sub = 2 /\ c2.factor = 1 /\ c2.direction = -1
        /\ c2.transform = "artifact" /\ c2.weight = Null
    BY ComponentFacts
  <1> HIDE DEF c1, c2
  <1>3. S = {c1, c2}
    BY DEF c1, c2
  <1>4. Content(S) = {V(c1), V(c2)}
    BY <1>3 DEF Content
  <1>5. Requested(k) = {V(c1), V(c2)}
    BY <1>1, <1>2, ComponentFacts
  <1>6. Cardinality(S) = 2
    <2>1. c1 # c2
      BY <1>1, <1>2
    <2> QED BY <1>3, <2>1, TwoDiffer, Zenon
  <1>7. {c.sub : c \in S} = {1, 2}
    BY <1>1, <1>2, <1>3
  <1>8. Cardinality({1, 2}) = 2
    <2>1. 1 # 2
      OBVIOUS
    <2> QED BY <2>1, TwoDiffer, Zenon
  <1>9. \A c \in S : /\ c.version = k + 1 /\ Present(c, {"sub", "factor"})
                     /\ c.direction \in {1, -1} /\ c.transform # Null
    BY <1>1, <1>2, <1>3, Weights DEF Present
  <1>10. OwnComponents(S, k + 1)
    BY <1>6, <1>7, <1>8, <1>9 DEF OwnComponents
  <1> QED BY <1>4, <1>5, <1>6, <1>9, <1>10

\* The versions of two rounds differ in content, as the check of a next version
\* demands: the first component's weight is the round's.
LEMMA RoundsDiffer ==
  ASSUME NEW k \in Nat, NEW l \in Nat, k # l
  PROVE  Requested(k) # Requested(l)
  <1> DEFINE r(n) == [sub |-> 1, factor |-> 1, direction |-> 1, transform |-> "static", weight |-> n + 1]
             s == [sub |-> 2, factor |-> 1, direction |-> -1, transform |-> "artifact", weight |-> Null]
  <1>1. Requested(k) = {r(k), s} /\ Requested(l) = {r(l), s}
    BY ComponentFacts
  <1>2. r(k).weight = k + 1 /\ r(l).weight = l + 1 /\ r(k).sub = 1 /\ s.sub = 2
    OBVIOUS
  <1> HIDE DEF r, s
  <1>3. r(k) # r(l) /\ r(k) # s
    BY <1>2
  <1> QED BY <1>1, <1>3

\* The checks an initial and a next version share.
LEMMA VersionRowIsAccepted ==
  ASSUME CleanForm, CleanVersion, CleanClaim, CleanAnswer, stage = "version", pc = "check",
         round \in 0..MaxRounds
  PROVE  /\ VersionRowPersisted(Answer, request, cur.form, cur.version, Components)
         /\ Components = {Component(round, 1), Component(round, 2)}
  <1>0. round \in Nat /\ ~cleared
    BY WorkerAssumption DEF WorkerAssumption, CleanAnswer
  <1>1. /\ cur.version = Version(round) /\ cur.c1 = Component(round, 1) /\ cur.c2 = Component(round, 2)
        /\ cur.form = FormRow("processing", round + 1, round + 1, Null)
        /\ request = [run |-> round + 1, combo |-> Combo, method |-> 1, components |-> Requested(round)]
    BY <1>0 DEF CleanVersion, OwnRows
  <1>2. cur.answer = [form |-> 1, pool |-> 1, form_status |-> "processing", run |-> round + 1,
                      combo |-> Combo, family |-> 1, hash |-> round + 1, version |-> round + 1,
                      combo_status |-> "candidate", count |-> 2,
                      feedback |-> round, round |-> round, feedback_status |-> "processing",
                      http |-> IF replayed THEN 200 ELSE 201, replay |-> replayed]
    BY DEF CleanAnswer
  <1>3. Components = {Component(round, 1), Component(round, 2)}
    BY <1>1, RowAssumption DEF Components, RowAssumption
  <1>4. Same(Answer, cur.version, {<<"version", "id">>, <<"combo", "combo">>, <<"family", "family">>,
                         <<"pool", "pool">>, <<"hash", "hash">>, <<"combo_status", "status">>})
    BY <1>1, <1>2 DEF Same, Answer, Version
  <1>5. Same(Answer, cur.form, {<<"form", "id">>, <<"form_status", "status">>, <<"run", "run">>})
    BY <1>1, <1>2 DEF Same, Answer, FormRow
  <1>6. /\ request.method = cur.version.method /\ request.run = cur.form.run
        /\ cur.form.version = Answer.version /\ cur.form.pool = cur.version.pool
        /\ cur.version.experiment = Null /\ request.components = Requested(round)
        /\ Answer.version = round + 1 /\ Answer.count = 2
    BY <1>1, <1>2 DEF Answer, FormRow, Version
  <1>7. ComponentsPersisted(request.components, Components, Answer.version) /\ Answer.count = Cardinality(Components)
    BY <1>0, <1>3, <1>6, OwnContent DEF ComponentsPersisted
  <1> QED BY <1>3, <1>4, <1>5, <1>6, <1>7 DEF VersionRowPersisted

\* create_version, in the first round and after a rejection, where the new rows are
\* compared with the rejected version.
LEMMA VersionIsAccepted ==
  ASSUME CleanForm, CleanVersion, CleanClaim, CleanAnswer, stage = "version", pc = "check",
         round \in 0..MaxRounds, replayed \in BOOLEAN
  PROVE  VersionAccepted
  <1>0. round \in Nat /\ ~cleared /\ client.task = [session |-> 1, form |-> 1, pool |-> 1, form_no |-> 1]
    BY WorkerAssumption DEF WorkerAssumption, CleanAnswer, CleanForm
  <1>1. /\ cur.version = Version(round)
        /\ cur.form = FormRow("processing", round + 1, round + 1, Null)
        /\ request = [run |-> round + 1, combo |-> Combo, method |-> 1, components |-> Requested(round)]
    BY <1>0 DEF CleanVersion, OwnRows
  <1>2. cur.answer = [form |-> 1, pool |-> 1, form_status |-> "processing", run |-> round + 1,
                      combo |-> Combo, family |-> 1, hash |-> round + 1, version |-> round + 1,
                      combo_status |-> "candidate", count |-> 2,
                      feedback |-> round, round |-> round, feedback_status |-> "processing",
                      http |-> IF replayed THEN 200 ELSE 201, replay |-> replayed]
    BY DEF CleanAnswer
  <1>3. /\ client.claim.run = round + 1 /\ client.claim.combo = Combo
        /\ client.claim.components = Requested(round)
        /\ client.claim.feedback = round /\ client.claim.round \in {Null, round}
        /\ round > 0 => client.claim.source = VersionObject(round - 1)
    BY DEF CleanClaim
  <1>4. Null # 1 /\ Null # round + 1 /\ Null # round
    BY <1>0, Weights
  <1>5. Cardinality(client.claim.components) = 2
    BY <1>0, <1>3, ComponentFacts
  <1>6. ReplayFlagFits(Answer)
    BY <1>2 DEF ReplayFlagFits, Answer
  <1>7. CASE round = 0
    <2>1. Present(Answer, {"family", "hash", "version"})
      BY <1>2, <1>4 DEF Present, Answer
    <2>2. VersionAnswered(Answer, client.claim, client.task)
      BY <1>0, <1>2, <1>3, <1>5, <1>6, <2>1 DEF VersionAnswered, ComboStatuses, Answer
    <2>3. VersionPersisted(Answer, request, cur.form, cur.version, Components)
      BY <1>1, <1>2, VersionRowIsAccepted DEF VersionPersisted, Answer, Version
    <2> QED BY <1>7, <2>2, <2>3 DEF VersionAccepted
  <1>8. CASE round > 0
    <2> DEFINE source == past[Len(past)]
    <2>1. /\ cur.feedback = FeedbackRow(round, "processing", round + 1)
          /\ source.version = VersionRow(round - 1, "rejected", round)
          /\ source.components = {Component(round - 1, 1), Component(round - 1, 2)}
      BY <1>0, <1>8 DEF CleanVersion
    <2> HIDE DEF source
    <2>2. Present(Answer, {"family", "hash", "version", "round"})
      BY <1>2, <1>4 DEF Present, Answer
    <2>3. /\ client.claim.source.combo = Combo /\ client.claim.source.pool = 1
          /\ client.claim.source.version = round - 1 + 1 /\ client.claim.source.hash = round - 1 + 1
      BY <1>3, <1>8 DEF VersionObject
    <2>4. round + 1 # round - 1 + 1
      BY <1>0
    <2>5. NextVersionAnswered(Answer, client.claim, client.task, client.claim.source)
      BY <1>0, <1>2, <1>3, <1>4, <1>5, <1>6, <2>2, <2>3, <2>4
      DEF NextVersionAnswered, ComboStatuses, FeedbackStatuses, Answer
    <2>6. source.version.id = round - 1 + 1 /\ round - 1 + 1 = round /\ round - 1 \in Nat
      BY <1>0, <1>8, <2>1 DEF VersionRow
    <2>7. ContentIsNew(source.version, source.components, Components)
      <3>1. /\ Content(source.components) = Requested(round - 1)
            /\ OwnComponents(source.components, source.version.id)
            /\ \A c \in source.components : c.direction \in {1, -1} /\ c.transform # Null
        BY <2>1, <2>6, OwnContent
      <3>2. /\ Content(Components) = Requested(round)
            /\ \A c \in Components : c.direction \in {1, -1} /\ c.transform # Null
        BY <1>0, VersionRowIsAccepted, OwnContent
      <3>3. Requested(round - 1) # Requested(round)
        BY <1>0, <2>6, RoundsDiffer
      <3>4. source.components # {}
        BY <2>1
      <3> QED BY <3>1, <3>2, <3>3, <3>4 DEF ContentIsNew
    <2>8. Same(Answer, cur.feedback, {<<"feedback", "id">>, <<"round", "round">>, <<"feedback_status", "status">>})
      BY <1>2, <2>1 DEF Same, Answer, FeedbackRow
    <2>9. FeedbackLinked(Answer, cur.feedback, cur.version, source.version, cur.form)
      <3>1. Present(source.version, {"id", "hash", "combo", "family", "pool"})
        BY <1>4, <2>1, <2>6, Weights DEF Present, VersionRow
      <3>2. Same(Answer, source.version, {<<"combo", "combo">>, <<"family", "family">>, <<"pool", "pool">>})
        BY <1>2, <2>1 DEF Same, Answer, VersionRow
      <3>3. /\ Answer.version # source.version.id /\ Answer.hash # source.version.hash
            /\ source.version.status = "rejected"
            /\ cur.feedback.source_version = source.version.id
            /\ cur.feedback.source_experiment = source.version.experiment
        BY <1>0, <1>2, <2>1, <2>4, <2>6 DEF Answer, VersionRow, FeedbackRow
      <3>4. /\ Answer.feedback = cur.feedback.id /\ cur.feedback.form = Answer.form
            /\ cur.feedback.next_version = Answer.version
            /\ cur.feedback.next_run # Null /\ cur.feedback.next_run = Answer.run
            /\ cur.feedback.next_experiment = Null /\ cur.form.version = Answer.version
        BY <1>1, <1>2, <1>4, <2>1 DEF Answer, FeedbackRow, FormRow
      <3> QED BY <3>1, <3>2, <3>3, <3>4 DEF FeedbackLinked
    <2>10. NextVersionPersisted(Answer, request, cur.form, cur.version, Components, cur.feedback,
                                 source.version, source.components)
      BY VersionRowIsAccepted, <2>7, <2>8, <2>9 DEF NextVersionPersisted
    <2> QED BY <1>8, <2>5, <2>10 DEF VersionAccepted, source
  <1> QED BY <1>0, <1>7, <1>8

\* write_experiment.
LEMMA ExperimentIsAccepted ==
  ASSUME CleanForm, CleanExperiment, CleanClaim, CleanAnswer, stage = "experiment", pc = "check",
         round \in Nat, replayed \in BOOLEAN
  PROVE  ExperimentAccepted
  <1>0. ~cleared /\ client.task = [session |-> 1, form |-> 1, pool |-> 1, form_no |-> 1]
    BY DEF CleanAnswer, CleanForm
  <1>1. /\ cur.version = VersionRow(round, "candidate", round + 1)
        /\ cur.form = FormRow("completed", round + 1, round + 1, round + 1)
        /\ request.valid \in BOOLEAN
        /\ cur.experiment = ExperimentRow(round, request.valid)
        /\ request = [run |-> round + 1, valid |-> request.valid, payload |-> 1,
                      reason |-> IF request.valid THEN Null ELSE 1]
    BY <1>0 DEF CleanExperiment
  <1>2. cur.answer = [experiment |-> round + 1, external |-> round + 1, form |-> 1,
                      version |-> round + 1, combo |-> Combo, form_status |-> "completed",
                      combo_status |-> "candidate", valid |-> request.valid,
                      http |-> IF replayed THEN 200 ELSE 201, replay |-> replayed]
    BY DEF CleanAnswer
  <1>3. client.claim.experiment = round + 1 /\ client.version = VersionObject(round)
    BY DEF CleanClaim
  <1>4. Null # 1 /\ Null # round + 1
    BY Weights
  <1>5. request.run = round + 1 /\ request.payload = 1 /\ request.reason = IF request.valid THEN Null ELSE 1
    BY <1>1
  <1>6. ReplayFlagFits(Answer)
    BY <1>2 DEF ReplayFlagFits, Answer
  <1>7. ExperimentAnswered(Answer, client.claim, client.task, client.version, request.valid)
    BY <1>0, <1>2, <1>3, <1>4, <1>6 DEF ExperimentAnswered, ComboStatuses, VersionObject, Answer
  <1>8. ExperimentRowPersisted(Answer, client.claim.experiment, cur.experiment, cur.form, cur.version)
    <2>1. Same(Answer, cur.experiment, {<<"experiment", "id">>, <<"external", "external">>, <<"combo", "combo">>})
      BY <1>1, <1>2 DEF Same, Answer, ExperimentRow
    <2>2. Same(Answer, cur.form, {<<"form", "id">>, <<"form_status", "status">>})
      BY <1>1, <1>2 DEF Same, Answer, FormRow
    <2>3. /\ Answer.external = client.claim.experiment /\ Answer.version = cur.version.id
          /\ Answer.combo = cur.version.combo /\ Answer.form_status = "completed"
      BY <1>1, <1>2, <1>3 DEF Answer, VersionRow
    <2> QED BY <2>1, <2>2, <2>3 DEF ExperimentRowPersisted
  <1>9. ExperimentLinked(Answer, request, cur.form, cur.version)
    BY <1>1, <1>2, <1>5 DEF ExperimentLinked, Answer, VersionRow, FormRow
  <1>10. OutcomePersisted(Answer, request, cur.experiment, cur.version)
    BY <1>1, <1>2, <1>4, <1>5 DEF OutcomePersisted, Answer, VersionRow, ExperimentRow
  <1>11. ExperimentRequestStored(request, cur.experiment)
    BY <1>1, <1>5 DEF ExperimentRequestStored, Same, ExperimentRow
  <1> QED BY <1>7, <1>8, <1>9, <1>10, <1>11 DEF ExperimentAccepted, ExperimentPersisted

\* submit_feedback.
LEMMA FeedbackIsAccepted ==
  ASSUME CleanForm, CleanRejected, CleanFeedback, CleanAnswer, stage = "feedback", pc = "check",
         round \in Nat, round > 0, replayed \in BOOLEAN
  PROVE  FeedbackAccepted
  <1>0. ~cleared /\ client.task = [session |-> 1, form |-> 1, pool |-> 1, form_no |-> 1]
    BY DEF CleanAnswer, CleanForm
  <1>1. /\ cur.version = VersionRow(round - 1, "rejected", round)
        /\ cur.feedback = FeedbackRow(round, "pending", Null)
        /\ cur.experiment = ExperimentRow(round - 1, FALSE)
        /\ cur.form = FormRow("processing", Null, Null, Null)
        /\ client.experiment = round
        /\ request = [reply |-> 2, session |-> 1, form |-> 1, run |-> round, text |-> 1]
    BY <1>0 DEF CleanRejected, CleanFeedback
  <1>2. cur.answer = [feedback |-> round, round |-> round, recorded |-> TRUE, replay |-> replayed,
                      status |-> "pending", reply |-> 2, form |-> 1, experiment |-> round,
                      form_status |-> "processing", valid |-> FALSE, rejected |-> round]
    BY DEF CleanAnswer
  <1>3. Null # 1 /\ Null # round /\ round - 1 + 1 = round
    BY Weights
  <1>4. FeedbackAnswered(Answer, client.task, client.experiment, "pending")
    <2>1. Present(Answer, {"feedback", "round", "rejected"})
      BY <1>2, <1>3 DEF Present, Answer
    <2> QED BY <1>0, <1>1, <1>2, <2>1 DEF FeedbackAnswered, FeedbackStatuses, Answer
  <1>5. FeedbackRowPersisted(Answer, request, cur.feedback, cur.form, cur.experiment)
    <2>1. Same(Answer, cur.feedback, {<<"feedback", "id">>, <<"round", "round">>, <<"status", "status">>,
               <<"form", "form">>, <<"experiment", "source_experiment">>, <<"rejected", "source_version">>})
      BY <1>1, <1>2 DEF Same, Answer, FeedbackRow
    <2>2. Same(request, cur.feedback, {<<"form", "form">>, <<"run", "source_run">>, <<"text", "text">>})
      BY <1>1 DEF Same, FeedbackRow
    <2>3. Same(Answer, cur.form, {<<"form", "id">>, <<"form_status", "status">>})
      BY <1>1, <1>2 DEF Same, Answer, FormRow
    <2>4. Answer.reply = 2 /\ request.reply = 2 /\ request.session = cur.form.session
          /\ Answer.experiment = cur.experiment.id
      BY <1>1, <1>2, <1>3 DEF Answer, FormRow, ExperimentRow
    <2> QED BY <2>1, <2>2, <2>3, <2>4 DEF FeedbackRowPersisted
  <1>6. RejectionPersisted(Answer, request, cur.feedback, cur.form, cur.experiment, cur.version)
    <2>1. \A f \in {"next_version", "next_run", "next_experiment"} : cur.feedback[f] = Null
      BY <1>1 DEF FeedbackRow
    <2>2. \A f \in {"run", "version", "experiment"} : cur.form[f] = Null
      BY <1>1 DEF FormRow
    <2>3. /\ Answer.valid = FALSE /\ cur.experiment.valid = FALSE /\ cur.version.status = "rejected"
          /\ Answer.rejected = cur.version.id
          /\ cur.version.experiment # Null /\ cur.feedback.source_experiment = cur.version.experiment
      BY <1>1, <1>2, <1>3 DEF Answer, FeedbackRow, ExperimentRow, VersionRow
    <2>4. /\ cur.feedback.form = cur.form.id /\ cur.feedback.source_version = cur.version.id
          /\ request.text # Null /\ request.text = cur.experiment.reason
      BY <1>1, <1>3 DEF FormRow, FeedbackRow, ExperimentRow, VersionRow
    <2> QED BY <2>1, <2>2, <2>3, <2>4 DEF RejectionPersisted
  <1> QED BY <1>4, <1>5, <1>6 DEF FeedbackAccepted, FeedbackPersisted

\* The greedy matching of the report the claim describes pairs item i with row i.
LEMMA OwnReportTaken ==
  ASSUME NEW report, NEW rows, NEW codes, Len(report) = 2, DOMAIN rows = {1, 2},
         report[1].id = 1, report[2].id = 2, rows[1].sub = 1, rows[2].sub = 2
  PROVE  /\ Len(Taken(report, rows, codes)) = 2
         /\ Taken(report, rows, codes)[1] = 1 /\ Taken(report, rows, codes)[2] = 2
  <1>1. Null # 1 /\ Null # 2 /\ 1 # 2
    BY ValueAssumption DEF ValueAssumption
  <1>2. \A i \in {1, 2}, r \in {1, 2} : Names(report[i], rows[r], codes) <=> r = i
    BY <1>1 DEF Names
  <1> DEFINE none == <<>>
             one == <<1>>
  <1>30. Len(none) = 0 /\ DOMAIN none = {} /\ Len(one) = 1 /\ DOMAIN one = {1} /\ one[1] = 1
        /\ Append(none, 1) = one /\ Len(Append(one, 2)) = 2 /\ Append(one, 2)[1] = 1 /\ Append(one, 2)[2] = 2
    <2>1. Len(none) = 0 /\ DOMAIN none = {} /\ Len(one) = 1 /\ DOMAIN one = {1} /\ one[1] = 1
      OBVIOUS
    <2>2. Append(none, 1) = one
      OBVIOUS
    <2>3. Len(Append(one, 2)) = 2 /\ Append(one, 2)[1] = 1 /\ Append(one, 2)[2] = 2
      OBVIOUS
    <2> QED BY <2>1, <2>2, <2>3
  <1> HIDE DEF none, one
  <1>3. Len(none) = 0 /\ {none[j] : j \in DOMAIN none} = {} /\ Len(one) = 1 /\ {one[j] : j \in DOMAIN one} = {1}
        /\ Append(none, 1) = one /\ Len(Append(one, 2)) = 2 /\ Append(one, 2)[1] = 1 /\ Append(one, 2)[2] = 2
    BY <1>30
  <1>4. Candidates(none, 1, report, rows, codes) = {1}
    BY <1>2, <1>3 DEF Candidates
  <1>5. Candidates(one, 2, report, rows, codes) = {2}
    BY <1>2, <1>3 DEF Candidates
  <1>6. Cardinality({1}) = 1 /\ Cardinality({2}) = 1
    BY FS_Singleton
  <1>7. (CHOOSE r \in {1} : TRUE) = 1 /\ (CHOOSE r \in {2} : TRUE) = 2
    OBVIOUS
  <1>8. 1 - 1 = 0 /\ 2 - 1 = 1
    OBVIOUS
  <1>9. TakeNext(none, 1, report, rows, codes) = one
    BY <1>3, <1>4, <1>6, <1>7, <1>8, Zenon DEF TakeNext
  <1>10. TakeNext(one, 2, report, rows, codes) = Append(one, 2)
    BY <1>3, <1>5, <1>6, <1>7, <1>8, Zenon DEF TakeNext
  <1>11. Taken(report, rows, codes) = TakeNext(TakeNext(none, 1, report, rows, codes), 2, report, rows, codes)
    BY TakenOfTwo, Zenon DEF none
  <1> QED BY <1>3, <1>9, <1>10, <1>11, Zenon

\* The two items of that report.
LEMMA ItemFacts ==
  ASSUME round \in Nat
  PROVE  /\ Item(1) = [id |-> 1, code |-> 1, name |-> 1, factor |-> 1, direction |-> 1, weight |-> round + 1]
         /\ Item(2) = [id |-> 2, code |-> 2, name |-> 2, factor |-> 1, direction |-> -1, weight |-> Null]
  BY DEF Item, Content1

\* The answer to a registration names the rows it has written.
LEMMA AnswerNames ==
  ASSUME RegisterWrites
  PROVE  \A f \in ReplayFields : cur.answer[f] = Registered(round)[f]
  <1>1. /\ cur.answer.version = Registered(round).version /\ cur.answer.combo = Registered(round).combo
        /\ cur.answer.hash = Registered(round).hash /\ cur.answer.sub = Registered(round).sub
        /\ cur.answer.detail = Registered(round).detail /\ cur.answer.validity = Registered(round).validity
    BY DEF RegisterWrites, Registered
  <1>2. /\ cur.answer.registration = Registered(round).registration /\ cur.answer.type = Registered(round).type
        /\ cur.answer.task = Registered(round).task
    BY DEF RegisterWrites, Registered
  <1> QED BY <1>1, <1>2 DEF ReplayFields

\* The answer carries its nested objects and they name the same rows.
LEMMA RegistrationNames ==
  ASSUME RegisterWrites, round \in Nat, round + 1 = Combo
  PROVE  RegistrationAnswered(Answer, cur.n_sub, cur.n_detail, cur.n_validity, cur.n_mapping)
  <1>1. /\ Null # 1 /\ Null # 9 /\ Null # 8 /\ Null # 7 /\ Null # 6 /\ Null # round + 1 /\ Null # Combo
    BY Weights, ValueAssumption DEF ValueAssumption
  <1>2. Present(Answer, {"version", "combo", "sub", "detail", "validity", "registration", "hash"})
    BY <1>1 DEF Present, Answer, RegisterWrites
  <1>3. NestedIdentitiesFit(Answer, cur.n_sub, cur.n_detail, cur.n_validity, cur.n_mapping)
    BY <1>1 DEF NestedIdentitiesFit, Answer, RegisterWrites
  <1>4. Answer.type = 1
    BY DEF Answer, RegisterWrites
  <1> QED BY <1>2, <1>3, <1>4 DEF RegistrationAnswered

\* register_report: with a version id that is the combination's (otherwise the code
\* blames the backend, which is a finding).
LEMMA RegisterIsAccepted ==
  ASSUME CleanForm, CleanRegister, CleanAnswer, stage = "register", pc = "check",
         round \in Nat, replayed \in BOOLEAN, OwnReport, cur.version.id = Combo
  PROVE  RegisterAccepted
  <1>1. /\ cur.version = VersionRow(round, "active", round + 1)
        /\ cur.form = FormRow("completed", round + 1, round + 1, round + 1)
        /\ cur.experiment = ExperimentRow(round, TRUE)
        /\ request.session = 1 /\ request.run = round + 1 /\ request.report = 1 /\ request.validity = 1
        /\ request.formula = 1
        /\ cur.c1 = Component(round, 1) /\ cur.c2 = Component(round, 2)
    BY DEF CleanRegister, OwnRows
  <1>2. RegisterWrites
    BY DEF CleanAnswer
  <1>3. /\ Null # 1 /\ Null # 9 /\ Null # 8 /\ Null # 7 /\ Null # 6 /\ Null # round + 1 /\ Null # Combo
    BY Weights, ValueAssumption DEF ValueAssumption
  <1>4. Combo = round + 1
    BY <1>1 DEF VersionRow
  <1>5. RegistrationAnswered(Answer, cur.n_sub, cur.n_detail, cur.n_validity, cur.n_mapping)
    BY <1>2, <1>4, RegistrationNames
  <1>6. RegistrationPersisted(Answer, Nested, request, Rows, cur.version, cur.form, cur.experiment)
    <2>0. Rows.sub = cur.sub /\ Rows.detail = cur.detail /\ Rows.validity = cur.validity /\ Rows.mapping = cur.mapping
      BY DEF Rows
    <2>1. /\ Answer.registered = TRUE /\ Answer.replay \in BOOLEAN /\ Answer.type = 1
          /\ Answer.refresh \in RefreshStatuses /\ Answer.task # Null
          /\ Answer.detail = Rows.detail.id /\ Answer.validity = Rows.validity.id /\ Answer.sub = Rows.sub.id
      BY <1>2, <1>3, <2>0 DEF Answer, RegisterWrites, RefreshStatuses
    <2>2. MappingPersisted(Answer, cur.version, Rows.mapping)
      <3>1. Same(Answer, cur.version, {<<"version", "id">>, <<"combo", "combo">>, <<"hash", "hash">>})
        BY <1>1, <1>2 DEF Same, Answer, RegisterWrites, VersionRow
      <3>2. Same(Answer, cur.mapping, {<<"registration", "id">>, <<"hash", "hash">>, <<"sub", "sub">>})
        BY <1>2 DEF Same, Answer, RegisterWrites
      <3>3. cur.mapping.combo = Answer.combo /\ cur.version.status = "active"
        BY <1>1, <1>2 DEF Answer, RegisterWrites, VersionRow
      <3> QED BY <2>0, <3>1, <3>2, <3>3 DEF MappingPersisted
    <2>3. FlagsPersisted(Rows)
      <3>1. \A f \in SummaryIds : cur.validity[f] = Null
        BY <1>2 DEF RegisterWrites, SummaryIds
      <3>2. cur.sub.type = 1 /\ cur.detail.is_sub = TRUE /\ cur.detail.enabled = 1 /\ cur.validity.is_sub = TRUE
        BY <1>2 DEF RegisterWrites
      <3> QED BY <2>0, <3>1, <3>2 DEF FlagsPersisted
    <2>4. PointersFit(Answer, request, cur.version, cur.form, cur.experiment)
      BY <1>1, <1>2 DEF PointersFit, Answer, RegisterWrites, VersionRow, FormRow, ExperimentRow
    <2>5. NestedStored(Nested, Rows)
      <3>1. DOMAIN Nested = {"sub", "detail", "validity", "mapping"}
        BY DEF Nested
      <3>2. Nested.sub = cur.n_sub /\ Nested.detail = cur.n_detail /\ Nested.validity = cur.n_validity
            /\ Nested.mapping = cur.n_mapping
        BY DEF Nested
      <3>3. \A f \in DOMAIN cur.n_sub : cur.n_sub[f] = cur.sub[f]
        <4>1. DOMAIN cur.n_sub = {"id", "name", "type"}
          BY <1>2 DEF RegisterWrites
        <4>2. /\ cur.n_sub["id"] = cur.sub["id"] /\ cur.n_sub["name"] = cur.sub["name"]
              /\ cur.n_sub["type"] = cur.sub["type"]
          BY <1>2 DEF RegisterWrites
        <4> QED BY <4>1, <4>2
      <3>4. \A f \in DOMAIN cur.n_detail : cur.n_detail[f] = cur.detail[f]
        <4>1. DOMAIN cur.n_detail = {"id", "factor", "is_sub", "enabled"}
          BY <1>2 DEF RegisterWrites
        <4>2. /\ cur.n_detail["id"] = cur.detail["id"] /\ cur.n_detail["factor"] = cur.detail["factor"]
              /\ cur.n_detail["is_sub"] = cur.detail["is_sub"] /\ cur.n_detail["enabled"] = cur.detail["enabled"]
          BY <1>2 DEF RegisterWrites
        <4> QED BY <4>1, <4>2
      <3>5. \A f \in DOMAIN cur.n_validity : cur.n_validity[f] = cur.validity[f]
        <4>1. DOMAIN cur.n_validity = {"id", "factor", "is_sub"}
          BY <1>2 DEF RegisterWrites
        <4>2. /\ cur.n_validity["id"] = cur.validity["id"] /\ cur.n_validity["factor"] = cur.validity["factor"]
              /\ cur.n_validity["is_sub"] = cur.validity["is_sub"]
          BY <1>2 DEF RegisterWrites
        <4> QED BY <4>1, <4>2
      <3>6. \A f \in DOMAIN cur.n_mapping : cur.n_mapping[f] = cur.mapping[f]
        BY <1>2 DEF RegisterWrites
      <3> QED BY <2>0, <3>1, <3>2, <3>3, <3>4, <3>5, <3>6 DEF NestedStored
    <2>6. RequestStored(request, Rows.sub, Rows.detail, Rows.validity)
      BY <1>1, <1>2, <2>0 DEF RequestStored, RegisterWrites
    <2> QED BY <2>1, <2>2, <2>3, <2>4, <2>5, <2>6 DEF RegistrationPersisted
  <1>7. ReportAccepted(request.items, request.formula, <<cur.c1, cur.c2>>, request.codes, cur.sub,
                       cur.detail, Relations)
    <2> DEFINE report == request.items
               rows == <<cur.c1, cur.c2>>
               codes == request.codes
               taken == Taken(report, rows, codes)
    <2>1. report = <<Item(1), Item(2)>>
      BY DEF OwnReport
    <2>2. Len(report) = 2 /\ DOMAIN report = {1, 2} /\ report[1] = Item(1) /\ report[2] = Item(2)
      BY <2>1, PairFacts
    <2>3. Len(rows) = 2 /\ DOMAIN rows = {1, 2} /\ rows[1] = cur.c1 /\ rows[2] = cur.c2
      BY PairFacts
    <2>4. report # <<>>
      BY <2>1
    <2> HIDE DEF report, rows, codes
    <2>5. /\ rows[1].sub = 1 /\ rows[1].factor = 1 /\ rows[1].direction = 1
          /\ rows[1].transform = "static" /\ rows[1].weight = round + 1
      BY <1>1, <2>3, ComponentFacts
    <2>6. /\ rows[2].sub = 2 /\ rows[2].factor = 1 /\ rows[2].direction = -1
          /\ rows[2].transform = "artifact" /\ rows[2].weight = Null
      BY <1>1, <2>3, ComponentFacts
    <2>7. /\ report[1].id = 1 /\ report[1].factor = 1 /\ report[1].direction = 1 /\ report[1].weight = round + 1
          /\ report[2].id = 2 /\ report[2].factor = 1 /\ report[2].direction = -1 /\ report[2].weight = Null
      BY <2>2, ItemFacts
    <2>9. Len(taken) = 2 /\ taken[1] = 1 /\ taken[2] = 2
      BY <2>2, <2>3, <2>5, <2>6, <2>7, OwnReportTaken
    <2> HIDE DEF taken
    <2>10. \A i \in DOMAIN report : PairFits(report[i], rows[taken[i]])
      <3>1. SameMagnitude(report[1].weight, rows[1].weight)
        BY <2>5, <2>7 DEF SameMagnitude
      <3> QED BY <1>3, <2>2, <2>5, <2>6, <2>7, <2>9, <3>1 DEF PairFits
    <2>11. FormulaStored(request.formula, cur.sub, cur.detail)
      BY <1>1, <1>2, <1>3 DEF FormulaStored, RegisterWrites
    <2>12. SourceTraceable(Relations, rows, cur.sub.id)
      <3> DEFINE rel == [child |-> 9, factor |-> 1, parent |-> Null]
      <3>1. /\ cur.mapping.sub = cur.sub.id /\ cur.mapping.combo = cur.version.combo
            /\ cur.mapping.hash = cur.version.hash /\ cur.sub.id = 9
        BY <1>1, <1>2 DEF RegisterWrites, VersionRow
      <3>2. Relations = {rel}
        BY <3>1 DEF Relations, SourceGraph
      <3>3. rel.child = 9 /\ rel.factor = 1
        OBVIOUS
      <3> HIDE DEF rel
      <3>4. rel.factor # Null /\ \E i \in DOMAIN rows : rows[i].factor = rel.factor
        BY <1>3, <2>3, <2>5, <3>3
      <3> QED BY <3>1, <3>2, <3>3, <3>4 DEF SourceTraceable
    <2>13. ReportAccepted(report, request.formula, rows, codes, cur.sub, cur.detail, Relations)
      BY <2>2, <2>3, <2>4, <2>9, <2>10, <2>11, <2>12 DEF ReportAccepted, taken
    <2> QED BY <2>13 DEF report, rows, codes
  <1> QED BY <1>5, <1>6, <1>7 DEF RegisterAccepted

\* A repeated registration gets the first answer again.
LEMMA ReplayIsAccepted ==
  ASSUME CleanRegister, CleanAnswer, stage = "register", pc = "check", round \in Nat, replayed,
         replayed \in BOOLEAN, cur.version.id = Combo
  PROVE  ReplayAccepted
  <1>1. RegisterWrites /\ \A f \in ReplayFields : client.registration[f] = Registered(round)[f]
    BY DEF CleanAnswer, CleanRegister
  <1>2. round + 1 = Combo
    BY DEF CleanRegister, VersionRow
  <1>3. RegistrationAnswered(Answer, cur.n_sub, cur.n_detail, cur.n_validity, cur.n_mapping)
    BY <1>1, <1>2, RegistrationNames
  <1>4. Answer.registered = TRUE /\ Answer.replay = TRUE
    BY <1>1 DEF Answer, RegisterWrites
  <1>5. Answer.refresh \in RefreshStatuses \ {"not_configured", "submit_failed"}
    BY <1>1 DEF Answer, RegisterWrites, RefreshStatuses
  <1>6. \A f \in ReplayFields : Answer[f] = client.registration[f]
    BY <1>1, AnswerNames DEF Answer
  <1> QED BY <1>3, <1>4, <1>5, <1>6 DEF ReplayAccepted, RegistrationReplayed

-----------------------------------------------------------------------------
(* What a call writes without a fault.                                     *)

\* The columns of a form row.
LEMMA FormRowFields ==
  ASSUME NEW s, NEW r, NEW v, NEW e
  PROVE  /\ DOMAIN FormRow(s, r, v, e) = FormFields
         /\ FormRow(s, r, v, e).status = s /\ FormRow(s, r, v, e).run = r
         /\ FormRow(s, r, v, e).version = v /\ FormRow(s, r, v, e).experiment = e
         /\ IsFormRow(FormRow(s, r, v, e))
  BY DEF FormRow, IsFormRow, FormFields

\* A row is a function of its columns, so rows that agree on all are equal.
IsFunction(x) == x = [f \in DOMAIN x |-> x[f]]

\* A form with the six constant columns is a form row.
LEMMA FormByFields ==
  ASSUME NEW x, IsFunction(x), DOMAIN x = FormFields,
         x.id = 1, x.session = 1, x.form_no = 1, x.pool = 1, x.json = 1, x.spec = 1
  PROVE  x = FormRow(x.status, x.run, x.version, x.experiment)
  <1> DEFINE y == FormRow(x.status, x.run, x.version, x.experiment)
  <1>1. /\ IsFunction(y) /\ DOMAIN y = FormFields
        /\ y.id = 1 /\ y.session = 1 /\ y.form_no = 1 /\ y.pool = 1 /\ y.json = 1 /\ y.spec = 1
        /\ y.status = x.status /\ y.run = x.run /\ y.version = x.version /\ y.experiment = x.experiment
    BY DEF FormRow, IsFunction, FormFields
  <1> HIDE DEF y
  <1>2. \A f \in FormFields : x[f] = y[f]
    BY <1>1 DEF FormFields
  <1>3. x = y
    BY <1>1, <1>2 DEF IsFunction
  <1> QED BY <1>3 DEF y

\* An experiment is known by its columns.
LEMMA ExperimentByFields ==
  ASSUME NEW x, NEW k, NEW valid, IsFunction(x), DOMAIN x = ExperimentFields,
         x.id = k + 1, x.external = k + 1, x.combo = Combo, x.payload = 1,
         x.valid = valid, x.reason = IF valid THEN Null ELSE 1
  PROVE  x = ExperimentRow(k, valid)
  <1> DEFINE y == ExperimentRow(k, valid)
  <1>1. /\ IsFunction(y) /\ DOMAIN y = ExperimentFields
        /\ y.id = k + 1 /\ y.external = k + 1 /\ y.combo = Combo /\ y.payload = 1
        /\ y.valid = valid /\ y.reason = IF valid THEN Null ELSE 1
    BY DEF ExperimentRow, IsFunction, ExperimentFields
  <1> HIDE DEF y
  <1>2. \A f \in ExperimentFields : x[f] = y[f]
    BY <1>1 DEF ExperimentFields
  <1>3. x = y
    BY <1>1, <1>2 DEF IsFunction
  <1> QED BY <1>3 DEF y

\* The constant columns of a form row.
LEMMA FormColumns ==
  ASSUME NEW x, IsFormRow(x)
  PROVE  /\ IsFunction(x) /\ DOMAIN x = FormFields
         /\ x.id = 1 /\ x.session = 1 /\ x.form_no = 1 /\ x.pool = 1 /\ x.json = 1 /\ x.spec = 1
  BY DEF IsFormRow, FormRow, IsFunction, FormFields

\* submit_form.
LEMMA SubmitRowsClean ==
  ASSUME NEW d, DOMAIN cur = Parts
  PROVE  /\ IsFormRow(SubmitRows(d).form) /\ SubmitRows(d).form.status = "submitted"
         /\ CleanPool(SubmitRows(d).pool)
         /\ SubmitRows(d).m1 = Member(1, d) /\ SubmitRows(d).m2 = Member(2, 1)
         /\ SubmitRows(d).answer = [form |-> 1, pool |-> 1, form_no |-> 1, status |-> "submitted"]
  <1> DEFINE w == SubmitRows(d)
  <1>1. w.form = FormRow("submitted", Null, Null, Null)
    BY DEF SubmitRows, FormRow, Parts
  <1>2. w.pool = [id |-> 1, form |-> 1, filter |-> <<1, 2>>, hash |-> 1, status |-> "draft"]
    BY DEF SubmitRows, Parts
  <1>3. w.m1 = Member(1, d) /\ w.m2 = Member(2, 1)
    BY DEF SubmitRows, Parts
  <1>4. w.answer = [form |-> 1, pool |-> 1, form_no |-> 1, status |-> "submitted"]
    BY DEF SubmitRows, Parts
  <1> HIDE DEF w
  <1>5. IsFormRow(w.form) /\ w.form.status = "submitted"
    BY <1>1 DEF FormRow, IsFormRow
  <1>6. CleanPool(w.pool)
    BY <1>2 DEF CleanPool
  <1> QED BY <1>3, <1>4, <1>5, <1>6 DEF w

\* The claim of a form or of a pending feedback row.
LEMMA ClaimRowsClean ==
  ASSUME DOMAIN cur = Parts, IsFormRow(cur.form), CleanPool(cur.pool)
  PROVE  /\ IsFormRow(ClaimRows.form) /\ CleanPool(ClaimRows.pool)
         /\ ClaimRows.m1 = cur.m1 /\ ClaimRows.m2 = cur.m2
         /\ ClaimRows.version = cur.version /\ ClaimRows.c1 = cur.c1 /\ ClaimRows.c2 = cur.c2
         /\ round # 0 /\ cur.feedback = FeedbackRow(round, "pending", Null) =>
               ClaimRows.feedback = FeedbackRow(round, "processing", Null)
         /\ ClaimRows.answer = [run |-> round + 1, combo |-> Combo, experiment |-> round + 1,
                                components |-> Requested(round)]
  <1> DEFINE w == ClaimRows
  <1>1. IsFormRow(w.form)
    <2>1. /\ DOMAIN w.form = FormFields
          /\ w.form.id = 1 /\ w.form.session = 1 /\ w.form.form_no = 1 /\ w.form.pool = 1
          /\ w.form.json = 1 /\ w.form.spec = 1
      BY FormColumns DEF ClaimRows, Parts, FormFields
    <2>2. IsFunction(w.form)
      BY FormColumns DEF ClaimRows, Parts, IsFunction, FormFields
    <2> HIDE DEF w
    <2> QED BY <2>1, <2>2, FormByFields DEF IsFormRow
  <1>2. CleanPool(w.pool)
    BY DEF ClaimRows, Parts, CleanPool
  <1>3. /\ w.m1 = cur.m1 /\ w.m2 = cur.m2
        /\ w.version = cur.version /\ w.c1 = cur.c1 /\ w.c2 = cur.c2
    BY DEF ClaimRows, Parts
  <1>4. w.answer = [run |-> round + 1, combo |-> Combo, experiment |-> round + 1, components |-> Requested(round)]
    BY DEF ClaimRows, Parts
  <1>5. ASSUME round # 0, cur.feedback = FeedbackRow(round, "pending", Null)
        PROVE  w.feedback = FeedbackRow(round, "processing", Null)
    BY <1>5 DEF ClaimRows, Parts, FeedbackRow
  <1> QED BY <1>1, <1>2, <1>3, <1>4, <1>5

\* An initial or a next version, also over the rows a helper has partly undone.
LEMMA VersionRowsClean ==
  ASSUME DOMAIN cur = Parts, IsFormRow(cur.form)
  PROVE  /\ VersionRows.form = FormRow("processing", round + 1, round + 1, Null)
         /\ VersionRows.pool = cur.pool /\ VersionRows.m1 = cur.m1 /\ VersionRows.m2 = cur.m2
         /\ VersionRows.version = Version(round)
         /\ VersionRows.c1 = Component(round, 1) /\ VersionRows.c2 = Component(round, 2)
         /\ round # 0 /\ cur.feedback = [FeedbackRow(round, "processing", cur.feedback.next_run)
                                            EXCEPT !.next_version = cur.feedback.next_version] =>
               VersionRows.feedback = FeedbackRow(round, "processing", round + 1)
         /\ VersionRows.answer =
              [form |-> 1, pool |-> 1, form_status |-> "processing", run |-> round + 1,
               combo |-> Combo, family |-> 1, hash |-> round + 1, version |-> round + 1,
               combo_status |-> "candidate", count |-> 2,
               feedback |-> round, round |-> round, feedback_status |-> "processing",
               http |-> IF replayed' THEN 200 ELSE 201, replay |-> replayed']
  <1> DEFINE w == VersionRows
  <1>1. w.form = FormRow("processing", round + 1, round + 1, Null)
    <2>1. /\ DOMAIN w.form = FormFields
          /\ w.form.id = 1 /\ w.form.session = 1 /\ w.form.form_no = 1 /\ w.form.pool = 1
          /\ w.form.json = 1 /\ w.form.spec = 1
      BY FormColumns DEF VersionRows, Parts, FormFields
    <2>2. IsFunction(w.form)
      BY FormColumns DEF VersionRows, Parts, IsFunction, FormFields
    <2>3. /\ w.form.status = "processing" /\ w.form.run = round + 1
          /\ w.form.version = round + 1 /\ w.form.experiment = Null
      BY FormColumns DEF VersionRows, Parts, FormFields
    <2> HIDE DEF w
    <2> QED BY <2>1, <2>2, <2>3, FormByFields
  <1>2. w.pool = cur.pool /\ w.m1 = cur.m1 /\ w.m2 = cur.m2
    BY DEF VersionRows, Parts
  <1>3. w.version = Version(round)
    BY DEF VersionRows, Parts
  <1>4. w.c1 = Component(round, 1) /\ w.c2 = Component(round, 2)
    BY DEF VersionRows, Parts
  <1>5. ASSUME round # 0, cur.feedback = [FeedbackRow(round, "processing", cur.feedback.next_run)
                                             EXCEPT !.next_version = cur.feedback.next_version]
        PROVE  w.feedback = FeedbackRow(round, "processing", round + 1)
    BY <1>5 DEF VersionRows, Parts, FeedbackRow
  <1>6. w.answer =
          [form |-> 1, pool |-> 1, form_status |-> "processing", run |-> round + 1,
           combo |-> Combo, family |-> 1, hash |-> round + 1, version |-> round + 1,
           combo_status |-> "candidate", count |-> 2,
           feedback |-> round, round |-> round, feedback_status |-> "processing",
           http |-> IF replayed' THEN 200 ELSE 201, replay |-> replayed']
    BY DEF VersionRows, Parts
  <1> QED BY <1>1, <1>2, <1>3, <1>4, <1>5, <1>6

\* An experiment, also over undone links.
LEMMA ExperimentRowsClean ==
  ASSUME NEW valid, DOMAIN cur = Parts, NEW run, NEW version, NEW status, NEW e, NEW e2,
         cur.form = FormRow(status, run, version, e), cur.version = VersionRow(round, "candidate", e2)
  PROVE  /\ ExperimentRows(valid).form = FormRow("completed", run, version, round + 1)
         /\ ExperimentRows(valid).pool = cur.pool /\ ExperimentRows(valid).m1 = cur.m1
         /\ ExperimentRows(valid).m2 = cur.m2
         /\ ExperimentRows(valid).version = VersionRow(round, "candidate", round + 1)
         /\ ExperimentRows(valid).c1 = cur.c1 /\ ExperimentRows(valid).c2 = cur.c2
         /\ ExperimentRows(valid).experiment = ExperimentRow(round, valid)
         /\ ExperimentRows(valid).answer =
              [experiment |-> round + 1, external |-> round + 1, form |-> 1,
               version |-> round + 1, combo |-> Combo, form_status |-> "completed",
               combo_status |-> "candidate", valid |-> valid,
               http |-> IF replayed' THEN 200 ELSE 201, replay |-> replayed']
  <1> DEFINE w == ExperimentRows(valid)
  <1>1. w.form = FormRow("completed", run, version, round + 1)
    <2>0. IsFormRow(cur.form) /\ cur.form.run = run /\ cur.form.version = version
      BY FormRowFields
    <2>1. /\ DOMAIN cur.form = FormFields
          /\ cur.form.id = 1 /\ cur.form.session = 1 /\ cur.form.form_no = 1 /\ cur.form.pool = 1
          /\ cur.form.json = 1 /\ cur.form.spec = 1 /\ IsFunction(cur.form)
      BY <2>0, FormColumns
    <2>2. IsFunction(w.form)
      BY <2>1 DEF ExperimentRows, Parts, IsFunction
    <2>3. DOMAIN w.form = FormFields
      BY <2>1 DEF ExperimentRows, Parts
    <2>4. w.form.id = 1 /\ w.form.session = 1 /\ w.form.form_no = 1
      BY <2>1 DEF ExperimentRows, Parts, FormFields
    <2>5. w.form.pool = 1 /\ w.form.json = 1 /\ w.form.spec = 1
      BY <2>1 DEF ExperimentRows, Parts, FormFields
    <2>6. w.form.status = "completed" /\ w.form.run = run
      BY <2>0, <2>1 DEF ExperimentRows, Parts, FormFields
    <2>7. w.form.version = version /\ w.form.experiment = round + 1
      BY <2>0, <2>1 DEF ExperimentRows, Parts, FormFields
    <2> HIDE DEF w
    <2> QED BY <2>2, <2>3, <2>4, <2>5, <2>6, <2>7, FormByFields
  <1>2. w.pool = cur.pool /\ w.m1 = cur.m1 /\ w.m2 = cur.m2 /\ w.c1 = cur.c1 /\ w.c2 = cur.c2
    BY DEF ExperimentRows, Parts
  <1>3. w.version = VersionRow(round, "candidate", round + 1)
    BY DEF ExperimentRows, Parts, VersionRow
  <1>4. w.experiment = ExperimentRow(round, valid)
    BY DEF ExperimentRows, Parts, ExperimentRow
  <1>5. w.answer =
          [experiment |-> round + 1, external |-> round + 1, form |-> 1,
           version |-> round + 1, combo |-> Combo, form_status |-> "completed",
           combo_status |-> "candidate", valid |-> valid,
           http |-> IF replayed' THEN 200 ELSE 201, replay |-> replayed']
    BY DEF ExperimentRows, Parts
  <1> QED BY <1>1, <1>2, <1>3, <1>4, <1>5

\* A rejection, also over the moment recreated before it.
LEMMA FeedbackRowsClean ==
  ASSUME NEW k \in Nat, NEW valid, NEW status, DOMAIN cur = Parts, IsFormRow(cur.form),
         cur.version = VersionRow(k - 1, status, k), cur.experiment = ExperimentRow(k - 1, valid)
  PROVE  /\ FeedbackRows(k).form = FormRow("processing", Null, Null, Null)
         /\ FeedbackRows(k).pool = cur.pool /\ FeedbackRows(k).m1 = cur.m1 /\ FeedbackRows(k).m2 = cur.m2
         /\ FeedbackRows(k).version = VersionRow(k - 1, "rejected", k)
         /\ FeedbackRows(k).c1 = cur.c1 /\ FeedbackRows(k).c2 = cur.c2
         /\ FeedbackRows(k).experiment = ExperimentRow(k - 1, FALSE)
         /\ FeedbackRows(k).feedback = FeedbackRow(k, "pending", Null)
         /\ FeedbackRows(k).answer =
              [feedback |-> k, round |-> k, recorded |-> TRUE, replay |-> replayed',
               status |-> "pending", reply |-> 2, form |-> 1, experiment |-> k,
               form_status |-> "processing", valid |-> FALSE, rejected |-> k]
  <1> DEFINE w == FeedbackRows(k)
  <1>1. w.form = FormRow("processing", Null, Null, Null)
    <2>0. IsFormRow(cur.form)
      OBVIOUS
    <2>1. /\ DOMAIN cur.form = FormFields
          /\ cur.form.id = 1 /\ cur.form.session = 1 /\ cur.form.form_no = 1 /\ cur.form.pool = 1
          /\ cur.form.json = 1 /\ cur.form.spec = 1 /\ IsFunction(cur.form)
      BY <2>0, FormColumns
    <2>2. IsFunction(w.form)
      BY <2>1 DEF FeedbackRows, Parts, IsFunction
    <2>3. DOMAIN w.form = FormFields
      BY <2>1 DEF FeedbackRows, Parts
    <2>4. w.form.id = 1 /\ w.form.session = 1 /\ w.form.form_no = 1
      BY <2>1 DEF FeedbackRows, Parts, FormFields
    <2>5. w.form.pool = 1 /\ w.form.json = 1 /\ w.form.spec = 1
      BY <2>1 DEF FeedbackRows, Parts, FormFields
    <2>6. w.form.status = "processing" /\ w.form.run = Null
      BY <2>0, <2>1 DEF FeedbackRows, Parts, FormFields
    <2>7. w.form.version = Null /\ w.form.experiment = Null
      BY <2>0, <2>1 DEF FeedbackRows, Parts, FormFields
    <2> HIDE DEF w
    <2> QED BY <2>2, <2>3, <2>4, <2>5, <2>6, <2>7, FormByFields
  <1>2. w.pool = cur.pool /\ w.m1 = cur.m1 /\ w.m2 = cur.m2 /\ w.c1 = cur.c1 /\ w.c2 = cur.c2
    BY DEF FeedbackRows, Parts
  <1>3. w.version = VersionRow(k - 1, "rejected", k)
    BY DEF FeedbackRows, Parts, VersionRow
  <1>4. w.experiment = ExperimentRow(k - 1, FALSE)
    <2>1. /\ DOMAIN cur.experiment = ExperimentFields /\ IsFunction(cur.experiment)
          /\ cur.experiment.id = k - 1 + 1 /\ cur.experiment.external = k - 1 + 1 /\ cur.experiment.combo = Combo
          /\ cur.experiment.payload = 1
      BY DEF ExperimentRow, ExperimentFields, IsFunction
    <2>2. IsFunction(w.experiment)
      <3> DEFINE x == [cur.experiment EXCEPT !.valid = FALSE, !.reason = 1]
      <3>1. w.experiment = x
        BY <2>1 DEF FeedbackRows, Parts
      <3>2. IsFunction(x)
        BY DEF IsFunction
      <3> HIDE DEF w, x
      <3> QED BY <3>1, <3>2
    <2>3. DOMAIN w.experiment = ExperimentFields
      BY <2>1 DEF FeedbackRows, Parts
    <2>4. /\ w.experiment.id = k - 1 + 1 /\ w.experiment.external = k - 1 + 1 /\ w.experiment.combo = Combo
          /\ w.experiment.payload = 1
      BY <2>1 DEF FeedbackRows, Parts, ExperimentFields
    <2>5. w.experiment.valid = FALSE /\ w.experiment.reason = 1
      BY <2>1 DEF FeedbackRows, Parts, ExperimentFields
    <2> HIDE DEF w
    <2> QED BY <2>2, <2>3, <2>4, <2>5, ExperimentByFields
  <1>5. w.feedback = FeedbackRow(k, "pending", Null)
    BY DEF FeedbackRows, Parts, FeedbackRow
  <1>6. w.answer =
          [feedback |-> k, round |-> k, recorded |-> TRUE, replay |-> replayed',
           status |-> "pending", reply |-> 2, form |-> 1, experiment |-> k,
           form_status |-> "processing", valid |-> FALSE, rejected |-> k]
    BY DEF FeedbackRows, Parts
  <1> QED BY <1>1, <1>2, <1>3, <1>4, <1>5, <1>6

\* A registration.
LEMMA RegisterRowsClean ==
  ASSUME DOMAIN cur = Parts, NEW status, cur.version = VersionRow(round, status, round + 1), cur' = RegisterRows,
         round' = round
  PROVE  /\ cur'.form = cur.form /\ cur'.pool = cur.pool /\ cur'.m1 = cur.m1 /\ cur'.m2 = cur.m2
         /\ cur'.c1 = cur.c1 /\ cur'.c2 = cur.c2 /\ cur'.experiment = cur.experiment
         /\ cur'.version = VersionRow(round, "active", round + 1)
         /\ RegisterWrites'
  <1>1. /\ cur'.form = cur.form /\ cur'.pool = cur.pool /\ cur'.m1 = cur.m1 /\ cur'.m2 = cur.m2
        /\ cur'.c1 = cur.c1 /\ cur'.c2 = cur.c2 /\ cur'.experiment = cur.experiment
    BY DEF RegisterRows, Parts
  <1>2. cur'.version = VersionRow(round, "active", round + 1)
    BY DEF RegisterRows, Parts, VersionRow
  <1>3. cur.version.hash = round + 1
    BY DEF VersionRow
  <1>4. /\ cur'.sub = [id |-> 9, name |-> 1, type |-> 1, formula |-> 1, metadata_formula |-> 1, report |-> 1]
        /\ cur'.detail = [id |-> 8, factor |-> 9, is_sub |-> TRUE, enabled |-> 1, formula |-> 1,
                          params_formula |-> 1, report |-> 1]
        /\ cur'.validity = [id |-> 7, factor |-> 9, is_sub |-> TRUE, snapshot |-> 1, ts_summary |-> Null,
                            cs_summary |-> Null]
    BY DEF RegisterRows, Parts
  <1>5. /\ cur'.n_sub = [id |-> 9, name |-> 1, type |-> 1]
        /\ cur'.n_detail = [id |-> 8, factor |-> 9, is_sub |-> TRUE, enabled |-> 1]
        /\ cur'.n_validity = [id |-> 7, factor |-> 9, is_sub |-> TRUE]
    BY DEF RegisterRows, Parts
  <1>6. /\ cur'.mapping = [id |-> 6, combo |-> Combo, hash |-> round + 1, sub |-> 9]
        /\ cur'.n_mapping = [id |-> 6, combo |-> Combo, hash |-> round + 1, sub |-> 9]
    BY <1>3 DEF RegisterRows, Parts
  <1>7. cur'.answer = [form |-> 1, version |-> round + 1, combo |-> Combo, hash |-> round + 1,
                       sub |-> 9, detail |-> 8, validity |-> 7, registration |-> 6, type |-> 1,
                       registered |-> TRUE, replay |-> replayed', refresh |-> "queued", task |-> 1]
    BY DEF RegisterRows, Parts
  <1> QED BY <1>1, <1>2, <1>4, <1>5, <1>6, <1>7 DEF RegisterWrites

-----------------------------------------------------------------------------
(* Every step keeps the rows clean.                                        *)

\* A call without a fault writes its rows.
LEMMA CleanCall ==
  ASSUME Control, CleanInv, NEW s, NEW r, NEW w, NEW parts, Call(s, r), Written(w, parts), ~fault', ~refreshed'
  PROVE  /\ Clean /\ ~cleared /\ pc = "ready" /\ cur' = w /\ pc' = "check" /\ stage' = s /\ request' = r
         /\ replayed' = FALSE /\ client' = client /\ cleared' = cleared
  <1>1. /\ ~cleared /\ pc = "ready" /\ pc' = "check" /\ stage' = s /\ request' = r
        /\ replayed' = FALSE /\ client' = client /\ cleared' = cleared /\ refreshed' = refreshed
    BY DEF Call
  <1>2. ~fault /\ cur' = w
    BY DEF Written, Control
  <1>3. Clean
    BY <1>1, <1>2 DEF CleanInv, Clean
  <1> QED BY <1>1, <1>2, <1>3

\* A call after the submission leaves form, pool and members clean.
LEMMA FormKept ==
  ASSUME CleanForm, stage # "none", stage' \notin {"none", "submit"}, pc = "ready" \/ stage # "submit",
         IsFormRow(cur'.form), CleanPool(cur'.pool), cur'.m1 = cur.m1, cur'.m2 = cur.m2,
         stage' = "order" => cur'.form.status = "submitted", client'.task = client.task
  PROVE  CleanForm'
  BY DEF CleanForm

\* submit_form.
LEMMA CleanSubmit ==
  ASSUME Control, Shape, CleanInv, NEW d \in Directions, NEW direct \in BOOLEAN, submit_form(d, direct)
  PROVE  CleanInv'
  <1> SUFFICES ASSUME ~fault', ~refreshed' PROVE Clean'
    BY DEF CleanInv, Clean
  <1>1. /\ Clean /\ ~cleared /\ cur' = SubmitRows(d) /\ pc' = "check" /\ stage' = "submit"
        /\ request' = FormRequest(direct) /\ cleared' = cleared
    BY CleanCall DEF submit_form
  <1>2. DOMAIN cur = Parts
    BY DEF Shape
  <1>3. CleanForm'
    BY <1>1, <1>2, SubmitRowsClean DEF CleanForm
  <1>4. CleanAnswer'
    BY <1>1, <1>2, SubmitRowsClean DEF CleanAnswer, FormRequest
  <1> QED BY <1>1, <1>3, <1>4 DEF Clean, CleanVersion, CleanExperiment, CleanRejected, CleanFeedback, CleanRegister,
                                 CleanClaim

\* get_work_order.
LEMMA CleanOrder ==
  ASSUME Control, Shape, CleanInv, get_work_order
  PROVE  CleanInv'
  <1> SUFFICES ASSUME ~fault', ~refreshed' PROVE Clean'
    BY DEF CleanInv, Clean
  <1>1. /\ Clean /\ ~cleared /\ cur' = OrderRows /\ pc = "ready" /\ pc' = "check" /\ stage = "submit"
        /\ stage' = "order" /\ client' = client /\ cleared' = cleared
    BY CleanCall DEF get_work_order
  <1>2. DOMAIN cur = Parts
    BY DEF Shape
  <1>3. IsFormRow(cur.form) /\ CleanPool(cur.pool) /\ cur.form.status = "submitted"
    BY <1>1 DEF Clean, CleanForm
  <1>4. /\ cur'.form = cur.form /\ cur'.pool = cur.pool /\ cur'.m1 = cur.m1 /\ cur'.m2 = cur.m2
        /\ cur'.a1 = Answered(cur'.m1)
        /\ cur'.answer = [form |-> 1, pool |-> 1, form_no |-> 1, hash |-> 1, json |-> 1, spec |-> 1,
                          status |-> "submitted"]
    BY <1>1, <1>2, <1>3 DEF OrderRows, Parts
  <1>5. CleanForm'
    BY <1>1, <1>3, <1>4, FormKept DEF Clean
  <1>6. CleanAnswer'
    BY <1>1, <1>4 DEF CleanAnswer
  <1> QED BY <1>1, <1>5, <1>6 DEF Clean, CleanVersion, CleanExperiment, CleanRejected, CleanFeedback, CleanRegister,
                                 CleanClaim

\* claim_legacy_pipeline.
LEMMA CleanClaimed ==
  ASSUME Control, Shape, CleanInv, claim_legacy_pipeline
  PROVE  CleanInv'
  <1> SUFFICES ASSUME ~fault', ~refreshed' PROVE Clean'
    BY DEF CleanInv, Clean
  <1>1. /\ Clean /\ ~cleared /\ cur' = ClaimRows /\ pc = "ready" /\ pc' = "check"
        /\ stage \in {"submit", "order", "feedback"}
        /\ stage' = "claim" /\ client' = client /\ cleared' = cleared /\ round' = round
    BY CleanCall DEF claim_legacy_pipeline
  <1>2. DOMAIN cur = Parts /\ round \in Nat
    BY WorkerAssumption DEF Shape, Control, WorkerAssumption
  <1>3. IsFormRow(cur.form) /\ CleanPool(cur.pool)
    BY <1>1 DEF Clean, CleanForm
  <1>4. CleanForm'
    BY <1>1, <1>2, <1>3, ClaimRowsClean, FormKept DEF Clean
  <1>5. CleanAnswer'
    BY <1>1, <1>2, <1>3, ClaimRowsClean DEF CleanAnswer, Requested
  <1>6. CleanRejected'
    <2> SUFFICES ASSUME round > 0 PROVE CleanRejected'
      BY <1>1 DEF CleanRejected
    <2>1. stage = "feedback"
      BY <1>1 DEF Control
    <2>2. /\ OwnRows(round - 1) /\ cur.version = VersionRow(round - 1, "rejected", round)
          /\ client.version = VersionObject(round - 1) /\ cur.feedback = FeedbackRow(round, "pending", Null)
      BY <1>1, <2>1 DEF Clean, CleanRejected
    <2>3. /\ cur'.c1 = cur.c1 /\ cur'.c2 = cur.c2 /\ cur'.version = cur.version
          /\ cur'.feedback = FeedbackRow(round, "processing", Null)
      BY <1>1, <1>2, <1>3, <2>2, ClaimRowsClean
    <2> QED BY <1>1, <2>2, <2>3 DEF CleanRejected, OwnRows
  <1> QED BY <1>1, <1>4, <1>5, <1>6 DEF Clean, CleanVersion, CleanExperiment, CleanFeedback, CleanRegister,
                                       CleanClaim

\* create_version: in a later round the rejected version joins the history with the
\* content RoundsDiffer compares.
LEMMA CleanCreate ==
  ASSUME Control, Shape, CleanInv, IsSeq(past), create_version
  PROVE  CleanInv'
  <1> SUFFICES ASSUME ~fault', ~refreshed' PROVE Clean'
    BY DEF CleanInv, Clean
  <1>1. /\ Clean /\ ~cleared /\ cur' = VersionRows /\ pc = "ready" /\ pc' = "check" /\ stage = "claim"
        /\ stage' = "version" /\ client' = client /\ cleared' = cleared /\ round' = round
        /\ request' = [run |-> client.claim.run, combo |-> client.claim.combo, method |-> 1,
                       components |-> client.claim.components]
    BY CleanCall DEF create_version
  <1>2. DOMAIN cur = Parts /\ round \in Nat
    BY WorkerAssumption DEF Shape, Control, WorkerAssumption
  <1>3. IsFormRow(cur.form) /\ CleanPool(cur.pool)
    BY <1>1 DEF Clean, CleanForm
  <1>4. /\ client.claim.run = round + 1 /\ client.claim.combo = Combo /\ client.claim.experiment = round + 1
        /\ client.claim.components = Requested(round)
        /\ client.claim.feedback = round /\ client.claim.round \in {Null, round}
        /\ round > 0 => client.claim.source = VersionObject(round - 1)
    BY <1>1 DEF Clean, CleanClaim
  <1>5. IsFormRow(cur'.form) /\ cur'.form = FormRow("processing", round + 1, round + 1, Null)
    BY <1>1, <1>2, <1>3, VersionRowsClean, FormRowFields
  <1>6. CleanForm'
    BY <1>1, <1>2, <1>3, <1>5, VersionRowsClean, FormKept DEF Clean
  <1>7. CleanAnswer'
    BY <1>1, <1>2, <1>3, VersionRowsClean DEF CleanAnswer
  <1>8. CleanClaim'
    BY <1>1, <1>4 DEF CleanClaim, Requested, Content1, VersionObject
  <1>9. CleanVersion'
    <2>1. request' = [run |-> round + 1, combo |-> Combo, method |-> 1, components |-> Requested(round)]
      BY <1>1, <1>4
    <2>2. cur'.version = Version(round) /\ cur'.c1 = Component(round, 1) /\ cur'.c2 = Component(round, 2)
      BY <1>1, <1>2, <1>3, VersionRowsClean
    <2>3. ASSUME round > 0
          PROVE  /\ cur'.feedback = FeedbackRow(round, "processing", round + 1)
                 /\ past'[Len(past')].version = VersionRow(round - 1, "rejected", round)
                 /\ past'[Len(past')].components = {Component(round - 1, 1), Component(round - 1, 2)}
      <3>1. /\ cur.c1 = Component(round - 1, 1) /\ cur.c2 = Component(round - 1, 2)
            /\ cur.version = VersionRow(round - 1, "rejected", round)
            /\ cur.feedback = FeedbackRow(round, "processing", Null)
        BY <1>1, <2>3 DEF Clean, CleanRejected, OwnRows
      <3>2. cur.feedback = [FeedbackRow(round, "processing", cur.feedback.next_run)
                               EXCEPT !.next_version = cur.feedback.next_version]
        BY <3>1 DEF FeedbackRow
      <3>3. cur'.feedback = FeedbackRow(round, "processing", round + 1)
        BY <1>1, <1>2, <1>3, <2>3, <3>2, VersionRowsClean
      <3> DEFINE entry == [version |-> cur.version, components |-> {cur.c1, cur.c2}, experiment |-> cur.experiment]
      <3>4. past' = Append(past, entry)
        BY <2>3 DEF create_version
      <3> HIDE DEF entry
      <3>5. past'[Len(past')] = entry
        BY <3>4, AppendElement
      <3> QED BY <3>1, <3>3, <3>5 DEF entry
    <2>4. round > 0 => cur'.feedback = [FeedbackRow(round, "processing", cur'.feedback.next_run)
                                          EXCEPT !.next_version = cur'.feedback.next_version]
      BY <2>3 DEF FeedbackRow
    <2> QED BY <1>1, <1>5, <2>1, <2>2, <2>3, <2>4 DEF CleanVersion, OwnRows
  <1> QED BY <1>1, <1>6, <1>7, <1>8, <1>9 DEF Clean, CleanExperiment, CleanRejected, CleanFeedback, CleanRegister

\* write_experiment.
LEMMA CleanWriteExperiment ==
  ASSUME Control, Shape, CleanInv, NEW valid \in BOOLEAN, write_experiment(valid)
  PROVE  CleanInv'
  <1> SUFFICES ASSUME ~fault', ~refreshed' PROVE Clean'
    BY DEF CleanInv, Clean
  <1>1. /\ Clean /\ ~cleared /\ cur' = ExperimentRows(valid) /\ pc = "ready" /\ pc' = "check"
        /\ stage = "version" /\ stage' = "experiment" /\ client' = client /\ cleared' = cleared
        /\ round' = round /\ past' = past
        /\ request' = [run |-> client.claim.run, valid |-> valid, payload |-> 1,
                       reason |-> IF valid THEN Null ELSE 1]
    BY CleanCall DEF write_experiment
  <1>2. DOMAIN cur = Parts
    BY DEF Shape
  <1>3. /\ IsFormRow(cur.form) /\ CleanPool(cur.pool)
        /\ cur.form = FormRow("processing", round + 1, round + 1, Null)
        /\ cur.version = VersionRow(round, "candidate", Null)
        /\ OwnRows(round) /\ client.version = VersionObject(round) /\ client.claim.run = round + 1
    BY <1>1 DEF Clean, CleanForm, CleanVersion, CleanClaim, Version, VersionRow
  <1> DEFINE w == ExperimentRows(valid)
  <1>4. /\ w.form = FormRow("completed", round + 1, round + 1, round + 1)
        /\ w.pool = cur.pool /\ w.m1 = cur.m1 /\ w.m2 = cur.m2
        /\ w.version = VersionRow(round, "candidate", round + 1)
        /\ w.c1 = cur.c1 /\ w.c2 = cur.c2
        /\ w.experiment = ExperimentRow(round, valid)
        /\ w.answer =
              [experiment |-> round + 1, external |-> round + 1, form |-> 1,
               version |-> round + 1, combo |-> Combo, form_status |-> "completed",
               combo_status |-> "candidate", valid |-> valid,
               http |-> IF replayed' THEN 200 ELSE 201, replay |-> replayed']
    BY <1>2, <1>3, ExperimentRowsClean
  <1> HIDE DEF w
  <1>5. cur' = w
    BY <1>1 DEF w
  <1>6. IsFormRow(w.form)
    BY <1>4, FormRowFields
  <1>7. CleanForm'
    BY <1>1, <1>3, <1>4, <1>5, <1>6, FormKept DEF Clean
  <1>8. request'.valid = valid
    BY <1>1
  <1>9. CleanAnswer'
    BY <1>1, <1>4, <1>5, <1>8 DEF CleanAnswer
  <1>10. CleanExperiment'
    BY <1>1, <1>3, <1>4, <1>5, <1>8 DEF CleanExperiment, OwnRows
  <1>11. CleanClaim'
    BY <1>1, <1>3 DEF Clean, CleanClaim, Requested, Content1, VersionObject
  <1> QED BY <1>1, <1>7, <1>9, <1>10, <1>11 DEF Clean, CleanVersion, CleanRejected, CleanFeedback, CleanRegister

\* submit_feedback.
LEMMA CleanSubmitFeedback ==
  ASSUME Control, Shape, CleanInv, submit_feedback
  PROVE  CleanInv'
  <1> SUFFICES ASSUME ~fault', ~refreshed' PROVE Clean'
    BY DEF CleanInv, Clean
  <1>1. /\ Clean /\ ~cleared /\ cur' = FeedbackRows(round + 1) /\ pc = "ready" /\ pc' = "check"
        /\ stage = "experiment" /\ stage' = "feedback" /\ client' = client /\ cleared' = cleared
        /\ round' = round + 1
        /\ request' = [reply |-> 2, session |-> client.task.session, form |-> client.task.form,
                       run |-> client.claim.run, text |-> 1]
    BY CleanCall DEF submit_feedback
  <1>2. DOMAIN cur = Parts /\ round \in Nat /\ round + 1 \in Nat /\ round + 1 - 1 = round
    BY WorkerAssumption DEF Shape, Control, WorkerAssumption
  <1>3. /\ IsFormRow(cur.form) /\ CleanPool(cur.pool)
        /\ client.task = [session |-> 1, form |-> 1, pool |-> 1, form_no |-> 1]
        /\ cur.version = VersionRow(round, "candidate", round + 1)
        /\ request.valid \in BOOLEAN /\ cur.experiment = ExperimentRow(round, request.valid)
        /\ OwnRows(round) /\ client.version = VersionObject(round) /\ client.claim.run = round + 1
        /\ client.experiment = round + 1
    BY <1>1 DEF Clean, CleanForm, CleanExperiment, CleanClaim
  <1> DEFINE k == round + 1
             w == FeedbackRows(k)
  <1>4. /\ w.form = FormRow("processing", Null, Null, Null)
        /\ w.pool = cur.pool /\ w.m1 = cur.m1 /\ w.m2 = cur.m2
        /\ w.version = VersionRow(k - 1, "rejected", k)
        /\ w.c1 = cur.c1 /\ w.c2 = cur.c2
        /\ w.experiment = ExperimentRow(k - 1, FALSE)
        /\ w.feedback = FeedbackRow(k, "pending", Null)
        /\ w.answer =
              [feedback |-> k, round |-> k, recorded |-> TRUE, replay |-> replayed',
               status |-> "pending", reply |-> 2, form |-> 1, experiment |-> k,
               form_status |-> "processing", valid |-> FALSE, rejected |-> k]
    <2>1. /\ k \in Nat /\ cur.version = VersionRow(k - 1, "candidate", k)
          /\ cur.experiment = ExperimentRow(k - 1, request.valid)
      BY <1>2, <1>3
    <2> HIDE DEF k
    <2> QED BY <1>2, <1>3, <2>1, FeedbackRowsClean, Zenon
  <1>5. k - 1 = round /\ k \in Nat /\ k = round'
    BY <1>1, <1>2
  <1>6. cur' = w /\ client.experiment = k /\ client.claim.run = k
    BY <1>1, <1>3
  <1> HIDE DEF w, k
  <1>7. IsFormRow(w.form)
    BY <1>4, FormRowFields
  <1>8. CleanForm'
    BY <1>1, <1>3, <1>4, <1>6, <1>7, FormKept DEF Clean
  <1>9. CleanAnswer'
    BY <1>1, <1>4, <1>5, <1>6 DEF CleanAnswer
  <1>10. CleanRejected'
    BY <1>1, <1>3, <1>4, <1>5, <1>6 DEF CleanRejected, OwnRows
  <1>11. CleanFeedback'
    <2>1. request' = [reply |-> 2, session |-> 1, form |-> 1, run |-> k, text |-> 1]
      BY <1>1, <1>3, <1>6
    <2> QED BY <1>1, <1>3, <1>4, <1>5, <1>6, <2>1 DEF CleanFeedback
  <1> QED BY <1>1, <1>8, <1>9, <1>10, <1>11 DEF Clean, CleanVersion, CleanExperiment, CleanRegister, CleanClaim

\* register_report.
LEMMA CleanRegisterReport ==
  ASSUME Control, Shape, CleanInv, NEW items, NEW codes, register_report(items, codes)
  PROVE  CleanInv'
  <1> SUFFICES ASSUME ~fault', ~refreshed' PROVE Clean'
    BY DEF CleanInv, Clean
  <1>1. /\ Clean /\ ~cleared /\ cur' = RegisterRows /\ pc = "ready" /\ pc' = "check"
        /\ stage = "experiment" /\ stage' = "register" /\ client' = client /\ cleared' = cleared
        /\ round' = round /\ replayed' = FALSE /\ cur.experiment.valid = TRUE
        /\ request' = [session |-> client.task.session, run |-> client.claim.run, report |-> 1,
                       validity |-> 1, formula |-> 1, items |-> items, codes |-> codes]
    BY CleanCall DEF register_report
  <1>2. DOMAIN cur = Parts
    BY DEF Shape
  <1>3. /\ IsFormRow(cur.form) /\ CleanPool(cur.pool)
        /\ client.task = [session |-> 1, form |-> 1, pool |-> 1, form_no |-> 1]
        /\ cur.version = VersionRow(round, "candidate", round + 1)
        /\ cur.form = FormRow("completed", round + 1, round + 1, round + 1)
        /\ cur.experiment = ExperimentRow(round, request.valid)
        /\ OwnRows(round) /\ client.version = VersionObject(round) /\ client.claim.run = round + 1
    BY <1>1 DEF Clean, CleanForm, CleanExperiment, CleanClaim
  <1>4. cur.experiment = ExperimentRow(round, TRUE)
    <2>1. cur.experiment.valid = request.valid
      BY <1>3 DEF ExperimentRow
    <2> QED BY <1>1, <1>3, <2>1
  <1>5. /\ cur'.form = cur.form /\ cur'.pool = cur.pool /\ cur'.m1 = cur.m1 /\ cur'.m2 = cur.m2
        /\ cur'.c1 = cur.c1 /\ cur'.c2 = cur.c2 /\ cur'.experiment = cur.experiment
        /\ cur'.version = VersionRow(round, "active", round + 1)
        /\ RegisterWrites'
    BY <1>1, <1>2, <1>3, RegisterRowsClean
  <1>6. CleanForm'
    BY <1>1, <1>3, <1>5, FormKept DEF Clean
  <1>7. CleanAnswer'
    BY <1>1, <1>5 DEF CleanAnswer
  <1>8. CleanRegister'
    BY <1>1, <1>3, <1>4, <1>5 DEF CleanRegister, OwnRows
  <1>9. CleanClaim'
    BY <1>1, <1>3 DEF Clean, CleanClaim, Requested, Content1, VersionObject
  <1> QED BY <1>1, <1>6, <1>7, <1>8, <1>9 DEF Clean, CleanVersion, CleanExperiment, CleanRejected, CleanFeedback

\* A repeated request writes the same rows again, over whatever a helper has left.
LEMMA CleanReplay ==
  ASSUME Control, Shape, CleanInv, replay_request
  PROVE  CleanInv'
  <1> SUFFICES ASSUME ~fault', ~refreshed' PROVE Clean'
    BY DEF CleanInv, Clean
  <1>1. /\ pc = "ready" /\ stage \in {"version", "experiment", "feedback", "register"}
        /\ pc' = "check" /\ stage' = stage /\ ~cleared'
        /\ UNCHANGED <<client, refreshed, request, past, pastFb, round>>
    BY DEF replay_request
  <1>2. DOMAIN cur = Parts /\ round \in Nat /\ fault \in BOOLEAN
    BY WorkerAssumption DEF Shape, Control, WorkerAssumption
  <1>3. ASSUME NEW w, NEW parts, Written(w, parts) PROVE Clean /\ cur' = w
    <2>1. ~fault /\ cur' = w
      BY <1>2, <1>3 DEF Written
    <2> QED BY <1>1, <2>1 DEF CleanInv, Clean
  <1>4. Clean
    <2>1. \E w, parts : Written(w, parts)
      BY <1>1, Zenon DEF replay_request
    <2> QED BY <1>3, <2>1
  <1>5. IsFormRow(cur.form) /\ CleanPool(cur.pool)
    BY <1>1, <1>4 DEF Clean, CleanForm
  <1>6. CASE stage = "version"
    <2>1. cur' = VersionRows
      BY <1>3, <1>6 DEF replay_request
    <2>2. IsFormRow(cur'.form) /\ cur'.form = FormRow("processing", round + 1, round + 1, Null)
      BY <1>2, <1>5, <2>1, VersionRowsClean, FormRowFields
    <2>3. CleanForm'
      BY <1>1, <1>2, <1>4, <1>5, <1>6, <2>1, <2>2, VersionRowsClean, FormKept DEF Clean
    <2>4. CleanAnswer'
      BY <1>1, <1>2, <1>5, <1>6, <2>1, VersionRowsClean DEF CleanAnswer
    <2>5. CleanVersion'
      <3>1. cur'.version = Version(round) /\ cur'.c1 = Component(round, 1) /\ cur'.c2 = Component(round, 2)
        BY <1>2, <1>5, <2>1, VersionRowsClean
      <3>2. ASSUME round > 0
            PROVE  /\ cur'.feedback = FeedbackRow(round, "processing", round + 1)
                   /\ cur'.feedback = [FeedbackRow(round, "processing", cur'.feedback.next_run)
                                          EXCEPT !.next_version = cur'.feedback.next_version]
        <4>1. cur.feedback = [FeedbackRow(round, "processing", cur.feedback.next_run)
                                  EXCEPT !.next_version = cur.feedback.next_version]
          BY <1>4, <1>6, <3>2 DEF Clean, CleanVersion
        <4>2. cur'.feedback = FeedbackRow(round, "processing", round + 1)
          BY <1>2, <1>5, <2>1, <3>2, <4>1, VersionRowsClean
        <4> QED BY <4>2 DEF FeedbackRow
      <3>3. /\ round > 0 => /\ past[Len(past)].version = VersionRow(round - 1, "rejected", round)
                            /\ past[Len(past)].components = {Component(round - 1, 1), Component(round - 1, 2)}
            /\ request = [run |-> round + 1, combo |-> Combo, method |-> 1, components |-> Requested(round)]
        BY <1>4, <1>6 DEF Clean, CleanVersion
      <3> QED BY <1>1, <2>2, <3>1, <3>2, <3>3 DEF CleanVersion, OwnRows
    <2>6. CleanClaim'
      BY <1>1, <1>4, <1>6 DEF Clean, CleanClaim, Requested, Content1, VersionObject
    <2> QED BY <1>1, <1>6, <2>3, <2>4, <2>5, <2>6 DEF Clean, CleanExperiment, CleanRejected, CleanFeedback,
                                                      CleanRegister
  <1>7. CASE stage = "experiment"
    <2> DEFINE w == ExperimentRows(request.valid)
    <2>1. cur' = w
      BY <1>3, <1>7 DEF replay_request
    <2>2. \E status, e, e2 : /\ cur.form = FormRow(status, round + 1, round + 1, e)
                             /\ cur.version = VersionRow(round, "candidate", e2)
      BY <1>4, <1>7 DEF Clean, CleanExperiment
    <2>3. PICK status, e, e2 : /\ cur.form = FormRow(status, round + 1, round + 1, e)
                               /\ cur.version = VersionRow(round, "candidate", e2)
      BY <2>2
    <2>4. /\ w.form = FormRow("completed", round + 1, round + 1, round + 1)
          /\ w.pool = cur.pool /\ w.m1 = cur.m1 /\ w.m2 = cur.m2
          /\ w.version = VersionRow(round, "candidate", round + 1)
          /\ w.c1 = cur.c1 /\ w.c2 = cur.c2
          /\ w.experiment = ExperimentRow(round, request.valid)
          /\ w.answer =
                [experiment |-> round + 1, external |-> round + 1, form |-> 1,
                 version |-> round + 1, combo |-> Combo, form_status |-> "completed",
                 combo_status |-> "candidate", valid |-> request.valid,
                 http |-> IF replayed' THEN 200 ELSE 201, replay |-> replayed']
      BY <1>2, <2>3, ExperimentRowsClean
    <2> HIDE DEF w
    <2>5. CleanForm'
      BY <1>1, <1>4, <1>5, <1>7, <2>1, <2>4, FormRowFields, FormKept DEF Clean
    <2>6. CleanAnswer'
      BY <1>1, <1>7, <2>1, <2>4 DEF CleanAnswer
    <2>7. CleanExperiment'
      BY <1>1, <1>4, <1>7, <2>1, <2>4 DEF Clean, CleanExperiment, OwnRows
    <2>8. CleanClaim'
      BY <1>1, <1>4, <1>7 DEF Clean, CleanClaim, Requested, Content1, VersionObject
    <2> QED BY <1>1, <1>7, <2>5, <2>6, <2>7, <2>8 DEF Clean, CleanVersion, CleanRejected, CleanFeedback,
                                                      CleanRegister
  <1>8. CASE stage = "feedback"
    <2> DEFINE w == FeedbackRows(round)
    <2>1. cur' = w
      BY <1>3, <1>8 DEF replay_request
    <2>2. PICK valid \in BOOLEAN : cur.experiment = ExperimentRow(round - 1, valid)
      BY <1>4, <1>8 DEF Clean, CleanFeedback
    <2>3. PICK status : cur.version = VersionRow(round - 1, status, round)
      BY <1>4, <1>8 DEF Clean, CleanRejected
    <2>4. /\ w.form = FormRow("processing", Null, Null, Null)
          /\ w.pool = cur.pool /\ w.m1 = cur.m1 /\ w.m2 = cur.m2
          /\ w.version = VersionRow(round - 1, "rejected", round)
          /\ w.c1 = cur.c1 /\ w.c2 = cur.c2
          /\ w.experiment = ExperimentRow(round - 1, FALSE)
          /\ w.feedback = FeedbackRow(round, "pending", Null)
          /\ w.answer =
                [feedback |-> round, round |-> round, recorded |-> TRUE, replay |-> replayed',
                 status |-> "pending", reply |-> 2, form |-> 1, experiment |-> round,
                 form_status |-> "processing", valid |-> FALSE, rejected |-> round]
      <3>1. round \in Nat /\ DOMAIN cur = Parts
        BY <1>2
      <3> QED BY <1>5, <2>2, <2>3, <3>1, FeedbackRowsClean, ZenonT(60)
    <2> HIDE DEF w
    <2>5. CleanForm'
      BY <1>1, <1>4, <1>5, <1>8, <2>1, <2>4, FormRowFields, FormKept DEF Clean
    <2>6. CleanAnswer'
      BY <1>1, <1>8, <2>1, <2>4 DEF CleanAnswer
    <2>7. CleanRejected'
      BY <1>1, <1>4, <1>8, <2>1, <2>4 DEF Clean, CleanRejected, OwnRows
    <2>8. CleanFeedback'
      BY <1>1, <1>4, <1>8, <2>1, <2>4 DEF Clean, CleanFeedback
    <2> QED BY <1>1, <1>8, <2>5, <2>6, <2>7, <2>8 DEF Clean, CleanVersion, CleanExperiment, CleanRegister,
                                                      CleanClaim
  <1>9. CASE stage = "register"
    <2>1. cur' = RegisterRows
      BY <1>3, <1>9 DEF replay_request
    <2>2. cur.version = VersionRow(round, "active", round + 1)
      BY <1>4, <1>9 DEF Clean, CleanRegister
    <2>3. /\ cur'.form = cur.form /\ cur'.pool = cur.pool /\ cur'.m1 = cur.m1 /\ cur'.m2 = cur.m2
          /\ cur'.c1 = cur.c1 /\ cur'.c2 = cur.c2 /\ cur'.experiment = cur.experiment
          /\ cur'.version = VersionRow(round, "active", round + 1)
          /\ RegisterWrites'
      BY <1>1, <1>2, <2>1, <2>2, RegisterRowsClean
    <2>4. CleanForm'
      BY <1>1, <1>4, <1>5, <1>9, <2>3, FormKept DEF Clean
    <2>5. CleanAnswer'
      BY <1>1, <1>9, <2>3 DEF CleanAnswer
    <2>6. CleanRegister'
      BY <1>1, <1>4, <1>9, <2>3 DEF Clean, CleanRegister, OwnRows, Registered
    <2>7. CleanClaim'
      BY <1>1, <1>4, <1>9 DEF Clean, CleanClaim, Requested, Content1, VersionObject
    <2> QED BY <1>1, <1>9, <2>4, <2>5, <2>6, <2>7 DEF Clean, CleanVersion, CleanExperiment, CleanRejected,
                                                      CleanFeedback
  <1> QED BY <1>1, <1>6, <1>7, <1>8, <1>9

\* A helper that goes through.
LEMMA CleanUndo ==
  ASSUME CleanInv, NEW rows, NEW parts, Undo(rows, parts), ~refreshed', pc' # "done"
  PROVE  /\ Clean /\ pc = "ready" /\ ~cleared /\ cur' = rows /\ cleared' = TRUE /\ pc' = "ready"
         /\ stage' = stage /\ round' = round /\ request' = request /\ client' = client /\ past' = past
  <1>1. /\ pc = "ready" /\ ~cleared /\ cur' = rows /\ ~fault /\ refreshed' = refreshed
        /\ stage' = stage /\ round' = round /\ request' = request /\ client' = client /\ past' = past
    BY DEF Undo
  <1>2. cleared' = TRUE /\ pc' = "ready"
    BY DEF Undo
  <1>3. Clean
    BY <1>1 DEF CleanInv, Clean
  <1> QED BY <1>1, <1>2, <1>3

\* It leaves the form a form row.
LEMMA FormUndone ==
  ASSUME CleanForm, pc = "ready", stage # "none", stage' = stage, client' = client,
         IsFormRow(cur'.form), CleanPool(cur'.pool), cur'.m1 = cur.m1, cur'.m2 = cur.m2,
         stage \notin {"submit", "order"}
  PROVE  CleanForm'
  BY DEF CleanForm

\* A feedback row of a next version is known by its constant columns.
LEMMA FeedbackByFields ==
  ASSUME NEW x, NEW k, IsFunction(x), DOMAIN x = FeedbackFields,
         x.id = k, x.form = 1, x.round = k, x.status = "processing", x.source_version = k,
         x.source_experiment = k, x.source_run = k, x.text = 1, x.next_experiment = Null
  PROVE  x = [FeedbackRow(k, "processing", x.next_run) EXCEPT !.next_version = x.next_version]
  <1> DEFINE y == [FeedbackRow(k, "processing", x.next_run) EXCEPT !.next_version = x.next_version]
  <1>1. IsFunction(y) /\ DOMAIN y = FeedbackFields
    BY DEF FeedbackRow, IsFunction, FeedbackFields
  <1>2. /\ y.id = k /\ y.form = 1 /\ y.round = k /\ y.status = "processing" /\ y.source_version = k
        /\ y.source_experiment = k /\ y.source_run = k /\ y.text = 1 /\ y.next_experiment = Null
        /\ y.next_run = x.next_run /\ y.next_version = x.next_version
    BY DEF FeedbackRow
  <1> HIDE DEF y
  <1>3. \A f \in FeedbackFields : x[f] = y[f]
    BY <1>2 DEF FeedbackFields
  <1>4. x = y
    BY <1>1, <1>3 DEF IsFunction
  <1> QED BY <1>4 DEF y

\* What a clean next version leaves of its feedback row.
LEMMA FeedbackColumns ==
  ASSUME NEW k, NEW x, x = [FeedbackRow(k, "processing", x.next_run) EXCEPT !.next_version = x.next_version]
  PROVE  /\ IsFunction(x) /\ DOMAIN x = FeedbackFields
         /\ x.id = k /\ x.form = 1 /\ x.round = k /\ x.status = "processing" /\ x.source_version = k
         /\ x.source_experiment = k /\ x.source_run = k /\ x.text = 1 /\ x.next_experiment = Null
  <1>1. IsFunction(x) /\ DOMAIN x = FeedbackFields
    BY DEF FeedbackRow, IsFunction, FeedbackFields
  <1>2. /\ x.id = k /\ x.form = 1 /\ x.round = k /\ x.status = "processing" /\ x.source_version = k
        /\ x.source_experiment = k /\ x.source_run = k /\ x.text = 1 /\ x.next_experiment = Null
    BY DEF FeedbackRow
  <1> QED BY <1>1, <1>2

\* clear_experiment_links_for_test.
LEMMA CleanUndoExperiment ==
  ASSUME Shape, CleanInv, clear_experiment_links_for_test
  PROVE  CleanInv'
  <1> SUFFICES ASSUME ~refreshed', pc' # "done" PROVE Clean'
    BY DEF CleanInv, Clean
  <1> DEFINE rows == [cur EXCEPT !.form.status = "processing", !.form.experiment = Null,
                                 !.version.experiment = Null]
  <1>1. stage = "experiment" /\ Undo(rows, {"form", "version"})
    BY DEF clear_experiment_links_for_test
  <1> HIDE DEF rows
  <1>2. /\ Clean /\ pc = "ready" /\ ~cleared /\ cur' = rows /\ cleared' = TRUE /\ pc' = "ready"
        /\ stage' = stage /\ round' = round /\ request' = request /\ client' = client /\ past' = past
    BY <1>1, CleanUndo
  <1>3. /\ DOMAIN cur = Parts /\ IsFormRow(cur.form) /\ CleanPool(cur.pool)
        /\ cur.form = FormRow("completed", round + 1, round + 1, round + 1)
        /\ cur.version = VersionRow(round, "candidate", round + 1)
    BY <1>1, <1>2 DEF Shape, Clean, CleanForm, CleanExperiment
  <1>4. /\ DOMAIN cur.form = FormFields
        /\ cur.form.id = 1 /\ cur.form.session = 1 /\ cur.form.form_no = 1 /\ cur.form.pool = 1
        /\ cur.form.json = 1 /\ cur.form.spec = 1 /\ IsFunction(cur.form)
        /\ cur.form.run = round + 1 /\ cur.form.version = round + 1
    BY <1>3, FormColumns, FormRowFields
  <1>5. rows.form = FormRow("processing", round + 1, round + 1, Null)
    <2>1. IsFunction(rows.form) /\ DOMAIN rows.form = FormFields
      BY <1>3, <1>4 DEF rows, Parts, IsFunction
    <2>2. /\ rows.form.id = 1 /\ rows.form.session = 1 /\ rows.form.form_no = 1 /\ rows.form.pool = 1
          /\ rows.form.json = 1 /\ rows.form.spec = 1
      BY <1>3, <1>4 DEF rows, Parts, FormFields
    <2>3. /\ rows.form.status = "processing" /\ rows.form.run = round + 1 /\ rows.form.version = round + 1
          /\ rows.form.experiment = Null
      BY <1>3, <1>4 DEF rows, Parts, FormFields
    <2> QED BY <2>1, <2>2, <2>3, FormByFields
  <1>6. rows.version = VersionRow(round, "candidate", Null)
    BY <1>3 DEF rows, Parts, VersionRow
  <1>7. /\ rows.pool = cur.pool /\ rows.m1 = cur.m1 /\ rows.m2 = cur.m2 /\ rows.c1 = cur.c1 /\ rows.c2 = cur.c2
        /\ rows.experiment = cur.experiment
    BY <1>3 DEF rows, Parts
  <1>8. CleanForm'
    BY <1>1, <1>2, <1>3, <1>5, <1>7, FormRowFields, FormUndone DEF Clean
  <1>9. CleanExperiment'
    BY <1>1, <1>2, <1>5, <1>6, <1>7 DEF Clean, CleanExperiment, OwnRows
  <1>10. CleanClaim'
    BY <1>1, <1>2 DEF Clean, CleanClaim, Requested, Content1, VersionObject
  <1> QED BY <1>1, <1>2, <1>8, <1>9, <1>10 DEF Clean, CleanVersion, CleanRejected, CleanFeedback, CleanRegister,
                                               CleanAnswer

\* The three helpers that undo a part of a next version change pointers of the form
\* and of the feedback row, or drop a component.
LEMMA CleanUndoneVersion ==
  ASSUME CleanInv, ~refreshed', pc' # "done", stage = "version", round > 0,
         NEW rows, NEW parts, Undo(rows, parts), DOMAIN rows = Parts,
         IsFunction(rows.form), DOMAIN rows.form = FormFields,
         \A f \in FormFields \ {"status", "run", "version", "experiment"} : rows.form[f] = cur.form[f],
         IsFunction(rows.feedback), DOMAIN rows.feedback = FeedbackFields,
         \A f \in FeedbackFields \ {"status", "next_run", "next_version", "next_experiment"} :
            rows.feedback[f] = cur.feedback[f],
         rows.feedback.status = "processing", rows.feedback.next_experiment = Null,
         rows.pool = cur.pool, rows.m1 = cur.m1, rows.m2 = cur.m2, rows.version = cur.version
  PROVE  Clean'
  <1>1. /\ Clean /\ pc = "ready" /\ ~cleared /\ cur' = rows /\ cleared' = TRUE /\ pc' = "ready"
        /\ stage' = stage /\ round' = round /\ request' = request /\ client' = client /\ past' = past
    BY CleanUndo
  <1>2. /\ IsFormRow(cur.form) /\ CleanPool(cur.pool)
        /\ cur.feedback = [FeedbackRow(round, "processing", cur.feedback.next_run)
                              EXCEPT !.next_version = cur.feedback.next_version]
    BY <1>1 DEF Clean, CleanForm, CleanVersion
  <1>3. IsFormRow(rows.form)
    <2>1. /\ rows.form.id = 1 /\ rows.form.session = 1 /\ rows.form.form_no = 1 /\ rows.form.pool = 1
          /\ rows.form.json = 1 /\ rows.form.spec = 1
      BY <1>2, FormColumns DEF FormFields
    <2> QED BY <2>1, FormByFields DEF IsFormRow
  <1>4. rows.feedback = [FeedbackRow(round, "processing", rows.feedback.next_run)
                            EXCEPT !.next_version = rows.feedback.next_version]
    <2>1. /\ cur.feedback.id = round /\ cur.feedback.form = 1 /\ cur.feedback.round = round
          /\ cur.feedback.source_version = round
          /\ cur.feedback.source_experiment = round /\ cur.feedback.source_run = round /\ cur.feedback.text = 1
      BY <1>2, FeedbackColumns
    <2>2. /\ rows.feedback.id = round /\ rows.feedback.form = 1 /\ rows.feedback.round = round
          /\ rows.feedback.source_version = round
          /\ rows.feedback.source_experiment = round /\ rows.feedback.source_run = round /\ rows.feedback.text = 1
      BY <2>1 DEF FeedbackFields
    <2> QED BY <2>2, FeedbackByFields
  <1>5. CleanForm'
    BY <1>1, <1>2, <1>3, FormUndone DEF Clean
  <1>6. CleanVersion'
    BY <1>1, <1>4 DEF Clean, CleanVersion, Version
  <1>7. CleanClaim'
    BY <1>1 DEF Clean, CleanClaim, Requested, Content1, VersionObject
  <1> QED BY <1>1, <1>5, <1>6, <1>7 DEF Clean, CleanExperiment, CleanRejected, CleanFeedback, CleanRegister,
                                        CleanAnswer

\* The form and the feedback row of a next version have all their columns.
LEMMA NextVersionRows ==
  ASSUME Control, Shape, CleanInv, ~fault, ~refreshed, pc = "ready", stage = "version", round > 0
  PROVE  /\ DOMAIN cur = Parts /\ IsFunction(cur.form) /\ DOMAIN cur.form = FormFields
         /\ IsFunction(cur.feedback) /\ DOMAIN cur.feedback = FeedbackFields
         /\ cur.feedback.status = "processing" /\ cur.feedback.next_experiment = Null
  <1>1. Clean
    BY DEF CleanInv, Clean
  <1>2. /\ IsFormRow(cur.form)
        /\ cur.feedback = [FeedbackRow(round, "processing", cur.feedback.next_run)
                              EXCEPT !.next_version = cur.feedback.next_version]
    BY <1>1 DEF Clean, CleanForm, CleanVersion
  <1> QED BY <1>2, FormColumns, FeedbackColumns DEF Shape

\* clear_next_version_links_for_test.
LEMMA CleanUndoLinks ==
  ASSUME Control, Shape, CleanInv, clear_next_version_links_for_test
  PROVE  CleanInv'
  <1> SUFFICES ASSUME ~refreshed', pc' # "done" PROVE Clean'
    BY DEF CleanInv, Clean
  <1> DEFINE rows == [cur EXCEPT !.feedback.status = "processing", !.feedback.next_run = Null,
                        !.feedback.next_version = Null, !.feedback.next_experiment = Null,
                        !.form.status = "processing", !.form.run = Null, !.form.version = Null,
                        !.form.experiment = Null]
  <1>1. stage = "version" /\ round > 0 /\ Undo(rows, {"feedback", "form"})
    BY DEF clear_next_version_links_for_test
  <1>2. pc = "ready" /\ ~fault /\ ~refreshed
    BY <1>1 DEF Undo
  <1>3. /\ DOMAIN cur = Parts /\ IsFunction(cur.form) /\ DOMAIN cur.form = FormFields
        /\ IsFunction(cur.feedback) /\ DOMAIN cur.feedback = FeedbackFields
    BY <1>1, <1>2, NextVersionRows
  <1>4. DOMAIN rows = Parts
    BY <1>3 DEF Parts
  <1>5. DOMAIN rows.form = FormFields
    BY <1>3 DEF Parts
  <1>6. DOMAIN rows.feedback = FeedbackFields
    BY <1>3 DEF Parts
  <1>7. \A f \in FormFields \ {"status", "run", "version", "experiment"} : rows.form[f] = cur.form[f]
    BY <1>3 DEF Parts, FormFields
  <1>8. \A f \in FeedbackFields \ {"status", "next_run", "next_version", "next_experiment"} :
           rows.feedback[f] = cur.feedback[f]
    BY <1>3 DEF Parts, FeedbackFields
  <1>9. rows.feedback.status = "processing" /\ rows.feedback.next_experiment = Null
    BY <1>3 DEF Parts, FeedbackFields
  <1>10. rows.pool = cur.pool /\ rows.m1 = cur.m1 /\ rows.m2 = cur.m2 /\ rows.version = cur.version
    BY <1>3 DEF Parts
  <1>11. IsFunction(rows.form)
    BY <1>3 DEF Parts, IsFunction
  <1>12. IsFunction(rows.feedback)
    BY <1>3 DEF Parts, IsFunction
  <1> HIDE DEF rows
  <1> QED BY <1>1, <1>4, <1>5, <1>6, <1>7, <1>8, <1>9, <1>10, <1>11, <1>12, CleanUndoneVersion

\* clear_next_version_pointer_for_test.
LEMMA CleanUndoPointer ==
  ASSUME Control, Shape, CleanInv, clear_next_version_pointer_for_test
  PROVE  CleanInv'
  <1> SUFFICES ASSUME ~refreshed', pc' # "done" PROVE Clean'
    BY DEF CleanInv, Clean
  <1>0. stage = "version" /\ round > 0
    BY DEF clear_next_version_pointer_for_test
  <1>1. PICK target \in {<<"feedback", "next_run">>, <<"feedback", "next_version">>,
                         <<"form", "run">>, <<"form", "version">>} :
           Undo([cur EXCEPT ![target[1]][target[2]] = Null], {target[1]})
    BY DEF clear_next_version_pointer_for_test
  <1> DEFINE part == target[1]
             column == target[2]
             rows == [cur EXCEPT ![part][column] = Null]
  <1>2. /\ part \in {"form", "feedback"}
        /\ part = "form" => column \in {"run", "version"}
        /\ part = "feedback" => column \in {"next_run", "next_version"}
    OBVIOUS
  <1>3. pc = "ready" /\ ~fault /\ ~refreshed
    BY <1>1 DEF Undo
  <1>4. /\ DOMAIN cur = Parts /\ IsFunction(cur.form) /\ DOMAIN cur.form = FormFields
        /\ IsFunction(cur.feedback) /\ DOMAIN cur.feedback = FeedbackFields
        /\ cur.feedback.status = "processing" /\ cur.feedback.next_experiment = Null
    BY <1>0, <1>3, NextVersionRows
  <1>5. Undo(rows, {part})
    BY <1>1
  <1> HIDE DEF part, column
  <1>6. /\ DOMAIN rows = Parts /\ \A p \in Parts \ {part} : rows[p] = cur[p]
        /\ rows[part] = [cur[part] EXCEPT ![column] = Null]
    BY <1>2, <1>4 DEF Parts
  <1> HIDE DEF rows
  <1>7. rows.pool = cur.pool /\ rows.m1 = cur.m1 /\ rows.m2 = cur.m2 /\ rows.version = cur.version
    BY <1>2, <1>6 DEF Parts
  <1>8. /\ IsFunction(rows.form) /\ DOMAIN rows.form = FormFields
        /\ \A f \in FormFields \ {"status", "run", "version", "experiment"} : rows.form[f] = cur.form[f]
    <2>1. CASE part = "form"
      <3>1. rows.form = [cur.form EXCEPT ![column] = Null]
        BY <1>6, <2>1
      <3> QED BY <1>2, <1>4, <2>1, <3>1 DEF IsFunction
    <2>2. CASE part = "feedback"
      <3>1. rows.form = cur.form
        BY <1>6, <2>2 DEF Parts
      <3> QED BY <1>4, <3>1
    <2> QED BY <1>2, <2>1, <2>2
  <1>9. /\ IsFunction(rows.feedback) /\ DOMAIN rows.feedback = FeedbackFields
        /\ \A f \in FeedbackFields \ {"status", "next_run", "next_version", "next_experiment"} :
              rows.feedback[f] = cur.feedback[f]
        /\ rows.feedback.status = "processing" /\ rows.feedback.next_experiment = Null
    <2>1. CASE part = "feedback"
      <3>1. rows.feedback = [cur.feedback EXCEPT ![column] = Null]
        BY <1>6, <2>1
      <3>2. IsFunction(rows.feedback) /\ DOMAIN rows.feedback = FeedbackFields
        BY <1>4, <3>1 DEF IsFunction
      <3>3. \A f \in FeedbackFields \ {"next_run", "next_version"} : rows.feedback[f] = cur.feedback[f]
        BY <1>2, <1>4, <2>1, <3>1
      <3> QED BY <1>4, <3>2, <3>3 DEF FeedbackFields
    <2>2. CASE part = "form"
      <3>1. rows.feedback = cur.feedback
        BY <1>6, <2>2 DEF Parts
      <3> QED BY <1>4, <3>1
    <2> QED BY <1>2, <2>1, <2>2
  <1> QED BY <1>0, <1>5, <1>6, <1>7, <1>8, <1>9, CleanUndoneVersion

\* clear_one_next_version_component_for_test.
LEMMA CleanUndoComponent ==
  ASSUME Control, Shape, CleanInv, clear_one_next_version_component_for_test
  PROVE  CleanInv'
  <1> SUFFICES ASSUME ~refreshed', pc' # "done" PROVE Clean'
    BY DEF CleanInv, Clean
  <1> DEFINE rows == [cur EXCEPT !.c1 = Null]
  <1>1. stage = "version" /\ round > 0 /\ Undo(rows, {"c1"})
    BY DEF clear_one_next_version_component_for_test
  <1>2. pc = "ready" /\ ~fault /\ ~refreshed
    BY <1>1 DEF Undo
  <1>3. /\ DOMAIN cur = Parts /\ IsFunction(cur.form) /\ DOMAIN cur.form = FormFields
        /\ IsFunction(cur.feedback) /\ DOMAIN cur.feedback = FeedbackFields
        /\ cur.feedback.status = "processing" /\ cur.feedback.next_experiment = Null
    BY <1>1, <1>2, NextVersionRows
  <1>4. /\ DOMAIN rows = Parts /\ rows.form = cur.form /\ rows.feedback = cur.feedback
        /\ rows.pool = cur.pool /\ rows.m1 = cur.m1 /\ rows.m2 = cur.m2 /\ rows.version = cur.version
    BY <1>3 DEF Parts
  <1> HIDE DEF rows
  <1> QED BY <1>1, <1>3, <1>4, CleanUndoneVersion

\* prepare_feedback_partial_replay_for_test: back to a completed form and a valid
\* experiment.
LEMMA CleanUndoFeedback ==
  ASSUME Control, Shape, CleanInv, prepare_feedback_partial_replay_for_test
  PROVE  CleanInv'
  <1> SUFFICES ASSUME ~refreshed', pc' # "done" PROVE Clean'
    BY DEF CleanInv, Clean
  <1> DEFINE rows == [cur EXCEPT !.feedback = [@ EXCEPT !.status = "preparing", !.next_run = Null,
                                                !.next_version = Null, !.next_experiment = Null],
                        !.version.status = "candidate",
                        !.experiment.valid = TRUE, !.experiment.reason = Null,
                        !.form = [@ EXCEPT !.status = "completed", !.run = client.claim.run,
                                           !.version = cur.version.id, !.experiment = cur.experiment.id]]
  <1>1. stage = "feedback" /\ Undo(rows, {})
    BY DEF prepare_feedback_partial_replay_for_test
  <1> HIDE DEF rows
  <1>2. /\ Clean /\ pc = "ready" /\ ~cleared /\ cur' = rows /\ cleared' = TRUE /\ pc' = "ready"
        /\ stage' = stage /\ round' = round /\ request' = request /\ client' = client /\ past' = past
    BY <1>1, CleanUndo
  <1>3. /\ DOMAIN cur = Parts /\ IsFormRow(cur.form) /\ CleanPool(cur.pool)
        /\ cur.version = VersionRow(round - 1, "rejected", round) /\ OwnRows(round - 1)
        /\ client.version = VersionObject(round - 1) /\ client.experiment = round
        /\ cur.experiment = ExperimentRow(round - 1, FALSE)
        /\ request = [reply |-> 2, session |-> 1, form |-> 1, run |-> round, text |-> 1]
    BY <1>1, <1>2 DEF Shape, Clean, CleanForm, CleanRejected, CleanFeedback
  <1>4. /\ DOMAIN cur.form = FormFields
        /\ cur.form.id = 1 /\ cur.form.session = 1 /\ cur.form.form_no = 1 /\ cur.form.pool = 1
        /\ cur.form.json = 1 /\ cur.form.spec = 1 /\ IsFunction(cur.form)
    BY <1>3, FormColumns
  <1>5. IsFormRow(rows.form)
    <2> DEFINE x == [cur.form EXCEPT !.status = "completed", !.run = client.claim.run,
                                     !.version = cur.version.id, !.experiment = cur.experiment.id]
    <2>1. rows.form = x
      BY <1>3 DEF rows, Parts
    <2>2. IsFunction(x) /\ DOMAIN x = FormFields
      BY <1>4 DEF IsFunction
    <2>3. x.id = 1 /\ x.session = 1 /\ x.form_no = 1 /\ x.pool = 1 /\ x.json = 1 /\ x.spec = 1
      BY <1>4 DEF FormFields
    <2> HIDE DEF x
    <2> QED BY <2>1, <2>2, <2>3, FormByFields DEF IsFormRow
  <1>6. rows.version = VersionRow(round - 1, "candidate", round)
    BY <1>3 DEF rows, Parts, VersionRow
  <1>7. rows.experiment = ExperimentRow(round - 1, TRUE)
    <2> DEFINE x == [cur.experiment EXCEPT !.valid = TRUE, !.reason = Null]
    <2>1. rows.experiment = x
      BY <1>3 DEF rows, Parts
    <2>2. IsFunction(x) /\ DOMAIN x = ExperimentFields
      BY <1>3 DEF IsFunction, ExperimentRow, ExperimentFields
    <2>3. /\ x.id = round - 1 + 1 /\ x.external = round - 1 + 1 /\ x.combo = Combo /\ x.payload = 1
          /\ x.valid = TRUE /\ x.reason = Null
      BY <1>3 DEF ExperimentRow
    <2> HIDE DEF x
    <2> QED BY <2>1, <2>2, <2>3, ExperimentByFields
  <1>8. /\ rows.pool = cur.pool /\ rows.m1 = cur.m1 /\ rows.m2 = cur.m2 /\ rows.c1 = cur.c1 /\ rows.c2 = cur.c2
    BY <1>3 DEF rows, Parts
  <1>9. CleanForm'
    BY <1>1, <1>2, <1>3, <1>5, <1>8, FormUndone DEF Clean
  <1>10. CleanRejected'
    BY <1>1, <1>2, <1>3, <1>6, <1>8 DEF CleanRejected, OwnRows
  <1>11. CleanFeedback'
    BY <1>1, <1>2, <1>3, <1>7 DEF CleanFeedback
  <1> QED BY <1>1, <1>2, <1>9, <1>10, <1>11 DEF Clean, CleanVersion, CleanExperiment, CleanRegister, CleanClaim,
                                                CleanAnswer

\* clear_registration_marker_for_test.
LEMMA CleanUndoMarker ==
  ASSUME Control, Shape, CleanInv, clear_registration_marker_for_test
  PROVE  CleanInv'
  <1> SUFFICES ASSUME ~refreshed', pc' # "done" PROVE Clean'
    BY DEF CleanInv, Clean
  <1> DEFINE rows == [cur EXCEPT !.mapping = Null]
  <1>1. stage = "register" /\ Undo(rows, {"mapping"})
    BY DEF clear_registration_marker_for_test
  <1>2. /\ Clean /\ pc = "ready" /\ cur' = rows /\ cleared' = TRUE /\ pc' = "ready"
        /\ stage' = stage /\ round' = round /\ request' = request /\ client' = client /\ past' = past
    BY <1>1, CleanUndo
  <1>3. DOMAIN cur = Parts /\ IsFormRow(cur.form) /\ CleanPool(cur.pool)
    BY <1>1, <1>2 DEF Shape, Clean, CleanForm
  <1>4. /\ rows.form = cur.form /\ rows.pool = cur.pool /\ rows.m1 = cur.m1 /\ rows.m2 = cur.m2
        /\ rows.c1 = cur.c1 /\ rows.c2 = cur.c2 /\ rows.experiment = cur.experiment /\ rows.version = cur.version
    BY <1>3 DEF Parts
  <1> HIDE DEF rows
  <1>5. CleanForm'
    BY <1>1, <1>2, <1>3, <1>4, FormUndone DEF Clean
  <1>6. CleanRegister'
    BY <1>1, <1>2, <1>4 DEF Clean, CleanRegister, OwnRows, Registered
  <1>7. CleanClaim'
    BY <1>1, <1>2 DEF Clean, CleanClaim, Requested, Content1, VersionObject
  <1> QED BY <1>1, <1>2, <1>5, <1>6, <1>7 DEF Clean, CleanVersion, CleanExperiment, CleanRejected, CleanFeedback,
                                              CleanAnswer

\* set_form_status_for_test, set_pool_status_for_test, set_form_pipeline_run_for_test.
LEMMA CleanSet ==
  ASSUME Control, Shape, CleanInv, set_for_test
  PROVE  CleanInv'
  <1> SUFFICES ASSUME ~refreshed', pc' # "done" PROVE Clean'
    BY DEF CleanInv, Clean
  <1>0. stage = "claim" /\ round = 0
    BY DEF set_for_test
  <1>1. ASSUME NEW rows, NEW parts, Undo(rows, parts),
               IsFormRow(cur.form) => IsFormRow(rows.form),
               CleanPool(cur.pool) => CleanPool(rows.pool), rows.m1 = cur.m1, rows.m2 = cur.m2
        PROVE  Clean'
    <2>1. /\ Clean /\ pc = "ready" /\ cur' = rows /\ cleared' = TRUE /\ pc' = "ready"
          /\ stage' = stage /\ round' = round /\ request' = request /\ client' = client /\ past' = past
      BY <1>1, CleanUndo
    <2>2. IsFormRow(rows.form) /\ CleanPool(rows.pool)
      BY <1>0, <1>1, <2>1 DEF Clean, CleanForm
    <2>3. CleanForm'
      BY <1>0, <1>1, <2>1, <2>2, FormUndone DEF Clean
    <2>4. CleanClaim'
      BY <1>0, <2>1 DEF Clean, CleanClaim, Requested, Content1, VersionObject
    <2> QED BY <1>0, <2>1, <2>3, <2>4 DEF Clean, CleanVersion, CleanExperiment, CleanRejected, CleanFeedback,
                                          CleanRegister, CleanAnswer
  <1>2. DOMAIN cur = Parts
    BY DEF Shape
  <1>3. ASSUME NEW column \in {"status", "run"}, NEW value, Undo([cur EXCEPT !.form[column] = value], {"form"})
        PROVE  Clean'
    <2> DEFINE rows == [cur EXCEPT !.form[column] = value]
               x == [cur.form EXCEPT ![column] = value]
    <2>1. rows.form = x /\ rows.pool = cur.pool /\ rows.m1 = cur.m1 /\ rows.m2 = cur.m2
      BY <1>2 DEF Parts
    <2>2. ASSUME IsFormRow(cur.form) PROVE IsFormRow(rows.form)
      <3>1. /\ DOMAIN cur.form = FormFields
            /\ cur.form.id = 1 /\ cur.form.session = 1 /\ cur.form.form_no = 1 /\ cur.form.pool = 1
            /\ cur.form.json = 1 /\ cur.form.spec = 1
        BY <2>2, FormColumns
      <3>2. IsFunction(x) /\ DOMAIN x = FormFields
        BY <3>1 DEF IsFunction
      <3>3. x.id = 1 /\ x.session = 1 /\ x.form_no = 1 /\ x.pool = 1 /\ x.json = 1 /\ x.spec = 1
        BY <3>1 DEF FormFields
      <3> HIDE DEF x, rows
      <3> QED BY <2>1, <3>2, <3>3, FormByFields DEF IsFormRow
    <2>3. Undo(rows, {"form"})
      BY <1>3
    <2> HIDE DEF rows, x
    <2> QED BY <1>1, <2>1, <2>2, <2>3
  <1>4. ASSUME NEW value, Undo([cur EXCEPT !.pool.status = value], {"pool"}) PROVE Clean'
    <2> DEFINE rows == [cur EXCEPT !.pool.status = value]
    <2>1. rows.form = cur.form /\ rows.m1 = cur.m1 /\ rows.m2 = cur.m2
      BY <1>2 DEF Parts
    <2>2. ASSUME CleanPool(cur.pool) PROVE CleanPool(rows.pool)
      <3>1. cur.pool = [id |-> 1, form |-> 1, filter |-> <<1, 2>>, hash |-> 1, status |-> cur.pool.status]
        BY <2>2 DEF CleanPool
      <3>2. rows.pool = [id |-> 1, form |-> 1, filter |-> <<1, 2>>, hash |-> 1, status |-> value]
        BY <1>2, <3>1 DEF Parts
      <3> HIDE DEF rows
      <3> QED BY <3>2 DEF CleanPool
    <2>3. Undo(rows, {"pool"})
      BY <1>4
    <2> HIDE DEF rows
    <2> QED BY <1>1, <2>1, <2>2, <2>3
  <1>5. \/ \E s : Undo([cur EXCEPT !.form.status = s], {"form"})
        \/ \E s : Undo([cur EXCEPT !.pool.status = s], {"pool"})
        \/ Undo([cur EXCEPT !.form.run = Other], {"form"})
    BY DEF set_for_test
  <1> QED BY <1>3, <1>4, <1>5, Zenon

\* prepare_form_for_worker: the components made by hand from the pool are those a
\* claim would have answered.
LEMMA CleanPrepare ==
  ASSUME Control, Shape, CleanInv, prepare_form_for_worker
  PROVE  CleanInv'
  <1> SUFFICES ASSUME ~fault', ~refreshed', pc' # "done" PROVE Clean'
    BY DEF CleanInv, Clean
  <1> DEFINE made == {ByHand(1, cur.m1), ByHand(2, cur.m2)}
             row == [cur.form EXCEPT !.status = "processing", !.run = 1, !.version = Null, !.experiment = Null]
  <1>1. /\ pc = "ready" /\ ~cleared /\ stage \in {"submit", "order"} /\ round = 0 /\ ~fault /\ ~refreshed
        /\ pc' = "ready" /\ stage' = "claim" /\ round' = 0 /\ cleared' = cleared
    BY DEF prepare_form_for_worker, Control
  <1>2. /\ cur' = [cur EXCEPT !.pool.status = "locked",
                              !.form = [@ EXCEPT !.status = "processing", !.run = 1,
                                                 !.version = Null, !.experiment = Null]]
        /\ client' = [client EXCEPT !.claim = [run |-> 1, combo |-> Combo, experiment |-> 1,
                                               components |-> made,
                                               feedback |-> 0, round |-> Null, source |-> Null]]
    BY <1>1 DEF prepare_form_for_worker
  <1>3. DOMAIN cur = Parts /\ DOMAIN client = {"task", "claim", "version", "experiment", "registration"}
    BY DEF Shape, Control
  <1>4. Clean
    BY <1>1 DEF CleanInv, Clean
  <1>5. /\ IsFormRow(cur.form) /\ CleanPool(cur.pool) /\ cur.m2 = Member(2, 1)
        /\ \E d \in Directions : cur.m1 = Member(1, d)
    BY <1>1, <1>4 DEF Clean, CleanForm
  <1>6. cur'.form = row /\ cur'.m1 = cur.m1 /\ cur'.m2 = cur.m2
    BY <1>2, <1>3 DEF Parts
  <1>7. IsFormRow(cur'.form)
    <2>1. /\ DOMAIN cur.form = FormFields
          /\ cur.form.id = 1 /\ cur.form.session = 1 /\ cur.form.form_no = 1 /\ cur.form.pool = 1
          /\ cur.form.json = 1 /\ cur.form.spec = 1
      BY <1>5, FormColumns
    <2>2. IsFunction(row) /\ DOMAIN row = FormFields
      BY <2>1 DEF IsFunction
    <2>3. /\ row.id = 1 /\ row.session = 1 /\ row.form_no = 1 /\ row.pool = 1 /\ row.json = 1 /\ row.spec = 1
      BY <2>1 DEF FormFields
    <2> HIDE DEF row
    <2> QED BY <1>6, <2>2, <2>3, FormByFields DEF IsFormRow
  <1>8. CleanPool(cur'.pool)
    <2>1. cur.pool = [id |-> 1, form |-> 1, filter |-> <<1, 2>>, hash |-> 1, status |-> cur.pool.status]
      BY <1>5 DEF CleanPool
    <2>2. cur'.pool = [id |-> 1, form |-> 1, filter |-> <<1, 2>>, hash |-> 1, status |-> "locked"]
      BY <1>2, <1>3, <2>1 DEF Parts
    <2> QED BY <2>2 DEF CleanPool
  <1>9. made = Requested(0)
    <2>1. PICK d \in Directions : cur.m1 = Member(1, d)
      BY <1>5
    <2>2. cur.m1.sub = 1 /\ cur.m1.parents[1].factor = 1
      BY <2>1 DEF Member
    <2>3. cur.m2.sub = 2 /\ cur.m2.parents[1].factor = 1
      BY <1>5 DEF Member
    <2>4. ByHand(1, cur.m1) = Content1(0, 1)
      BY <2>2 DEF ByHand, Content1
    <2>5. ByHand(2, cur.m2) = Content1(0, 2)
      BY <2>3 DEF ByHand, Content1
    <2>6. Requested(0) = {Content1(0, 1), Content1(0, 2)}
      BY DEF Requested
    <2> QED BY <2>4, <2>5, <2>6
  <1> HIDE DEF made, row
  <1>10. /\ client'.task = client.task
         /\ client'.claim = [run |-> 1, combo |-> Combo, experiment |-> 1, components |-> made,
                             feedback |-> 0, round |-> Null, source |-> Null]
    BY <1>2, <1>3
  <1>11. CleanForm'
    BY <1>1, <1>4, <1>6, <1>7, <1>8, <1>10, FormKept DEF Clean
  <1>12. Requested(0)' = Requested(0)
    BY DEF Requested, Content1
  <1>13. CleanClaim'
    BY <1>1, <1>9, <1>10, <1>12 DEF CleanClaim
  <1> QED BY <1>1, <1>11, <1>13 DEF Clean, CleanVersion, CleanExperiment, CleanRejected, CleanFeedback, CleanRegister,
                                   CleanAnswer

\* The objects the client builds from an accepted answer are the ones the next
\* checks compare with.
LEMMA CleanCheck ==
  ASSUME Control, Shape, CleanInv, Check
  PROVE  CleanInv'
  <1> SUFFICES ASSUME ~fault', ~refreshed', pc' # "done" PROVE Clean'
    BY DEF CleanInv, Clean
  <1>1. /\ pc = "check" /\ pc' = "ready" /\ client' = Handed /\ ~fault /\ ~refreshed
        /\ cur' = cur /\ past' = past /\ request' = request /\ stage' = stage /\ round' = round
        /\ cleared' = cleared /\ replayed' = replayed
    BY DEF Check
  <1>2. Clean /\ stage # "none" /\ ~cleared
    BY <1>1 DEF CleanInv, Clean, Control, CleanAnswer
  <1>3. DOMAIN client = {"task", "claim", "version", "experiment", "registration"} /\ round \in Nat
    BY WorkerAssumption DEF Control, WorkerAssumption
  <1>4. /\ stage # "submit" => client'.task = client.task
        /\ stage # "claim" => client'.claim = client.claim
        /\ stage # "version" => client'.version = client.version
        /\ stage # "experiment" => client'.experiment = client.experiment
    BY <1>1, <1>3 DEF Handed
  <1>5. CASE stage = "submit"
    <2>1. Answer = [form |-> 1, pool |-> 1, form_no |-> 1, status |-> "submitted"] /\ request.session = 1
      BY <1>1, <1>2, <1>5 DEF Clean, CleanAnswer, Answer, FormRequest
    <2>2. client'.task = Task
      BY <1>1, <1>3, <1>5 DEF Handed
    <2>3. client'.task = [session |-> 1, form |-> 1, pool |-> 1, form_no |-> 1]
      BY <2>1, <2>2 DEF Task
    <2>4. CleanForm'
      BY <1>1, <1>2, <1>5, <2>3 DEF Clean, CleanForm
    <2> QED BY <1>1, <1>5, <2>4 DEF Clean, CleanVersion, CleanExperiment, CleanRejected, CleanFeedback,
                                   CleanRegister, CleanClaim, CleanAnswer
  <1>6. CASE stage # "submit"
    <2>1. CleanForm'
      BY <1>1, <1>2, <1>4, <1>6 DEF Clean, CleanForm
    <2>2. CleanVersion'
      <3>1. CASE stage = "version"
        <4>1. /\ Answer.version = round + 1 /\ Answer.combo = Combo /\ Answer.pool = 1 /\ Answer.hash = round + 1
          BY <1>1, <1>2, <3>1 DEF Clean, CleanAnswer, Answer
        <4>2. client'.version = VersionObject(round)
          BY <1>1, <1>3, <3>1, <4>1 DEF Handed, VersionObject
        <4>3. VersionObject(round)' = VersionObject(round) /\ (Requested(round))' = Requested(round)
          BY <1>1 DEF VersionObject, Requested, Content1
        <4> QED BY <1>1, <1>2, <3>1, <4>2, <4>3
                DEF Clean, CleanVersion, OwnRows, VersionRow, FeedbackRow, FormRow, Component, Content1, Version
      <3> QED BY <1>1, <3>1 DEF CleanVersion
    <2>3. CleanExperiment'
      <3>1. CASE stage = "experiment"
        <4>1. Answer.experiment = round + 1
          BY <1>1, <1>2, <3>1 DEF Clean, CleanAnswer, Answer
        <4>2. client'.experiment = round + 1
          BY <1>1, <1>3, <3>1, <4>1 DEF Handed
        <4> QED BY <1>1, <1>2, <3>1, <4>2 DEF Clean, CleanExperiment, OwnRows
      <3> QED BY <1>1, <3>1 DEF CleanExperiment
    <2>4. CleanRejected'
      BY <1>1, <1>2, <1>4 DEF Clean, CleanRejected, OwnRows
    <2>5. CleanFeedback'
      BY <1>1, <1>2, <1>4 DEF Clean, CleanFeedback
    <2>6. CleanRegister'
      <3>1. CASE stage = "register"
        <4>1. \A f \in ReplayFields : client'.registration[f] = Registered(round)[f]
          <5>1. CASE replayed
            <6>1. client' = client
              BY <1>1, <3>1, <5>1 DEF Handed
            <6> QED BY <1>2, <3>1, <5>1, <6>1 DEF Clean, CleanRegister
          <5>2. CASE ~replayed
            <6>1. client'.registration = Answer
              BY <1>1, <1>3, <3>1, <5>2 DEF Handed
            <6>2. RegisterWrites
              BY <1>1, <1>2, <3>1 DEF Clean, CleanAnswer
            <6> QED BY <6>1, <6>2, AnswerNames DEF Answer
          <5> QED BY <5>1, <5>2
        <4>2. Registered(round)' = Registered(round)
          BY <1>1 DEF Registered
        <4> QED BY <1>1, <1>2, <3>1, <4>1, <4>2 DEF Clean, CleanRegister, OwnRows
      <3> QED BY <1>1, <3>1 DEF CleanRegister
    <2>7. CleanClaim'
      <3>1. CASE stage = "claim"
        <4>1. /\ Answer.run = round + 1 /\ Answer.combo = Combo /\ Answer.experiment = round + 1
              /\ Answer.components = Requested(round)
          BY <1>1, <1>2, <3>1 DEF Clean, CleanAnswer, Answer
        <4>2. client'.claim = Claim
          BY <1>1, <1>3, <3>1 DEF Handed
        <4>3. /\ Claim.run = round + 1 /\ Claim.combo = Combo /\ Claim.experiment = round + 1
              /\ Claim.components = Requested(round) /\ Claim.feedback = round
              /\ Claim.round \in {Null, round} /\ Claim.source = client.version
          BY <4>1 DEF Claim
        <4>4. round > 0 => client.version = VersionObject(round - 1)
          BY <1>2, <3>1 DEF Clean, CleanRejected
        <4>5. (VersionObject(round - 1))' = VersionObject(round - 1) /\ (Requested(round))' = Requested(round)
          BY <1>1 DEF VersionObject, Requested, Content1
        <4> HIDE DEF Claim
        <4> QED BY <1>1, <3>1, <4>2, <4>3, <4>4, <4>5 DEF CleanClaim
      <3>2. CASE stage # "claim"
        <4>1. client'.claim = client.claim
          BY <1>4, <3>2
        <4>2. /\ (VersionObject(round - 1))' = VersionObject(round - 1) /\ (Requested(round))' = Requested(round)
              /\ VersionObject(round)' = VersionObject(round)
          BY <1>1 DEF VersionObject, Requested, Content1
        <4> QED BY <1>1, <1>2, <1>4, <3>2, <4>1, <4>2 DEF Clean, CleanClaim
      <3> QED BY <3>1, <3>2
    <2>8. CleanAnswer'
      BY <1>1 DEF CleanAnswer
    <2> QED BY <2>1, <2>2, <2>3, <2>4, <2>5, <2>6, <2>7, <2>8 DEF Clean
  <1> QED BY <1>5, <1>6

\* Nothing is written yet.
LEMMA CleanInit == Init => CleanInv
  BY DEF Init, CleanInv, Clean, CleanForm, CleanVersion, CleanExperiment, CleanRejected, CleanFeedback, CleanRegister,
         CleanClaim, CleanAnswer

\* A step that changes nothing.
LEMMA CleanStutter ==
  ASSUME CleanInv, UNCHANGED vars
  PROVE  CleanInv'
  <1> USE DEF vars
  <1>1. /\ CleanForm' = CleanForm /\ CleanExperiment' = CleanExperiment /\ CleanRejected' = CleanRejected
        /\ CleanFeedback' = CleanFeedback
    BY DEF CleanForm, CleanExperiment, CleanRejected, CleanFeedback, OwnRows
  <1>2. CleanVersion' = CleanVersion /\ CleanRegister' = CleanRegister
    BY DEF CleanVersion, CleanRegister, OwnRows, Requested, Content1, Registered
  <1>3. CleanClaim' = CleanClaim
    BY DEF CleanClaim, Requested, Content1, VersionObject
  <1>4. CleanAnswer' = CleanAnswer
    BY DEF CleanAnswer, RegisterWrites, Requested, Content1
  <1> QED BY <1>1, <1>2, <1>3, <1>4 DEF CleanInv, Clean

\* Every step of a test that has not ended.
LEMMA CleanNext ==
  ASSUME Control, Shape, IsSeq(past), CleanInv, [Next]_vars
  PROVE  CleanInv'
  <1>1. ASSUME NEW d \in Directions, NEW direct \in BOOLEAN, submit_form(d, direct) PROVE CleanInv'
    BY <1>1, CleanSubmit
  <1>2. CASE submit_mixed_parent_and_sub_factor_for_rejection \/ create_version_refused \/ Finish
    BY <1>2 DEF submit_mixed_parent_and_sub_factor_for_rejection, create_version_refused, Finish, CleanInv
  <1>3. CASE get_work_order
    BY <1>3, CleanOrder
  <1>4. CASE claim_legacy_pipeline
    BY <1>4, CleanClaimed
  <1>5. CASE create_version
    BY <1>5, CleanCreate
  <1>6. ASSUME NEW valid \in BOOLEAN, write_experiment(valid) PROVE CleanInv'
    BY <1>6, CleanWriteExperiment
  <1>7. CASE submit_feedback
    BY <1>7, CleanSubmitFeedback
  <1>8. ASSUME NEW items, NEW codes, register_report(items, codes) PROVE CleanInv'
    BY <1>8, CleanRegisterReport
  <1>9. CASE replay_request
    BY <1>9, CleanReplay
  <1>10. CASE RefreshLinks
    BY <1>10 DEF RefreshLinks, CleanInv
  <1>11. CASE \/ clear_experiment_links_for_test \/ clear_next_version_links_for_test
              \/ clear_next_version_pointer_for_test \/ prepare_feedback_partial_replay_for_test
              \/ clear_registration_marker_for_test \/ clear_one_next_version_component_for_test
              \/ set_for_test
    BY <1>11, CleanUndoExperiment, CleanUndoLinks, CleanUndoPointer, CleanUndoFeedback, CleanUndoMarker,
       CleanUndoComponent, CleanSet
  <1>12. CASE prepare_form_for_worker
    BY <1>12, CleanPrepare
  <1>13. CASE Check
    BY <1>13, CleanCheck
  <1>14. CASE Terminated \/ UNCHANGED vars
    BY <1>14, CleanStutter DEF Terminated
  <1> QED BY <1>1, <1>2, <1>3, <1>4, <1>5, <1>6, <1>7, <1>8, <1>9, <1>10, <1>11, <1>12, <1>13, <1>14, Zenon DEF Next

\* A test that has ended takes no step.
LEMMA DoneStays ==
  ASSUME pc = "done", [Next]_vars
  PROVE  UNCHANGED vars
  <1>1. ASSUME NEW s, NEW r, Call(s, r) PROVE FALSE
    BY <1>1 DEF Call
  <1>2. ASSUME NEW rows, NEW parts, Undo(rows, parts) PROVE FALSE
    BY <1>2 DEF Undo
  <1>3. ~\/ submit_mixed_parent_and_sub_factor_for_rejection \/ create_version_refused \/ Finish
         \/ replay_request \/ RefreshLinks \/ prepare_form_for_worker \/ Check
    BY DEF submit_mixed_parent_and_sub_factor_for_rejection, create_version_refused, Finish, replay_request,
           RefreshLinks, prepare_form_for_worker, Check
  <1>4. ~\/ get_work_order \/ claim_legacy_pipeline \/ create_version \/ submit_feedback
         \/ \E d \in Directions, direct \in BOOLEAN : submit_form(d, direct)
         \/ \E valid \in BOOLEAN : write_experiment(valid)
         \/ \E items, codes : register_report(items, codes)
    BY <1>1, Zenon DEF get_work_order, claim_legacy_pipeline, create_version, submit_feedback, submit_form,
                       write_experiment, register_report
  <1>5. ~\/ clear_experiment_links_for_test \/ clear_next_version_links_for_test
         \/ clear_next_version_pointer_for_test \/ prepare_feedback_partial_replay_for_test
         \/ clear_registration_marker_for_test \/ clear_one_next_version_component_for_test
         \/ set_for_test
    BY <1>2, Zenon
       DEF clear_experiment_links_for_test, clear_next_version_links_for_test,
           clear_next_version_pointer_for_test, prepare_feedback_partial_replay_for_test,
           clear_registration_marker_for_test, clear_one_next_version_component_for_test, set_for_test
  <1> QED BY <1>3, <1>4, <1>5, Zenon DEF Next, Terminated

\* With the columns the first invariant gives, CleanInv is inductive.
LEMMA CleanInvNext ==
  ASSUME ChainInv, CleanInv, [Next]_vars
  PROVE  CleanInv'
  <1>1. CASE pc = "done"
    BY <1>1, DoneStays, CleanStutter
  <1>2. CASE pc # "done"
    BY <1>2, CleanNext DEF ChainInv
  <1> QED BY <1>1, <1>2

\* The next check accepts, but for the three cases SoundIsAccepted excepts.
LEMMA SoundCheck ==
  ASSUME Control, Shape, CleanInv, Check, ~fault, ~refreshed, OwnReport,
         ~(stage = "order" /\ cur.m1.snapshots = {-1}), ~(stage = "register" /\ cur.version.id # Combo)
  PROVE  Accepted
  <1>1. /\ pc = "check" /\ round \in 0..MaxRounds /\ round \in Nat /\ replayed \in BOOLEAN
        /\ stage \in Stages \ {"none"} /\ (stage = "feedback" => round > 0)
    BY WorkerAssumption DEF Check, Control, WorkerAssumption
  <1>2. Clean
    BY <1>1 DEF CleanInv, Clean
  <1>3. CASE stage = "submit"
    BY <1>1, <1>2, <1>3, SubmitIsAccepted DEF Clean, Accepted
  <1>4. CASE stage = "order"
    BY <1>1, <1>2, <1>4, OrderIsAccepted DEF Clean, Accepted
  <1>5. CASE stage = "claim"
    BY <1>1, <1>2, <1>5, ClaimIsAccepted DEF Clean, Accepted
  <1>6. CASE stage = "version"
    BY <1>1, <1>2, <1>6, VersionIsAccepted DEF Clean, Accepted
  <1>7. CASE stage = "experiment"
    BY <1>1, <1>2, <1>7, ExperimentIsAccepted DEF Clean, Accepted
  <1>8. CASE stage = "feedback"
    BY <1>1, <1>2, <1>8, FeedbackIsAccepted DEF Clean, Accepted
  <1>9. CASE stage = "register" /\ ~replayed
    BY <1>1, <1>2, <1>9, RegisterIsAccepted DEF Clean, Accepted
  <1>10. CASE stage = "register" /\ replayed
    BY <1>1, <1>2, <1>10, ReplayIsAccepted DEF Clean, Accepted
  <1> QED BY <1>1, <1>10, <1>3, <1>4, <1>5, <1>6, <1>7, <1>8, <1>9 DEF Stages

\* FAIL_CONTRACT is the outcome of a check and of nothing else.
LEMMA OnlyCheckBlames ==
  ASSUME Control, pc # "done", [Next]_vars, outcome' = "FAIL_CONTRACT"
  PROVE  Check
  <1>1. outcome # "FAIL_CONTRACT"
    BY ValueAssumption DEF Control, Outcomes
  <1>2. ASSUME NEW s, NEW r, Call(s, r) PROVE FALSE
    BY <1>1, <1>2 DEF Call
  <1>3. ASSUME NEW rows, NEW parts, Undo(rows, parts) PROVE FALSE
    BY <1>1, <1>3 DEF Undo
  <1>4. ~\/ submit_mixed_parent_and_sub_factor_for_rejection \/ create_version_refused \/ Finish
         \/ replay_request \/ RefreshLinks \/ prepare_form_for_worker \/ Terminated \/ UNCHANGED vars
    BY <1>1 DEF submit_mixed_parent_and_sub_factor_for_rejection, create_version_refused, Finish, replay_request,
                RefreshLinks, prepare_form_for_worker, Terminated, vars
  <1>5. ~\/ get_work_order \/ claim_legacy_pipeline \/ create_version \/ submit_feedback
         \/ \E d \in Directions, direct \in BOOLEAN : submit_form(d, direct)
         \/ \E valid \in BOOLEAN : write_experiment(valid)
         \/ \E items, codes : register_report(items, codes)
    BY <1>2, Zenon DEF get_work_order, claim_legacy_pipeline, create_version, submit_feedback, submit_form,
                       write_experiment, register_report
  <1>6. ~\/ clear_experiment_links_for_test \/ clear_next_version_links_for_test
         \/ clear_next_version_pointer_for_test \/ prepare_feedback_partial_replay_for_test
         \/ clear_registration_marker_for_test \/ clear_one_next_version_component_for_test
         \/ set_for_test
    BY <1>3, Zenon
       DEF clear_experiment_links_for_test, clear_next_version_links_for_test,
           clear_next_version_pointer_for_test, prepare_feedback_partial_replay_for_test,
           clear_registration_marker_for_test, clear_one_next_version_component_for_test, set_for_test
  <1> QED BY <1>4, <1>5, <1>6, Zenon DEF Next

\* A backend that makes no mistake is never blamed (SoundIsAccepted): without a fault
\* no call of FactorComboService ends in FAIL_CONTRACT, in any round, after any repeated
\* request and from every half-finished state the helpers recreate.
THEOREM SoundChecks == Spec => []SoundIsAccepted
  <1>1. Init => CleanInv /\ SoundIsAccepted
    BY CleanInit, ValueAssumption DEF Init, SoundIsAccepted, Outcomes
  <1>2. ChainInv /\ CleanInv /\ SoundIsAccepted /\ [Next]_vars => SoundIsAccepted'
    <2> SUFFICES ASSUME ChainInv, CleanInv, SoundIsAccepted, [Next]_vars PROVE SoundIsAccepted'
      OBVIOUS
    <2>1. CASE pc = "done"
      BY <2>1, DoneStays DEF vars, SoundIsAccepted, OwnReport, OwnCodes, Item, Content1
    <2>2. CASE pc # "done"
      <3> SUFFICES ASSUME outcome' = "FAIL_CONTRACT", ~fault', OwnReport', ~refreshed',
                          ~(stage' = "order" /\ cur'.m1.snapshots = {-1}),
                          ~(stage' = "register" /\ cur'.version.id # Combo)
                   PROVE  FALSE
        BY DEF SoundIsAccepted
      <3>1. Control /\ Shape
        BY <2>2 DEF ChainInv
      <3>2. Check
        BY <2>2, <3>1, OnlyCheckBlames
      <3>3. /\ cur' = cur /\ request' = request /\ stage' = stage /\ round' = round /\ fault' = fault
            /\ refreshed' = refreshed
        BY <3>2 DEF Check
      <3>4. OwnReport
        BY <3>3 DEF OwnReport, OwnCodes, Item, Content1
      <3>5. Accepted
        BY <3>1, <3>2, <3>3, <3>4, SoundCheck
      <3>6. outcome' = outcome /\ outcome # "FAIL_CONTRACT"
        BY <2>2, <3>1, <3>2, <3>5, ValueAssumption DEF Check, Control, Outcomes
      <3> QED BY <3>6
    <2> QED BY <2>1, <2>2
  <1>3. ChainInv /\ CleanInv /\ [Next]_vars => CleanInv'
    BY CleanInvNext
  <1> QED BY <1>1, <1>2, <1>3, ChainInvariant, PTL DEF Spec
=============================================================================
