------------------------ MODULE Factor4AuditProofs ------------------------
(***************************************************************************)
(* The cache of the calculation audit, for any references, any chunk size, *)
(* any number of uses and of misbehaviours of the server.                  *)
(***************************************************************************)
EXTENDS Factor4Audit, TLAPS

-----------------------------------------------------------------------------
(* The inductive invariant.                                                 *)

\* The steps at which a snapshot is in use.
InUse == pc \in {"details", "formulas", "regressions", "report", "reread"}

\* What is cached is of the snapshot the cache is scoped to.
OfScope(answer) == answer[1] = "data" => answer[3] = scope

\* The cache is empty or scoped to a snapshot that was read, and a check works
\* on the snapshot the cache is scoped to.
ScopeInv ==
    /\ reads \in Nat
    /\ \/ scope = Null /\ details = NoDetails /\ formulas = NoFormulas
       \/ scope \in 1..reads
    /\ DOMAIN details = Range(RefOrder)
    /\ \A ref \in DOMAIN details : OfScope(details[ref])
    /\ \A id \in DOMAIN formulas : OfScope(formulas[id])
    /\ InUse => scope = snapshot.stamp /\ scope \in 1..reads

\* A reference that was asked for is known, and those still to be asked for are not.
AskedInv ==
    /\ DOMAIN asked = Range(RefOrder)
    /\ InUse => /\ \A ref \in DOMAIN asked : \/ asked[ref] = 0
                                             \/ asked[ref] = 1 /\ details[ref] # Absent
                /\ \A ref \in todo : ref \in DOMAIN details /\ details[ref] = Absent

AuditInv == ScopeInv /\ AskedInv

-----------------------------------------------------------------------------
(* The steps.                                                               *)

\* What can be kept of a reference or a formula row.
LEMMA Kept ==
  /\ Absent[1] = "absent" /\ Error[1] = "error" /\ Absent # Error
  /\ \A of, stamp : Data(of, stamp)[1] = "data" /\ Data(of, stamp)[3] = stamp /\ Data(of, stamp) # Absent
<1>1. Absent[1] = "absent" /\ Error[1] = "error"
  BY DEF Absent, Error
<1>2. \A of, stamp : Data(of, stamp)[1] = "data" /\ Data(of, stamp)[3] = stamp
  BY DEF Data
<1> QED
  BY <1>1, <1>2

\* What an answer leaves of a reference is an error or data of the snapshot in use.
LEMMA StoredOfSnapshot ==
  ASSUME NEW ref, NEW items
  PROVE  \/ StoredItem(ref, items) = Error
         \/ \E of : StoredItem(ref, items) = Data(of, snapshot.stamp)
BY DEF StoredItem

\* The invariant at the start.
LEMMA AuditStart == Init => AuditInv
<1> SUFFICES ASSUME Init PROVE AuditInv
  OBVIOUS
<1>1. /\ pc = "idle" /\ reads = 0 /\ scope = Null /\ details = NoDetails /\ formulas = NoFormulas
      /\ asked = [ref \in Range(RefOrder) |-> 0]
  BY DEF Init
<1>2. DOMAIN NoDetails = Range(RefOrder) /\ \A ref \in DOMAIN NoDetails : NoDetails[ref] = Absent
  BY DEF NoDetails
<1>3. \A id \in DOMAIN NoFormulas : NoFormulas[id] = Absent
  BY DEF NoFormulas
<1>4. ScopeInv
  BY <1>1, <1>2, <1>3, Kept DEF ScopeInv, OfScope, InUse
<1>5. AskedInv
  BY <1>1 DEF AskedInv, InUse
<1> QED
  BY <1>4, <1>5 DEF AuditInv

\* A step that leaves the cache alone keeps what is known of it, as long as it
\* starts no use of a snapshot and asks only for what is not known.
LEMMA CacheKept ==
  ASSUME ScopeInv, AskedInv, UNCHANGED <<reads, scope, details, formulas, asked, snapshot>>,
         InUse' => InUse /\ \A ref \in todo' : ref \in DOMAIN details /\ details[ref] = Absent
  PROVE  ScopeInv' /\ AskedInv'
BY DEF ScopeInv, AskedInv, OfScope

\* run_r0_checks and run_result_checks begin with an empty cache.
LEMMA StartRunStep ==
  ASSUME AuditInv, StartRun
  PROVE  AuditInv'
<1> USE DEF AuditInv
<1>1. /\ pc' = "initialize" /\ scope' = Null /\ details' = NoDetails /\ formulas' = NoFormulas
      /\ UNCHANGED <<reads, asked>>
  BY DEF StartRun, ResetCache
<1>2. DOMAIN NoDetails = Range(RefOrder) /\ \A ref \in DOMAIN NoDetails : NoDetails[ref] = Absent
  BY DEF NoDetails
<1>3. \A id \in DOMAIN NoFormulas : NoFormulas[id] = Absent
  BY DEF NoFormulas
<1>4. ScopeInv'
  BY <1>1, <1>2, <1>3, Kept DEF ScopeInv, OfScope, InUse
<1>5. AskedInv'
  BY <1>1 DEF AskedInv, InUse
<1> QED
  BY <1>4, <1>5

\* A caller's own snapshot starts with the cache that is there.
LEMMA StartCheckStep ==
  ASSUME AuditInv, StartCheck
  PROVE  AuditInv'
<1> USE DEF AuditInv
<1>1. pc' = "read" /\ UNCHANGED <<reads, scope, details, formulas, asked>>
  BY DEF StartCheck
<1>2. ScopeInv'
  BY <1>1 DEF ScopeInv, OfScope, InUse
<1>3. AskedInv'
  BY <1>1 DEF AskedInv, InUse
<1> QED
  BY <1>2, <1>3

\* The handshake leaves the cache alone.
LEMMA HandshakeSteps ==
  ASSUME AuditInv, Handshake \/ Notify
  PROVE  AuditInv'
<1> USE DEF AuditInv
<1>1. UNCHANGED <<reads, scope, details, formulas, asked, snapshot>>
  BY DEF Handshake, Notify
<1>2. pc' \in {"idle", "notify", "read"}
  BY DEF Handshake, Notify, Responds, Raise
<1> QED
  BY <1>1, <1>2, CacheKept DEF InUse

\* The number of a new snapshot is none the cache can have, so what is cached of
\* an older one is dropped.
LEMMA ReadSnapshotStep ==
  ASSUME AuditInv, ReadSnapshot
  PROVE  AuditInv'
<1> USE DEF AuditInv
<1>1. pc = "read" /\ reads' = reads + 1
  BY DEF ReadSnapshot
<1>3. CASE Read(db) = ReadError
  <2>1. pc' = "idle" /\ UNCHANGED <<snapshot, scope, details, formulas, asked>>
    BY <1>3 DEF ReadSnapshot, Raise
  <2>2. ScopeInv'
    BY <1>1, <2>1 DEF ScopeInv, OfScope, InUse
  <2>3. AskedInv'
    BY <2>1 DEF AskedInv, InUse
  <2> QED
    BY <2>2, <2>3
<1>4. CASE Read(db) # ReadError
  <2>1. /\ snapshot' = [stamp |-> reads + 1, db |-> db, data |-> Read(db)]
        /\ EnsureScope(reads + 1)
        /\ asked' = [ref \in DOMAIN asked |-> 0]
        /\ pc' = "details"
        /\ todo' = {ref \in Range(RefOrder) : ref \in Refs(Read(db)) /\ details'[ref] = Absent}
    BY <1>4 DEF ReadSnapshot
  <2>2. details' = NoDetails /\ formulas' = NoFormulas /\ scope' = reads + 1
    BY <2>1 DEF EnsureScope, ScopeInv
  <2>3. DOMAIN NoDetails = Range(RefOrder) /\ \A ref \in DOMAIN NoDetails : NoDetails[ref] = Absent
    BY DEF NoDetails
  <2>4. \A id \in DOMAIN NoFormulas : NoFormulas[id] = Absent
    BY DEF NoFormulas
  <2>5. ScopeInv'
    <3>1. reads' \in Nat /\ scope' \in 1..reads' /\ scope' = snapshot'.stamp
      BY <1>1, <2>1, <2>2 DEF ScopeInv
    <3> QED
      BY <2>2, <2>3, <2>4, <3>1, Kept DEF ScopeInv, OfScope
  <2>6. AskedInv'
    BY <2>1, <2>2, <2>3 DEF AskedInv
  <2> QED
    BY <2>5, <2>6
<1> QED
  BY <1>3, <1>4

\* An answer of the details tool settles every reference of its request, and a
\* budget error all that were left.
LEMMA AskDetailsStep ==
  ASSUME AuditInv, AskDetails
  PROVE  AuditInv'
<1> USE DEF AuditInv
<1>1. /\ InUse /\ UNCHANGED <<reads, snapshot, scope, formulas>>
      /\ asked' = [ref \in DOMAIN asked |-> asked[ref] + (IF ref \in Chunk THEN 1 ELSE 0)]
  BY DEF AskDetails, InUse
<1>2. PICK response : /\ CallTool(response)
                      /\ IF Answer(response) = None THEN Raise /\ UNCHANGED details
                         ELSE LoadChunk(Answer(response)) /\ UNCHANGED <<pc, report>>
  BY DEF AskDetails, Responds
<1>5. CASE Answer(response) = None
  <2>1. pc' = "idle" /\ UNCHANGED details
    BY <1>2, <1>5 DEF Raise
  <2>2. ScopeInv'
    BY <1>1, <2>1 DEF ScopeInv, OfScope, InUse
  <2>3. AskedInv'
    BY <1>1, <2>1 DEF AskedInv, InUse
  <2> QED
    BY <2>2, <2>3
<1>6. CASE Answer(response) # None
  <2> DEFINE answer == Answer(response)
             lost == IF answer.error = "budget" THEN todo ELSE Chunk
  <2>1. /\ pc' = pc /\ todo' = todo \ lost
        /\ details' = IF answer.error # None
                      THEN [ref \in DOMAIN details |-> IF ref \in lost THEN Error ELSE details[ref]]
                      ELSE [ref \in DOMAIN details |->
                              IF ref \in Chunk THEN StoredItem(ref, answer.items) ELSE details[ref]]
    BY <1>2, <1>6 DEF LoadChunk
  <2>2. Chunk \subseteq lost /\ lost \subseteq todo
    BY DEF Chunk
  <2>3. DOMAIN details' = DOMAIN details
    BY <2>1
  <2>4. \A ref \in DOMAIN details : \/ details'[ref] = details[ref] /\ ref \notin Chunk
                                    \/ ref \in lost /\ details'[ref] = Error
                                    \/ ref \in lost /\ \E of : details'[ref] = Data(of, snapshot.stamp)
    BY <2>1, <2>2, StoredOfSnapshot
  <2>5. ScopeInv'
    <3>1. \A ref \in DOMAIN details : OfScope(details[ref])'
      BY <1>1, <2>4, Kept DEF ScopeInv, OfScope
    <3> QED
      BY <1>1, <2>1, <2>3, <3>1 DEF ScopeInv, OfScope, InUse
  <2>6. AskedInv'
    <3>1. DOMAIN asked' = DOMAIN asked /\ DOMAIN details = DOMAIN asked
      BY <1>1 DEF AskedInv, ScopeInv
    <3>2. ASSUME NEW ref \in DOMAIN asked
          PROVE  asked'[ref] = 0 \/ (asked'[ref] = 1 /\ details'[ref] # Absent)
      <4>1. CASE ref \in Chunk
        <5>1. asked[ref] = 0
          BY <1>1, <2>2, <4>1 DEF AskedInv
        <5>2. asked'[ref] = 1
          BY <1>1, <4>1, <5>1
        <5>3. details'[ref] # Absent
          BY <2>4, <3>1, <4>1, Kept
        <5> QED
          BY <5>2, <5>3
      <4>2. CASE ref \notin Chunk
        <5>1. asked[ref] = 0 \/ (asked[ref] = 1 /\ details[ref] # Absent)
          BY <1>1 DEF AskedInv
        <5>2. asked'[ref] = asked[ref]
          BY <1>1, <4>2, <5>1
        <5>3. details[ref] # Absent => details'[ref] # Absent
          BY <2>4, <3>1, Kept
        <5> QED
          BY <5>1, <5>2, <5>3
      <4> QED
        BY <4>1, <4>2
    <3>3. ASSUME NEW ref \in todo' PROVE ref \in DOMAIN details' /\ details'[ref] = Absent
      <4>1. ref \in DOMAIN details /\ details[ref] = Absent /\ ref \notin lost
        BY <1>1, <2>1 DEF AskedInv
      <4> QED
        BY <2>3, <2>4, <4>1
    <3> QED
      BY <3>1, <3>2, <3>3 DEF AskedInv
  <2> QED
    BY <2>5, <2>6
<1> QED
  BY <1>5, <1>6

\* An answer of the formula tool settles its formula row.
LEMMA AskFormulaStep ==
  ASSUME AuditInv, AskFormula
  PROVE  AuditInv'
<1> USE DEF AuditInv
<1> DEFINE id == Min(UnknownFormulas(Current))
<1>1. pc = "formulas" /\ UNCHANGED <<reads, snapshot, scope, details, asked>>
  BY DEF AskFormula
<1>2. PICK response :
        /\ CallTool(response)
        /\ IF Answer(response) = None THEN Raise /\ UNCHANGED formulas
           ELSE /\ formulas' = [formulas EXCEPT ![id] =
                      IF Answer(response).data = None THEN Error ELSE Data(id, snapshot.stamp)]
                /\ UNCHANGED <<pc, todo, report>>
  BY DEF AskFormula, Responds
<1>5. CASE Answer(response) = None
  <2>1. pc' = "idle" /\ UNCHANGED formulas
    BY <1>2, <1>5 DEF Raise
  <2> QED
    BY <1>1, <2>1, CacheKept DEF InUse
<1>6. CASE Answer(response) # None
  <2>1. UNCHANGED <<pc, todo>>
    BY <1>2, <1>6
  <2>2. /\ DOMAIN formulas' = DOMAIN formulas
        /\ \A i \in DOMAIN formulas : \/ formulas'[i] = formulas[i] \/ formulas'[i] = Error
                                      \/ formulas'[i] = Data(id, snapshot.stamp)
    BY <1>2, <1>6
  <2>3. InUse
    BY <1>1 DEF InUse
  <2>4. \A i \in DOMAIN formulas : OfScope(formulas[i])'
    BY <1>1, <2>2, <2>3, Kept DEF ScopeInv, OfScope
  <2>5. ScopeInv'
    BY <1>1, <2>1, <2>2, <2>3, <2>4 DEF ScopeInv, OfScope, InUse
  <2>6. AskedInv'
    BY <1>1, <2>1 DEF AskedInv, InUse
  <2> QED
    BY <2>5, <2>6
<1> QED
  BY <1>5, <1>6

\* The steps of the check itself, of the backend and of the server.
LEMMA OtherSteps ==
  ASSUME AuditInv,
         DetailsLoaded \/ FormulasLoaded \/ Report \/ RereadRoutes \/ Publish \/ Corrupt
           \/ RestartServer \/ UNCHANGED vars
  PROVE  AuditInv'
<1> USE DEF AuditInv
<1>1. UNCHANGED <<reads, scope, details, formulas, asked, snapshot>>
  BY DEF DetailsLoaded, FormulasLoaded, Report, RereadRoutes, Publish, Corrupt, RestartServer,
         vars, auditVars
<1>2. \/ pc' = "idle"
      \/ pc' = pc
      \/ InUse /\ InUse'
  BY DEF DetailsLoaded, FormulasLoaded, Report, RereadRoutes, Publish, Corrupt, RestartServer,
         vars, auditVars, InUse, Raise
<1>3. InUse' => InUse
  BY <1>2 DEF InUse
<1>5. InUse' => todo' = todo \/ todo' = {} \/ todo' = Unknown(Targets)
  BY DEF DetailsLoaded, FormulasLoaded, Report, RereadRoutes, Publish, Corrupt, RestartServer,
         vars, auditVars, InUse, Raise
<1>6. \A ref \in Unknown(Targets) : ref \in DOMAIN details /\ details[ref] = Absent
  BY DEF Unknown, ScopeInv
<1>7. InUse' => \A ref \in todo' : ref \in DOMAIN details /\ details[ref] = Absent
  BY <1>3, <1>5, <1>6 DEF AskedInv
<1> QED
  BY <1>1, <1>3, <1>7, CacheKept

-----------------------------------------------------------------------------
(* The theorems.                                                            *)

\* The cache and the questions are consistent in every state.
THEOREM AuditInvariant == Spec => []AuditInv
<1>1. AuditInv /\ [Next]_vars => AuditInv'
  BY StartRunStep, StartCheckStep, HandshakeSteps, ReadSnapshotStep, AskDetailsStep,
     AskFormulaStep, OtherSteps DEF Next, Finished
<1> QED
  BY <1>1, AuditStart, PTL DEF Spec

\* Whatever was cached before, however the server answered and however often the
\* service was used: what _load_mcp_details and _load_mcp_formula keep was asked
\* for under the snapshot it is compared with, and no reference is asked for twice.
THEOREM CacheIsOfTheSnapshot == Spec => []AnswersBelongToSnapshot
<1>1. AuditInv => AnswersBelongToSnapshot
  <2> SUFFICES ASSUME AuditInv, InUse
               PROVE  /\ \A answer \in Range(details) : answer[1] = "data" => answer[3] = snapshot.stamp
                      /\ \A answer \in Range(formulas) : answer[1] = "data" => answer[3] = snapshot.stamp
                      /\ \A ref \in DOMAIN asked : asked[ref] <= 1
    BY DEF AnswersBelongToSnapshot, InUse
  <2>1. \A answer \in Range(details) : answer[1] = "data" => answer[3] = snapshot.stamp
    BY DEF AuditInv, ScopeInv, OfScope, Range
  <2>2. \A answer \in Range(formulas) : answer[1] = "data" => answer[3] = snapshot.stamp
    BY DEF AuditInv, ScopeInv, OfScope, Range
  <2>3. \A ref \in DOMAIN asked : asked[ref] <= 1
    BY DEF AuditInv, AskedInv
  <2> QED
    BY <2>1, <2>2, <2>3
<1> QED
  BY <1>1, AuditInvariant, PTL
====
