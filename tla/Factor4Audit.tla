---------------------------- MODULE Factor4Audit ----------------------------
(***************************************************************************)
(* The calculation audit of src/service/factor4_calculation_service.py:    *)
(* one service object runs run_r0_checks, run_result_checks or a check of  *)
(* a snapshot a caller read, one after the other.  In between its requests *)
(* the backend may publish the next batch or change a row, and the MCP     *)
(* server may restart.  The comparison of the formula texts themselves is  *)
(* left out, see FormulaOffsets.                                           *)
(***************************************************************************)
EXTENDS RoutePublication, McpClient

CONSTANTS
  RefOrder,   \* the references that are asked for, sorted
  Targets,    \* the references with a known formula regression
  ChunkSize,  \* references per request (50 in the code)
  Rounds,     \* how often the service is used
  MaxFaults,  \* wrong cells and misbehaviours of the MCP server in all
  Minimums    \* the minimum scores a publication may set

VARIABLES
  pc,       \* the step of the audit
  round,    \* how often the service was used
  mode,     \* which check is run
  db,       \* [active, minimum, fault]: the state of the tables
  faults,   \* the faults so far
  live,     \* the session the MCP server knows
  reads,    \* the snapshots read so far, which number them
  snapshot, \* [stamp, db, data] of the snapshot in use
  scope,    \* self._mcp_cache_scope
  todo,     \* the references still to be asked for
  details,  \* what is kept of each reference: nothing, an error or data
  formulas, \* the same for each formula row
  asked,    \* how often each reference was asked for under this snapshot
  report    \* the status of each part of the last report

auditVars == <<pc, round, mode, db, faults, live, reads, snapshot, scope, todo, details, formulas, asked, report>>
vars == <<auditVars, mcpVars>>

\* What the cache holds of a reference or a formula row.
Absent == <<"absent">>
Error == <<"error">>
Data(of, stamp) == <<"data", of, stamp>>

Parts == {"validity", "scoring", "ranking", "static"}
NoReport == [part \in Parts |-> "none"]
Raised == [part \in Parts |-> "raised"]

NoDetails == [ref \in Range(RefOrder) |-> Absent]
NoFormulas == [id \in 1..4 |-> Absent]

Read(d) == ReadCalculationSnapshot(Tables(d.active, d.minimum, d.fault))
Reread(d) == ReadPublishedRouteSnapshot(Tables(d.active, d.minimum, d.fault))
Current == snapshot.data

Init ==
  /\ McpInit
  /\ pc = "idle" /\ round = 0 /\ mode = "none"
  /\ \E minimum \in Minimums : db = [active |-> 1, minimum |-> minimum, fault |-> NoFault]
  /\ faults = 0 /\ live = 1 /\ reads = 0
  /\ snapshot = Null /\ scope = Null /\ todo = {}
  /\ details = NoDetails /\ formulas = NoFormulas
  /\ asked = [ref \in Range(RefOrder) |-> 0]
  /\ report = NoReport

-----------------------------------------------------------------------------
(* The MCP server.                                                         *)

Envelope(result) == [id |-> "request", version |-> "2.0", result |-> result, error |-> None]

Notification == [id |-> None, version |-> "2.0", result |-> None, error |-> None]

\* A server that knows the session answers, as a stream with a notification before it.
Sound(result) ==
  [status |-> "2xx", media |-> "sse", events |-> <<Notification, Envelope(result)>>, session |-> live]

Rejected == [status |-> "other", media |-> "other", events |-> <<>>, session |-> None]

\* One thing wrong with an answer.
Misanswers(result) ==
  LET sound == Sound(result)
      with(e) == [sound EXCEPT !.events = <<Notification, e>>]
  IN  {NoResponse, Rejected,
       [sound EXCEPT !.status = "other"], [sound EXCEPT !.events = <<Notification>>],
       [sound EXCEPT !.events = <<Envelope(result), Envelope(result)>>],
       with([Envelope(result) EXCEPT !.id = "other"]),
       with([Envelope(result) EXCEPT !.version = "other"]),
       with([Envelope(result) EXCEPT !.error = "error"]),
       with([Envelope(result) EXCEPT !.error = "error", !.result = None])}

\* The responses to a request with these headers and the faults they take.
Responses(headers, result, misresults) ==
  IF headers.session \notin {None, live} THEN {<<Rejected, 0>>}
  ELSE {<<Sound(result), 0>>}
         \cup {<<[Sound(result) EXCEPT !.media = "json", !.events = <<Envelope(result)>>, !.session = None], 0>>}
         \cup {<<r, 1>> : r \in Misanswers(result)}
         \cup {<<Sound(m), 1>> : m \in misresults}

Responds(responses, step(_)) ==
  \E x \in responses : /\ faults + x[2] <= MaxFaults
                       /\ faults' = faults + x[2]
                       /\ step(x[1])

-----------------------------------------------------------------------------
(* The cache.                                                              *)

\* _reset_mcp_cache
ResetCache == details' = NoDetails /\ formulas' = NoFormulas /\ scope' = Null

\* Mutant: what is cached is used for a new snapshot.
EnsureScopeOnce(stamp) ==
  IF scope # Null THEN UNCHANGED <<details, formulas, scope>>
  ELSE details' = NoDetails /\ formulas' = NoFormulas /\ scope' = stamp

\* _ensure_mcp_cache_scope; every snapshot has its own stamp, see _mcp_snapshot_scope.
EnsureScope(stamp) ==
  IF scope = stamp THEN UNCHANGED <<details, formulas, scope>>
  ELSE details' = NoDetails /\ formulas' = NoFormulas /\ scope' = stamp

\* The references of a check that nothing is known of yet.
Unknown(refs) == {ref \in Range(RefOrder) : ref \in refs /\ details[ref] = Absent}

Before(a, b) == \E i, j \in DOMAIN RefOrder : i < j /\ RefOrder[i] = a /\ RefOrder[j] = b

\* The next request asks for the first ChunkSize of them.
Chunk == {ref \in todo : Cardinality({other \in todo : Before(other, ref)}) < ChunkSize}

\* What the items of a batch answer leave of one reference.
StoredItem(ref, items) ==
  LET own == {item \in items : item.ref = ref}
  IN  IF \E item \in own : own = {item} /\ item.data # None
      THEN Data((CHOOSE item \in own : TRUE).data, snapshot.stamp) ELSE Error

\* One request of _load_mcp_details; an answer without items raises.
LoadChunk(answer) ==
  LET lost == IF answer.error = "budget" THEN todo ELSE Chunk
  IN  /\ details' = IF answer.error # None
                    THEN [ref \in DOMAIN details |-> IF ref \in lost THEN Error ELSE details[ref]]
                    ELSE [ref \in DOMAIN details |->
                            IF ref \in Chunk THEN StoredItem(ref, answer.items) ELSE details[ref]]
      /\ todo' = todo \ lost

-----------------------------------------------------------------------------
(* check_formula_static_consistency and the bound formula rows.            *)

Refs(snap) == {i[2] : i \in snap.members} \cup {m.ref : m \in snap.metrics}

RowsOf(snap, ref) == {f \in snap.formulas : f.ref = ref}
MetricsOf(snap, ref) == {m \in snap.metrics : m.ref = ref}

\* The rows of a reference its metrics are bound to; without metrics all of them.
BatchEvidence(snap, ref) ==
  LET metrics == MetricsOf(snap, ref)
  IN  IF metrics = {} THEN RowsOf(snap, ref)
      ELSE UNION {LinkedRows(m, RowsOf(snap, ref)) : m \in {x \in metrics : Bound(x, RowsOf(snap, ref))}}

\* What a bound formula row lacks.
EvidenceIssues(snap, ref) ==
  UNION {Blocked(\A d \in snap.details : d.ref = ref => d.id # f.detail)
           \cup Blocked(formulas[f.id][1] # "data") : f \in BatchEvidence(snap, ref)}

\* What the catalogue, the MCP server and the metrics lack or contradict of a factor.
FactorIssues(snap, ref) ==
  LET rows == RowsOf(snap, ref)
  IN  Blocked(Cardinality({i \in snap.members : i[2] = ref}) # 1)
        \cup Blocked(\A d \in snap.details : d.ref # ref)
        \cup Blocked(details[ref][1] # "data")
        \cup Failed(details[ref][1] = "data" /\ details[ref][2] # ref)
        \cup Blocked(rows = {})
        \cup UNION {MetricFormulaLink(m, rows) : m \in MetricsOf(snap, ref)}
        \cup Blocked(rows # BatchEvidence(snap, ref))

\* _check_formula_consistency, without the comparison of the projections.
FormulaConsistency(snap) ==
  MembershipIssues(snap.differences)
    \cup UNION {FactorIssues(snap, ref) \cup EvidenceIssues(snap, ref) : ref \in Refs(snap)}

\* The formula rows of the checked references that were not asked for yet.
UnknownFormulas(snap) ==
  {f.id : f \in {x \in UNION {BatchEvidence(snap, ref) : ref \in Refs(snap)} : formulas[x.id] = Absent}}

-----------------------------------------------------------------------------
(* The steps.                                                              *)

\* An exception leaves the audit; what the service keeps stays as it is.
Raise == pc' = "idle" /\ todo' = {} /\ report' = Raised

Start(kind) ==
  /\ pc = "idle" /\ round < Rounds /\ db.fault = NoFault
  /\ round' = round + 1 /\ mode' = kind /\ report' = NoReport
  /\ snapshot' = Null

\* run_r0_checks and run_result_checks up to the handshake.
StartRun ==
  /\ \E kind \in {"r0", "result"} : Start(kind)
  /\ ResetCache
  /\ pc' = "initialize"
  /\ UNCHANGED <<db, faults, live, reads, todo, asked, mcpVars>>

\* A caller that checks a snapshot it read itself makes no handshake: there may be a session
\* of an earlier use, none, or one that a check kept which no handshake negotiated.
StartCheck ==
  /\ Start("check")
  /\ pc' = "read"
  /\ UNCHANGED <<db, faults, live, reads, scope, todo, details, formulas, asked, mcpVars>>

Handshake ==
  /\ pc = "initialize"
  /\ Responds(Responses(Headers(FALSE), [protocol |-> "2025-06-18"], {[protocol |-> None]}),
              LAMBDA response :
                /\ Initialize(response)
                /\ IF protocol' = None THEN Raise ELSE pc' = "notify" /\ UNCHANGED <<todo, report>>)
  /\ UNCHANGED <<round, mode, db, live, reads, snapshot, scope, details, formulas, asked>>

Notify ==
  /\ pc = "notify"
  /\ Responds(Responses(Headers(TRUE), None, {}),
              LAMBDA response :
                /\ NotifyInitialized(response)
                /\ IF Notified(response) THEN pc' = "read" /\ UNCHANGED <<todo, report>> ELSE Raise)
  /\ UNCHANGED <<round, mode, db, live, reads, snapshot, scope, details, formulas, asked>>

\* read_calculation_snapshot; then the cache is brought to the new snapshot.
ReadSnapshot ==
  /\ pc = "read"
  /\ reads' = reads + 1
  /\ LET data == Read(db) IN
     IF data = ReadError
     THEN /\ Raise
          /\ UNCHANGED <<snapshot, scope, details, formulas, asked>>
     ELSE /\ snapshot' = [stamp |-> reads + 1, db |-> db, data |-> data]
          /\ EnsureScope(reads + 1)
          /\ asked' = [ref \in DOMAIN asked |-> 0]
          /\ pc' = "details"
          /\ todo' = {ref \in Range(RefOrder) : ref \in Refs(data) /\ details'[ref] = Absent}
          /\ UNCHANGED report
  /\ UNCHANGED <<round, mode, db, faults, live, mcpVars>>

\* The nth item of an answer about a reference.
Item(ref, n, data) == [ref |-> ref, n |-> n, data |-> data]

Items(refs) == {Item(ref, 1, ref) : ref \in refs}

\* What the details tool may answer instead of one item for each reference.
MisItems(refs) ==
  {[error |-> code, items |-> {}] : code \in {"budget", "plain"}}
    \cup {[error |-> None, items |-> Items(refs) \cup {Item("stray", 1, "stray")}]}
    \cup UNION {{[error |-> None, items |-> items] :
                    items \in {Items(refs \ {ref}), Items(refs) \cup {Item(ref, 2, ref)},
                              Items(refs \ {ref}) \cup {Item(ref, 1, "other")},
                              Items(refs \ {ref}) \cup {Item(ref, 1, None)}}} : ref \in refs}

AskDetails ==
  /\ pc \in {"details", "regressions"} /\ todo # {}
  /\ asked' = [ref \in DOMAIN asked |-> asked[ref] + (IF ref \in Chunk THEN 1 ELSE 0)]
  /\ Responds(Responses(Headers(TRUE), [error |-> None, items |-> Items(Chunk)], MisItems(Chunk)),
              LAMBDA response :
                /\ CallTool(response)
                /\ IF Answer(response) = None THEN Raise /\ UNCHANGED details
                   ELSE LoadChunk(Answer(response)) /\ UNCHANGED <<pc, report>>)
  /\ UNCHANGED <<round, mode, db, live, reads, snapshot, scope, formulas>>

DetailsLoaded ==
  /\ pc \in {"details", "regressions"} /\ todo = {}
  /\ pc' = IF pc = "details" THEN "formulas" ELSE "reread"
  /\ UNCHANGED <<round, mode, db, faults, live, reads, snapshot, scope, todo, details, formulas, asked, report, mcpVars>>

\* _load_mcp_formula
AskFormula ==
  /\ pc = "formulas"
  /\ UnknownFormulas(Current) # {}
  /\ LET id == Min(UnknownFormulas(Current)) IN
     Responds(Responses(Headers(TRUE), [error |-> None, data |-> id],
                        {[error |-> "plain", data |-> None], [error |-> None, data |-> None]}),
              LAMBDA response :
                /\ CallTool(response)
                /\ IF Answer(response) = None THEN Raise /\ UNCHANGED formulas
                   ELSE /\ formulas' = [formulas EXCEPT ![id] =
                              IF Answer(response).data = None THEN Error ELSE Data(id, snapshot.stamp)]
                        /\ UNCHANGED <<pc, todo, report>>)
  /\ UNCHANGED <<round, mode, db, live, reads, snapshot, scope, details, asked>>

\* run_r0_checks goes on to the known regressions, whose formulas are then all known.
FormulasLoaded ==
  /\ pc = "formulas" /\ UnknownFormulas(Current) = {}
  /\ pc' = IF mode = "r0" THEN "regressions" ELSE "report"
  /\ todo' = IF mode = "r0" THEN Unknown(Targets) ELSE {}
  /\ UNCHANGED <<round, mode, db, faults, live, reads, snapshot, scope, details, formulas, asked, report, mcpVars>>

Status(findings) == HighestStatus(findings)

\* check_any_valid_scope with the membership findings of run_r0_checks.
Validity(snap) == Status(AnyValidScope(snap.metrics) \cup MembershipIssues(snap.differences))

Scoring(snap) ==
  Status(MembershipIssues(snap.differences)
           \cup RouteScoreRecalculation(snap.batch, snap.metrics, snap.routes))

\* The report of run_result_checks, or of a formula check alone.
Report ==
  /\ pc = "report"
  /\ pc' = "idle"
  /\ report' = [NoReport EXCEPT !.validity = IF mode = "check" THEN "none" ELSE Validity(Current),
                                !.static = Status(FormulaConsistency(Current))]
  /\ UNCHANGED <<round, mode, db, faults, live, reads, snapshot, scope, todo, details, formulas, asked, mcpVars>>

\* The second read of run_r0_checks and its report.
RereadRoutes ==
  /\ pc = "reread"
  /\ LET repeated == Reread(db) IN
     IF repeated = ReadError THEN Raise
     ELSE /\ pc' = "idle"
          /\ report' = [validity |-> Validity(Current), scoring |-> Scoring(Current),
                        ranking |-> Status(RankStability(Current.batch, Current.routes, repeated,
                                                         Current.differences)),
                        static |-> Status(FormulaConsistency(Current))]
          /\ UNCHANGED todo
  /\ UNCHANGED <<round, mode, db, faults, live, reads, snapshot, scope, details, formulas, asked, mcpVars>>

-----------------------------------------------------------------------------
(* The backend and the server.  The tables are looked at by the two reads  *)
(* only, so they change right before a read; a cell goes wrong in the      *)
(* first use of the service.                                               *)

Publish ==
  /\ db.active = 1
  /\ pc = "reread" \/ (pc = "read" /\ db.fault = NoFault)
  /\ db' = [db EXCEPT !.active = 2]
  /\ UNCHANGED <<pc, round, mode, faults, live, reads, snapshot, scope, todo, details, formulas, asked, report, mcpVars>>

\* A wrong cell, before the first read of run_r0_checks or between the two.
Corrupt ==
  /\ faults < MaxFaults /\ db.active = 1
  /\ round = 1 /\ mode = "r0"
  /\ pc \in {"read", "reread"}
  /\ \E fault \in Faults : db' = [db EXCEPT !.fault = fault]
  /\ faults' = faults + 1
  /\ UNCHANGED <<pc, round, mode, live, reads, snapshot, scope, todo, details, formulas, asked, report, mcpVars>>

RestartServer ==
  /\ faults < MaxFaults
  /\ pc \notin {"read", "report", "reread"}
  /\ faults' = faults + 1 /\ live' = live + 1
  /\ UNCHANGED <<pc, round, mode, db, reads, snapshot, scope, todo, details, formulas, asked, report, mcpVars>>

Finished == pc = "idle" /\ (round = Rounds \/ db.fault # NoFault) /\ UNCHANGED vars

Next ==
  \/ StartRun \/ StartCheck \/ Handshake \/ Notify \/ ReadSnapshot
  \/ AskDetails \/ DetailsLoaded \/ AskFormula \/ FormulasLoaded
  \/ Report \/ RereadRoutes
  \/ Publish \/ Corrupt \/ RestartServer
  \/ Finished

Spec == Init /\ [][Next]_vars

-----------------------------------------------------------------------------
(* Properties.                                                             *)

\* A use of the service ends, with a report or an exception.
Ends == pc # "idle" /\ pc' = "idle"

\* A rounding that is not documented decides whether a route of score .35 or .15 is admitted.
MidpointDecides(minimum) ==
  \E f \in {"b", "c"} : /\ AtLeast(Result[f].score, minimum)
                        /\ ~AtLeast([Result[f].score EXCEPT !.n = @ - 1], minimum)

\* What the tables deserve when no cell is wrong; a publication in between is no failure.
SoundReport ==
  [NoReport EXCEPT
     !.static = "PASS",
     !.validity = IF mode = "check" THEN "none" ELSE "PASS",
     !.scoring = IF mode # "r0" THEN "none"
                 ELSE IF MidpointDecides(db.minimum) THEN "BLOCKED_DOC" ELSE "PASS",
     !.ranking = IF mode # "r0" THEN "none"
                 ELSE IF snapshot.db.active # db.active THEN "BLOCKED_DATA_PRECONDITION" ELSE "BLOCKED_DOC"]

\* Sound tables and sound answers: the audit finds nothing, except what the undocumented
\* rounding and the undocumented order of ties leave open, and a publication between the
\* two reads blocks the ranking and is no failure (run_r0_checks, run_result_checks).
SoundIsReported == [][Ends /\ faults' = 0 => report' = SoundReport]_vars

Worse(part) == StatusPriority(report'[part]) > StatusPriority(SoundReport[part])

\* One wrong cell, missing or doubled row of the published batch makes run_r0_checks raise
\* or report a worse status than the sound tables get, exactly if it is no BlindSpot.
WrongFieldNoticed ==
  [][Ends /\ db.fault # NoFault /\ (snapshot = Null \/ snapshot.db.fault # NoFault)
       => ~BlindSpot(db.fault, db.minimum) <=> (report' = Raised \/ \E part \in Parts : Worse(part))]_vars

\* What is ranked by the second read, and where.
RankedRows(d) ==
  {<<r.id, r.rank, r.ref, r.version, r.score, r.metric, r.kind, r.label, r.date, r.as_of>> : r \in Reread(d).routes}

\* check_rank_stability fails exactly if a ranked row changed between the two reads of one
\* publication; after a new publication there is nothing to compare.
ChangeIsTold ==
  [][RereadRoutes /\ report' # Raised /\ snapshot.db.fault = NoFault
       => (report'.ranking = "FAIL"
             <=> /\ Reread(db).identity = Reread(snapshot.db).identity
                 /\ RankedRows(db) # RankedRows(snapshot.db))]_vars

\* What is cached of the MCP server was asked for under the snapshot it is held against,
\* and no reference is asked for twice (_ensure_mcp_cache_scope, _load_mcp_details).
AnswersBelongToSnapshot ==
  pc \in {"details", "formulas", "regressions", "report", "reread"}
    => /\ \A answer \in Range(details) : answer[1] = "data" => answer[3] = snapshot.stamp
       /\ \A answer \in Range(formulas) : answer[1] = "data" => answer[3] = snapshot.stamp
       /\ \A ref \in DOMAIN asked : asked[ref] <= 1
=============================================================================
