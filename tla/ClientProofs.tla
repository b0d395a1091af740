----------------------------- MODULE ClientProofs -----------------------------
(***************************************************************************)
(* The two clients every test uses: HTTPClient.request for every number of *)
(* retries, negative ones included, and DatabaseClient for any number of   *)
(* statements in a transaction.                                            *)
(***************************************************************************)
EXTENDS HttpClient, DatabaseClient, FiniteSetTheorems, TLAPS

-----------------------------------------------------------------------------
(* The request loop.                                                       *)

\* The attempts sent are exactly the first ones, and a request that may not be
\* replayed never leaves the first.
AttemptInv ==
    /\ attempt < Attempts
    /\ sent = IF pc = "send" THEN 0..(attempt - 1) ELSE 0..attempt
    /\ ~RequestIsRetryable(call) => attempt = 0

\* A call that ended without a final answer had no attempt left.
EndInv ==
    /\ result # "exhausted"
    /\ pc = "done" /\ (result # "response" \/ answer = "transient") =>
           ~ShouldRetry(call, attempt)

HttpInv == TypeOK /\ AttemptInv /\ EndInv

\* There is always at least one attempt (max(retry_attempts, 0) + 1).
LEMMA AttemptsPositive == Attempts \in Nat \ {0}
  BY HttpAssumption DEF HttpAssumption, Attempts

\* The call of request: the loop has not started.
LEMMA HttpInvInit == Init => HttpInv
  <1> SUFFICES ASSUME Init PROVE HttpInv
    OBVIOUS
  <1>1. TypeOK
    BY AttemptsPositive DEF Init, TypeOK
  <1>2. AttemptInv
    <2>1. 0..(0 - 1) = {}
      OBVIOUS
    <2> QED BY <2>1, AttemptsPositive DEF Init, AttemptInv
  <1>3. EndInv
    BY DEF Init, EndInv, Undecided
  <1> QED BY <1>1, <1>2, <1>3 DEF HttpInv

\* Every step of the client and of the server keeps the invariant.
LEMMA HttpInvNext == HttpInv /\ [Next]_vars => HttpInv'
  <1> SUFFICES ASSUME HttpInv, [Next]_vars PROVE HttpInv'
    OBVIOUS
  <1> USE AttemptsPositive DEF HttpInv, TypeOK, AttemptInv, EndInv
  <1>1. CASE Send
    <2>1. sent' = 0..attempt
      BY <1>1 DEF Send
    <2>2. TypeOK' /\ AttemptInv'
      BY <1>1, <2>1 DEF Send
    <2>3. EndInv'
      BY <1>1 DEF Send
    <2> QED BY <2>2, <2>3
  <1>2. CASE TransportError
    BY <1>2 DEF TransportError
  <1>3. CASE Response
    BY <1>3 DEF Response, Statuses, NoAnswer
  <1>4. CASE Retry
    <2>1. attempt + 1 < Attempts
      BY <1>4 DEF Retry, ShouldRetry
    <2>2. pc' = "send" /\ result' = result /\ attempt' = attempt + 1
      BY <1>4, <2>1 DEF Retry
    <2>3. sent' = 0..(attempt' - 1)
      BY <1>4, <2>2 DEF Retry
    <2>4. RequestIsRetryable(call') /\ call' = call
      BY <1>4 DEF Retry, ShouldRetry
    <2> QED BY <1>4, <2>1, <2>2, <2>3, <2>4 DEF Retry
  <1>5. CASE GiveUp
    BY <1>5 DEF GiveUp, ShouldRetry, Undecided
  <1>6. CASE AnsweredUnprocessed
    BY <1>6 DEF AnsweredUnprocessed
  <1>7. ASSUME NEW k \in 0..(Attempts - 1), Process(k) PROVE HttpInv'
    BY <1>7 DEF Process
  <1>8. CASE Terminated \/ UNCHANGED vars
    BY <1>8 DEF Terminated, vars, ShouldRetry, RequestIsRetryable
  <1> QED
    BY <1>1, <1>2, <1>3, <1>4, <1>5, <1>6, <1>7, <1>8 DEF Next, ClientNext

\* The loop invariant of request holds throughout.
THEOREM HttpInvariant == Spec => []HttpInv
  BY HttpInvInit, HttpInvNext, PTL DEF Spec

\* Type correctness of the request loop.
THEOREM HttpTypeCorrect == Spec => []TypeOK
  <1>1. HttpInv => TypeOK
    BY DEF HttpInv
  <1> QED BY <1>1, HttpInvariant, PTL

\* Whatever retry_attempts is, a creating POST takes effect at most once.
THEOREM PostTakesEffectOnce == Spec => []CreatesAtMostOnce
  <1>1. HttpInv => CreatesAtMostOnce
    <2> SUFFICES ASSUME HttpInv, call.method = "POST", call.retryable # "yes"
                 PROVE  Cardinality(effects) <= 1
      BY DEF CreatesAtMostOnce
    <2>1. ~RequestIsRetryable(call)
      BY DEF RequestIsRetryable, IdempotentMethods
    <2>2. attempt = 0
      BY <2>1 DEF HttpInv, AttemptInv
    <2>3. sent \subseteq {0}
      BY <2>2 DEF HttpInv, AttemptInv
    <2>4. effects \subseteq {0}
      BY <2>3 DEF HttpInv, TypeOK
    <2>5. IsFiniteSet({0}) /\ Cardinality({0}) = 1
      BY FS_Singleton
    <2> QED BY <2>4, <2>5, FS_Subset
  <1> QED BY <1>1, HttpInvariant, PTL

\* A replayable call uses its whole budget of attempts before it fails.
THEOREM WholeBudgetUsed == Spec => []FailsOnlyAfterAllAttempts
  <1>1. HttpInv => FailsOnlyAfterAllAttempts
    BY AttemptsPositive
       DEF HttpInv, TypeOK, AttemptInv, EndInv, FailsOnlyAfterAllAttempts, ShouldRetry
  <1> QED BY <1>1, HttpInvariant, PTL

\* The RuntimeError after the loop is unreachable.
THEOREM LoopNeverFallsThrough == Spec => []NeverExhausted
  <1>1. HttpInv => NeverExhausted
    BY DEF HttpInv, EndInv, NeverExhausted
  <1> QED BY <1>1, HttpInvariant, PTL

\* The loop makes exactly the attempts the settings allow.
THEOREM ExactBudget == Spec => []WholeBudget
  BY WholeBudgetUsed, LoopNeverFallsThrough, PTL DEF WholeBudget

-----------------------------------------------------------------------------
(* One transaction.                                                        *)

\* The exception on its way is the one that made the transaction fail, and it
\* tells where the with statement can be.
ErrorInv ==
    /\ error = cause
    /\ at \in {"connect", "end"} => error = NoError
    /\ at \in {"end", "rollback"} => ~query
    /\ at = "rollback" => error # NoError
    /\ at = "body" => error \notin {"commit", "close", "rollback", "connect"}
    /\ at = "cursor" => error \in {NoError, "statement", "permission"}
    /\ at \in {"rollback", "close"} => error \notin {"close", "connect"}
    /\ at = "done" => error = "connect" \/ closes = 1
    /\ at # "done" => closes = 0

\* Nothing is durable before the commit; after it the error tells how much is.
StoreInv ==
    /\ at \in {"connect", "body", "cursor", "end"} => durable = {}
    /\ error \notin {NoError, "commit", "close"} => durable = {}
    /\ at \in {"close", "done"} /\ error \in {NoError, "close"} =>
           query \/ readOnly \/ durable = changed
    /\ readOnly \/ query => durable = {}
    /\ durable \subseteq changed

DbInv == DbTypeOK /\ ErrorInv /\ StoreInv

\* The transaction has not connected yet.
LEMMA DbInvInit == DbInit => DbInv
  BY DatabaseAssumption
     DEF DatabaseAssumption, DbInit, DbInv, DbTypeOK, ErrorInv, StoreInv, NoError, Errors

\* Every call of the driver and every choice of the body keeps the invariant.
LEMMA DbInvNext == DbInv /\ [DbNext]_dbVars => DbInv'
  <1> SUFFICES ASSUME DbInv, [DbNext]_dbVars PROVE DbInv'
    OBVIOUS
  <1> USE DatabaseAssumption
      DEF DatabaseAssumption, DbInv, DbTypeOK, ErrorInv, StoreInv, NoError, Errors, Fail
  <1>1. CASE Connect
    BY <1>1 DEF Connect
  <1>2. ASSUME NEW k \in Statements, Execute(k) PROVE DbInv'
    <2>0. /\ UNCHANGED <<query, readOnly, durable, closes>>
          /\ at = "body" /\ error = NoError /\ n < MaxStatements
          /\ n' = n + 1 /\ at' = "cursor"
          /\ \/ UNCHANGED <<error, cause>>
             \/ error' = "statement" /\ cause' = "statement"
             \/ error' = "permission" /\ cause' = "permission"
          /\ changed' = changed \/ changed' = changed \cup {n + 1}
          /\ taken' = taken \/ taken' = taken \cup {n + 1}
          /\ mode' = mode \/ mode' = "read_write"
      BY <1>2, Zenon DEF Execute, Served
    <2>1. DbTypeOK'
      <3>1. query' \in BOOLEAN /\ readOnly' \in BOOLEAN
        BY <2>0, Zenon
      <3>2. /\ n' \in 0..MaxStatements
            /\ changed' \subseteq 1..MaxStatements /\ taken' \subseteq 1..MaxStatements
        <4>1. n + 1 \in 1..MaxStatements
          BY <2>0
        <4>2. n' \in 0..MaxStatements
          BY <2>0, <4>1
        <4>3. changed' \subseteq 1..MaxStatements
          BY <2>0, <4>1
        <4>4. taken' \subseteq 1..MaxStatements
          BY <2>0, <4>1
        <4> QED BY <4>2, <4>3, <4>4
      <3>3. error' \in Errors \cup {NoError} /\ cause' \in Errors \cup {NoError}
        BY <2>0
      <3> QED BY <2>0, <3>1, <3>2, <3>3
    <2>2. ErrorInv'
      BY <2>0
    <2>3. StoreInv'
      BY <2>0
    <2> QED BY <2>1, <2>2, <2>3
  <1>3. CASE CloseCursor
    <2>1. DbTypeOK'
      BY <1>3 DEF CloseCursor
    <2>2. ErrorInv' /\ StoreInv'
      BY <1>3 DEF CloseCursor
    <2> QED BY <2>1, <2>2
  <1>4. CASE BodyCatches
    <2>1. DbTypeOK'
      BY <1>4 DEF BodyCatches
    <2>2. ErrorInv' /\ StoreInv'
      BY <1>4 DEF BodyCatches
    <2> QED BY <2>1, <2>2
  <1>5. CASE BodyRaises
    <2>1. DbTypeOK'
      BY <1>5 DEF BodyRaises
    <2>2. ErrorInv' /\ StoreInv'
      BY <1>5 DEF BodyRaises
    <2> QED BY <2>1, <2>2
  <1>6. CASE BodyEnds
    <2>1. DbTypeOK'
      BY <1>6 DEF BodyEnds
    <2>2. ErrorInv' /\ StoreInv'
      BY <1>6 DEF BodyEnds
    <2> QED BY <2>1, <2>2
  <1>7. CASE Commit
    <2>1. DbTypeOK'
      BY <1>7 DEF Commit
    <2>2. ErrorInv' /\ StoreInv'
      BY <1>7 DEF Commit
    <2> QED BY <2>1, <2>2
  <1>8. CASE RollbackReadOnly
    <2>1. DbTypeOK'
      BY <1>8 DEF RollbackReadOnly
    <2>2. ErrorInv' /\ StoreInv'
      BY <1>8 DEF RollbackReadOnly
    <2> QED BY <2>1, <2>2
  <1>9. CASE Rollback
    <2>1. DbTypeOK'
      BY <1>9 DEF Rollback
    <2>2. ErrorInv' /\ StoreInv'
      BY <1>9 DEF Rollback
    <2> QED BY <2>1, <2>2
  <1>10. CASE Close
    <2>1. DbTypeOK'
      BY <1>10 DEF Close
    <2>2. ErrorInv' /\ StoreInv'
      BY <1>10 DEF Close
    <2> QED BY <2>1, <2>2
  <1>11. CASE DbTerminated \/ UNCHANGED dbVars
    <2>1. UNCHANGED dbVars
      BY <1>11 DEF DbTerminated
    <2>2. DbTypeOK'
      BY <2>1, Zenon DEF dbVars
    <2>3. ErrorInv'
      BY <2>1 DEF dbVars
    <2>4. StoreInv'
      BY <2>1 DEF dbVars
    <2> QED BY <2>2, <2>3, <2>4
  <1> QED
    BY <1>1, <1>2, <1>3, <1>4, <1>5, <1>6, <1>7, <1>8, <1>9, <1>10, <1>11 DEF DbNext

\* The invariant holds throughout a transaction.
THEOREM DbInvariant == DbSpec => []DbInv
  BY DbInvInit, DbInvNext, PTL DEF DbSpec

\* What a successful transaction changed is stored, unless it is read-only, and
\* its connection closed.
THEOREM StoredAsReported == DbSpec => []SuccessIsDurable
  <1>1. DbInv => SuccessIsDurable
    BY DEF DbInv, ErrorInv, StoreInv, SuccessIsDurable, NoError
  <1> QED BY <1>1, DbInvariant, PTL

\* A failed statement or body stores nothing.
THEOREM NothingStoredOnFailure == DbSpec => []FailedBodyStoresNothing
  <1>1. DbInv => FailedBodyStoresNothing
    BY DEF DbInv, StoreInv, FailedBodyStoresNothing
  <1> QED BY <1>1, DbInvariant, PTL

\* The caller sees the first failure, never one of the clean-up behind it.
THEOREM CauseReachesCaller == DbSpec => []PrimaryErrorKept
  <1>1. DbInv => PrimaryErrorKept
    BY DEF DbInv, ErrorInv, PrimaryErrorKept
  <1> QED BY <1>1, DbInvariant, PTL

\* What is stored agrees with what the caller is told.
THEOREM CallerKnowsWhatIsStored == DbSpec => []StoredAsTold
  BY StoredAsReported, NothingStoredOnFailure, PTL DEF StoredAsTold
=============================================================================
