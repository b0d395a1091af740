---------------------------- MODULE DatabaseClient ----------------------------
(***************************************************************************)
(* DatabaseClient and DatabaseTransaction (db/client.py): one transaction, *)
(* or one query outside a transaction, from the connection to its close,   *)
(* where every call of the driver may fail, clean-up calls included, and   *)
(* where the body of the with statement may handle the error of a          *)
(* statement and go on.                                                    *)
(*                                                                         *)
(* A statement is the sequence of the parts _SQL_PARTS finds in it, and    *)
(* what the server does when it executes it, which the client cannot see.  *)
(* The driver and the server are external.                                 *)
(***************************************************************************)
EXTENDS Naturals, Sequences

CONSTANTS MaxStatements,  \* bound on the statements of one transaction
          Statements      \* statements a caller may pass

\* "write" changes rows, which the server refuses in a read-only session; it does
\* not refuse to take a lock, to write a file or to set a user variable ("take"),
\* nor to leave the read-only mode ("lift").
Effects == {"read", "write", "take", "lift"}

ASSUME DatabaseAssumption ==
    /\ MaxStatements \in Nat
    /\ Statements \subseteq [tokens: Seq(STRING), does: Effects]

VARIABLES query,     \* fetch_one or fetch_all of the client: one statement, no transaction
          readOnly,  \* the client was made read-only
          at,        \* where the with statement is
          mode,      \* access mode of the session
          n,         \* statements started
          changed,   \* statements that changed rows in the transaction
          taken,     \* statements that took a lock, wrote a file, ...
          durable,   \* statements whose changes survive the transaction
          error,     \* the exception being propagated
          cause,     \* history: the failure that made the transaction fail
          closes     \* calls of connection.close

dbVars == <<query, readOnly, at, mode, n, changed, taken, durable, error, cause, closes>>

NoError == "none"
\* Where an exception comes from; the body may also raise its own.
Errors == {"connect", "statement", "permission", "cursor_close", "body",
           "commit", "rollback", "close"}

DbTypeOK ==
    /\ query \in BOOLEAN
    /\ readOnly \in BOOLEAN
    /\ at \in {"connect", "body", "cursor", "end", "rollback", "close", "done"}
    /\ mode \in {"read_write", "read_only"}
    /\ n \in 0..MaxStatements
    /\ changed \subseteq 1..MaxStatements
    /\ taken \subseteq 1..MaxStatements
    /\ durable \subseteq 1..MaxStatements
    /\ error \in Errors \cup {NoError}
    /\ cause \in Errors \cup {NoError}
    /\ closes \in 0..1

DbInit ==
    /\ query \in BOOLEAN
    /\ readOnly \in BOOLEAN
    /\ at = "connect"
    /\ mode = "read_write"
    /\ n = 0
    /\ changed = {}
    /\ taken = {}
    /\ durable = {}
    /\ error = NoError
    /\ cause = NoError
    /\ closes = 0

-----------------------------------------------------------------------------
\* A primary failure: it is what the caller must see.
Fail(e) == error' = e /\ cause' = e

\* A read-only session is set up with the connection; when that fails, the
\* factory closes the connection and raises.
Connect ==
    /\ at = "connect"
    /\ \/ /\ at' = "body"
          /\ mode' = IF readOnly THEN "read_only" ELSE "read_write"
          /\ UNCHANGED <<error, cause, closes>>
       \/ /\ at' = "done" /\ Fail("connect")
          /\ closes' \in IF readOnly THEN {0, 1} ELSE {0}
          /\ UNCHANGED mode
    /\ UNCHANGED <<query, readOnly, n, changed, taken, durable>>

-----------------------------------------------------------------------------
(* _require_read_only_sql.                                                 *)

Controls ==
    {<<"SET", "TRANSACTION", "ISOLATION", "LEVEL", "REPEATABLE", "READ">>,
     <<"SET", "TRANSACTION", "READ", "ONLY">>,
     <<"START", "TRANSACTION", "WITH", "CONSISTENT", "SNAPSHOT">>,
     <<"START", "TRANSACTION", "WITH", "CONSISTENT", "SNAPSHOT", ",", "READ", "ONLY">>,
     <<"START", "TRANSACTION", "READ", "ONLY">>,
     <<"ROLLBACK">>}

QueryWords == {"SELECT", "WITH", "SHOW", "DESCRIBE", "DESC"}
Prohibited ==
    {"INSERT", "UPDATE", "DELETE", "REPLACE", "CREATE", "ALTER", "DROP", "TRUNCATE", "GRANT",
     "REVOKE", "CALL", "INTO", "OUTFILE", "DUMPFILE", "GET_LOCK", "RELEASE_LOCK", "RELEASE_ALL_LOCKS"}
ProhibitedPhrases == {<<"FOR", "SHARE">>, <<"LOCK", "IN", "SHARE", "MODE">>, <<":", "=">>}

Words(t) == {t[i] : i \in DOMAIN t}
Contains(t, phrase) ==
    \E i \in 1..(Len(t) - Len(phrase) + 1) : SubSeq(t, i, i + Len(phrase) - 1) = phrase

\* Comments are dropped, and a final semicolon.
NotComment(part) == part # "comment"
WithoutEnd(t) == IF t # <<>> /\ t[Len(t)] = ";" THEN SubSeq(t, 1, Len(t) - 1) ELSE t
Significant(t) == WithoutEnd(SelectSeq(t, NotComment))


\* The statement as a whole.
IsControl(t) == t \in Controls

IsQuery(t) ==
    /\ t[1] \in QueryWords
    /\ Words(t) \cap Prohibited = {}
    /\ \A phrase \in ProhibitedPhrases : ~Contains(t, phrase)

AllowedSql(tokens) ==
    LET t == Significant(tokens)
    IN  /\ "executable comment" \notin Words(tokens)
        /\ t # <<>>
        /\ ";" \notin Words(t)
        /\ IsControl(t) \/ IsQuery(t)

Allowed(k) == readOnly => AllowedSql(k.tokens)

-----------------------------------------------------------------------------
(* The body of the with statement.                                         *)

\* The server executes a statement, or refuses to write in a read-only session.
Served(k) ==
    /\ k.does = "write" => mode = "read_write"
    /\ changed' = IF k.does = "write" THEN changed \cup {n + 1} ELSE changed
    /\ taken' = IF k.does = "take" THEN taken \cup {n + 1} ELSE taken
    /\ mode' = IF k.does = "lift" THEN "read_write" ELSE mode

\* A cursor is opened and the statement executed; either may fail, a failed
\* statement changes nothing.  The cursor is closed in any case.  The clients
\* that may write pass plain reads and writes.
Execute(k) ==
    /\ at = "body"
    /\ error = NoError
    /\ n < MaxStatements
    /\ query => n = 0
    /\ ~readOnly => k.does \in {"read", "write"}
    /\ n' = n + 1
    /\ at' = "cursor"
    /\ \/ Allowed(k) /\ Served(k) /\ UNCHANGED <<error, cause>>
       \/ Allowed(k) /\ Fail("statement") /\ UNCHANGED <<mode, changed, taken>>
       \/ ~Allowed(k) /\ Fail("permission") /\ UNCHANGED <<mode, changed, taken>>
    /\ UNCHANGED <<query, readOnly, durable, closes>>

\* _cleanup_after(cursor.close): its failure is an error of the statement only
\* when the statement had none.
CloseCursor ==
    /\ at = "cursor"
    /\ at' = "body"
    /\ \/ UNCHANGED <<error, cause>>
       \/ error = NoError /\ Fail("cursor_close")
    /\ UNCHANGED <<query, readOnly, mode, n, changed, taken, durable, closes>>

\* The body of the with statement handles an error and goes on.
BodyCatches ==
    /\ at = "body"
    /\ ~query
    /\ error # NoError
    /\ error' = NoError
    /\ cause' = NoError
    /\ UNCHANGED <<query, readOnly, at, mode, n, changed, taken, durable, closes>>

BodyRaises ==
    /\ at = "body"
    /\ at' = IF query THEN "close" ELSE "rollback"
    /\ \/ error # NoError /\ UNCHANGED <<error, cause>>
       \/ ~query /\ error = NoError /\ Fail("body")
    /\ UNCHANGED <<query, readOnly, mode, n, changed, taken, durable, closes>>

BodyEnds ==
    /\ at = "body"
    /\ error = NoError
    /\ query => n = 1
    /\ at' = IF query THEN "close" ELSE "end"
    /\ UNCHANGED <<query, readOnly, mode, n, changed, taken, durable, error, cause, closes>>

CommitForgotten ==
    /\ at = "end"
    /\ ~readOnly
    /\ at' = "close"
    /\ UNCHANGED <<query, readOnly, mode, n, changed, taken, durable, error, cause, closes>>

\* commit; when it fails, what the server did with the transaction is unknown.
Commit ==
    /\ at = "end"
    /\ ~readOnly
    /\ \/ durable' = changed /\ at' = "close" /\ UNCHANGED <<error, cause>>
       \/ durable' \in {{}, changed} /\ at' = "rollback" /\ Fail("commit")
    /\ UNCHANGED <<query, readOnly, mode, n, changed, taken, closes>>

\* A read-only transaction ends with a rollback, whose failure counts.
RollbackReadOnly ==
    /\ at = "end"
    /\ readOnly
    /\ \/ at' = "close" /\ UNCHANGED <<error, cause>>
       \/ at' = "rollback" /\ Fail("rollback")
    /\ UNCHANGED <<query, readOnly, mode, n, changed, taken, durable, closes>>

RollbackErrorWins ==
    /\ at = "rollback"
    /\ at' = "close"
    /\ error' \in {error, "rollback"}
    /\ UNCHANGED <<query, readOnly, mode, n, changed, taken, durable, cause, closes>>

\* _cleanup_during_error(connection.rollback): a failure is dropped, and the
\* server rolls back when the connection goes.
Rollback ==
    /\ at = "rollback"
    /\ at' = "close"
    /\ UNCHANGED <<query, readOnly, mode, n, changed, taken, durable, error, cause, closes>>

\* _cleanup_after(connection.close): its failure counts only after success.
Close ==
    /\ at = "close"
    /\ at' = "done"
    /\ closes' = closes + 1
    /\ \/ UNCHANGED <<error, cause>>
       \/ error = NoError /\ Fail("close")
    /\ UNCHANGED <<query, readOnly, mode, n, changed, taken, durable>>

DbTerminated == at = "done" /\ UNCHANGED dbVars

DbNext == \/ Connect \/ CloseCursor \/ BodyCatches \/ BodyRaises \/ BodyEnds
          \/ Commit \/ RollbackReadOnly \/ Rollback \/ Close \/ DbTerminated
          \/ \E k \in Statements : Execute(k)

DbSpec == DbInit /\ [][DbNext]_dbVars

-----------------------------------------------------------------------------
\* The caller sees the failure that made the transaction fail: no failing
\* rollback, cursor.close or connection.close hides it, and a failure after
\* success is not dropped.
PrimaryErrorKept == at = "done" => error = cause

\* A transaction that returns normally has stored every change of its
\* statements, those included whose error the body handled; a read-only one and a
\* query outside a transaction, which is never committed, have stored none.
SuccessIsDurable ==
    at = "done" /\ error = NoError =>
        /\ durable = IF query \/ readOnly THEN {} ELSE changed
        /\ closes = 1

\* A transaction whose body or statement failed has stored nothing; only an
\* error of commit or of close leaves the caller in doubt.
FailedBodyStoresNothing ==
    at = "done" /\ error \notin {NoError, "commit", "close"} => durable = {}

\* What DatabaseTransaction stored agrees with what its caller is told, whichever
\* of the driver's calls failed.
StoredAsTold == SuccessIsDurable /\ FailedBodyStoresNothing

=============================================================================
