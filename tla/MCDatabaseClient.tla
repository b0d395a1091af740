-------------------------- MODULE MCDatabaseClient --------------------------
(* DatabaseClient, for TLC: statements of each kind the classification tells  *)
(* apart, in the spellings it has to see through.                             *)
EXTENDS DatabaseClient

Reads ==
    {<<"SELECT", "ID", "FROM", "T", ";">>,
     <<"comment", "SELECT", "comment", "NAME", "FROM", "T", "WHERE", "NAME", "=", "<quoted>">>,
     <<"WITH", "R", "AS", "(", "SELECT", ")", "SELECT", "*", "FROM", "R">>,
     <<"SHOW", "COLUMNS", "FROM", "T">>}

\* Statements that change rows: by their first word, behind WITH, as a second
\* statement, and in a function that a SELECT calls.
Writes ==
    {<<"DELETE", "FROM", "T">>,
     <<"WITH", "R", "AS", "(", "SELECT", ")", "DELETE", "FROM", "T">>,
     <<"SELECT", "ID", "FROM", "T", ";", "comment", "DELETE", "FROM", "T">>,
     <<"SELECT", "WRITE_LOG", "(", ")">>}

\* The executable comment may hold any of the others.
Takes ==
    {<<"SELECT", "ID", "FROM", "T", "executable comment">>,
     <<"SELECT", "ID", "FROM", "T", "FOR", "UPDATE">>,
     <<"SELECT", "ID", "FROM", "T", "FOR", "comment", "SHARE">>,
     <<"SELECT", "ID", "FROM", "T", "LOCK", "IN", "SHARE", "MODE", ";">>,
     <<"SELECT", "GET_LOCK", "(", "<quoted>", ",", "1", ")">>,
     <<"SELECT", "ID", "INTO", "OUTFILE", "<quoted>", "FROM", "T">>,
     <<"SELECT", "@", "A", ":", "=", "1">>}

Lifts ==
    {<<"START", "TRANSACTION", "READ", "WRITE">>,
     <<"SET", "SESSION", "TRANSACTION", "READ", "WRITE">>,
     <<"SHOW", "TABLES", ";", "SET", "SESSION", "TRANSACTION", "READ", "WRITE">>}

Catalogue ==
    [tokens: Reads \cup Controls, does: {"read"}] \cup [tokens: Writes, does: {"write"}]
        \cup [tokens: Takes, does: {"take"}] \cup [tokens: Lifts, does: {"lift"}]
=============================================================================
