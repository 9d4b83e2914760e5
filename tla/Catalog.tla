------------------------------- MODULE Catalog -------------------------------
(***************************************************************************)
(* The catalog functions (odbc_catalog.cpp) and queries of the statements  *)
(* of one connection, each on a thread of its own, through the client they *)
(* share (pinot_client.cpp), while tables come, change and go.             *)
(*                                                                         *)
(* SQLColumns asks the controller for the names of the tables, then for    *)
(* the schema of one after the other; any of the requests may fail.  The   *)
(* client has one curl handle: a request resets it, sets its options and   *)
(* performs it, with the mutex held.  A statement's own mutex is held from *)
(* Begin to the end, so a statement is one actor.                          *)
(*                                                                         *)
(* A schema is well formed whenever the controller answers 2xx with JSON.  *)
(***************************************************************************)
EXTENDS Integers, Sequences, FiniteSets

CONSTANTS
    Stmts, NoStmt,    \* statements of the connection; nobody
    Tables,           \* names a table may have
    TablePatterns,    \* what a table pattern may match: sets of tables
    Schemas,          \* schemas a table may have
    NoSchema,         \* of a table that does not exist
    ColumnPatterns,   \* what a column pattern may match: sets of fields
    ConnectTimeout,   \* Config's timeoutSec
    QueryTimeouts,    \* SQL_ATTR_QUERY_TIMEOUT of a query, 0 for none
    Asks              \* bound: the functions each statement calls

ASSUME CatalogAssumption ==
    /\ NoStmt \notin Stmts /\ NoSchema \notin Schemas
    /\ TablePatterns \subseteq SUBSET Tables
    /\ DOMAIN Asks = Stmts
    /\ ConnectTimeout \in Nat \ {0} /\ QueryTimeouts \subseteq Nat
    /\ {"none", "list", "query"} \cap Tables = {}
    /\ \A sch \in Schemas :
        \A part \in {"dimension", "metric", "dateTime", "primaryKey"} :
            sch[part] \in Seq(STRING)

VARIABLES
    db,        \* the controller's tables
    busy,      \* who holds the client's mutex
    curl,      \* the options set on the curl handle
    call,      \* what each statement is doing
    result,    \* each statement's result set and last return code
    during     \* history: what each table has been since the call began

vars == <<db, busy, curl, call, result, during>>

States == Schemas \cup {NoSchema}

\* A request: its method, what it is for and its timeout.
Request(method, target, timeout) ==
    [method |-> method, target |-> target, timeout |-> timeout]
NoRequest == Request("none", "none", 0)

NoResult == [open |-> FALSE, rows |-> {}, rc |-> "none"]

\* fn and arguments of a call, the tables still to ask for and the rows made.
Idle == [fn |-> "none", pc |-> "idle", tables |-> {}, columns |-> {},
         request |-> NoRequest, todo |-> {}, rows |-> {}]

Init ==
    /\ db \in [Tables -> States]
    /\ busy = NoStmt
    /\ curl = NoRequest
    /\ call = [s \in Stmts |-> Idle]
    /\ result = [s \in Stmts |-> NoResult]
    /\ during = [s \in Stmts |-> [t \in Tables |-> {}]]

-----------------------------------------------------------------------------
(* Rows *)

\* fieldsFromSchema: dimensions, then metrics, then date-times.
FieldsFromSchema(sch) == sch.dimension \o sch.metric \o sch.dateTime

\* The controller accepts no schema that has a field twice.
ASSUME FieldsAssumption ==
    \A sch \in Schemas : \A i, j \in 1..Len(FieldsFromSchema(sch)) :
        FieldsFromSchema(sch)[i] = FieldsFromSchema(sch)[j] => i = j

\* The rows SQLColumns adds for a table: every field counts in the ordinal,
\* also those the column pattern leaves out.  In the variant only those count
\* that are returned.
CountMatchesOnly(t, sch, pattern) ==
    LET f == FieldsFromSchema(sch)
        hits == {i \in DOMAIN f : f[i] \in pattern}
    IN  {<<t, f[i], Cardinality({j \in hits : j <= i})>> : i \in hits}

ColumnRows(t, sch, pattern) ==
    LET f == FieldsFromSchema(sch) IN
    {<<t, f[i], i>> : i \in {j \in DOMAIN f : f[j] \in pattern}}

KeyRows(t, sch) == {<<t, sch.primaryKey[i], i>> : i \in DOMAIN sch.primaryKey}

-----------------------------------------------------------------------------
(* The beginning of a call *)

Get(target) == Request("GET", target, ConnectTimeout)

\* Rows of an earlier call are told apart no further.
Earlier == {<<"earlier">>}

Enter(s, c, open) ==
    /\ call[s].pc = "idle" /\ c.fn \in Asks[s]
    /\ call' = [call EXCEPT ![s] = c]
    /\ result' = [result EXCEPT ![s] = [NoResult EXCEPT !.open = open,
                                           !.rows = IF open THEN Earlier ELSE {}]]
    /\ during' = [during EXCEPT ![s] = [t \in Tables |-> {db[t]}]]
    /\ UNCHANGED <<db, busy, curl>>

\* tables: what the table pattern matches.
SQLTables(s, tables) ==
    Enter(s, [Idle EXCEPT !.fn = "SQLTables", !.pc = "send", !.tables = tables,
                          !.request = Get("list")], result[s].open)

SQLColumns(s, tables, columns) ==
    Enter(s, [Idle EXCEPT !.fn = "SQLColumns", !.pc = "send", !.tables = tables,
                          !.columns = columns, !.request = Get("list")], result[s].open)

\* The name is not a pattern, and need not exist.
SQLPrimaryKeys(s, t) ==
    Enter(s, [Idle EXCEPT !.fn = "SQLPrimaryKeys", !.pc = "send", !.tables = {t},
                          !.request = Get(t)], result[s].open)

\* A query without a timeout has the connection's.
TimeoutOf(timeout) == IF timeout > 0 THEN timeout ELSE ConnectTimeout

\* executeStatement gives up the old result before it asks.
Query(s, timeout) ==
    Enter(s, [Idle EXCEPT !.fn = "SQLExecDirect", !.pc = "send",
                          !.request = Request("POST", "query", TimeoutOf(timeout))], FALSE)

\* A table type other than TABLE asks nobody; neither do an empty name given
\* to SQLPrimaryKeys and the functions with an empty or a constant result.
WithoutRequest(s) ==
    /\ call[s].pc = "idle"
    /\ result' = [result EXCEPT ![s] = [open |-> TRUE, rows |-> {}, rc |-> "SQL_SUCCESS"]]
    /\ UNCHANGED <<db, busy, curl, call, during>>

-----------------------------------------------------------------------------
(* PinotClient::request *)

\* curl_easy_reset, then the options; POST is only ever set, never unset, and
\* the variant does not reset.
OnTopOf(old, new) == [new EXCEPT !.method = IF old.method = "POST" THEN "POST" ELSE new.method]
Configured(old, new) == new

Send(s) ==
    /\ call[s].pc = "send"
    /\ busy = NoStmt
    /\ busy' = s
    /\ curl' = Configured(curl, call[s].request)
    /\ call' = [call EXCEPT ![s].pc = "perform"]
    /\ UNCHANGED <<db, result, during>>

Ready(s) == call[s].pc = "perform"

\* The lock_guard ends with the request.
Release == busy' = NoStmt

\* What the tables were is of no further use.
Finish(s, res) ==
    /\ result' = [result EXCEPT ![s] = res]
    /\ call' = [call EXCEPT ![s] = Idle]
    /\ during' = [during EXCEPT ![s] = [t \in Tables |-> {}]]

\* catalogError keeps the old result; the variant installs what there is.
InstallPartial(s) ==
    Finish(s, [open |-> TRUE, rows |-> call[s].rows, rc |-> "SQL_ERROR"])
CatalogError(s) == Finish(s, [result[s] EXCEPT !.rc = "SQL_ERROR"])

Install(s, rows) == Finish(s, [open |-> TRUE, rows |-> rows, rc |-> "SQL_SUCCESS"])

Continue(s, t, todo, rows) ==
    /\ call' = [call EXCEPT ![s].pc = "send", ![s].request = Get(t),
                            ![s].todo = todo, ![s].rows = rows]
    /\ UNCHANGED <<result, during>>

\* The request fails, by transport, by its status or by its body.
Fail(s) ==
    /\ Ready(s)
    /\ Release
    /\ CatalogError(s)
    /\ UNCHANGED <<db, curl>>

\* The broker answers a query; what with is Statement's concern.
QueryAnswered(s) ==
    /\ Ready(s) /\ call[s].request.target = "query"
    /\ Release
    /\ Install(s, {})
    /\ UNCHANGED <<db, curl>>

\* listTables: the names of the tables there are now.
Listed(s) ==
    LET found == {t \in call[s].tables : db[t] # NoSchema} IN
    /\ Ready(s) /\ call[s].request.target = "list"
    /\ Release
    /\ \/ call[s].fn = "SQLTables" /\ Install(s, found)
       \/ call[s].fn = "SQLColumns" /\ found = {} /\ Install(s, {})
       \/ /\ call[s].fn = "SQLColumns"
          /\ \E t \in found : Continue(s, t, found \ {t}, {})
    /\ UNCHANGED <<db, curl>>

\* tableSchema: 404, hence 42S02, for a table that has gone.
SchemaMissing(s) ==
    /\ Ready(s) /\ call[s].request.target \in Tables
    /\ db[call[s].request.target] = NoSchema
    /\ Release
    /\ CatalogError(s)
    /\ UNCHANGED <<db, curl>>

SchemaRead(s) ==
    LET t == call[s].request.target
        todo == call[s].todo
        rows == call[s].rows \cup ColumnRows(t, db[t], call[s].columns)
    IN  /\ Ready(s) /\ t \in Tables
        /\ db[t] # NoSchema
        /\ Release
        /\ \/ call[s].fn = "SQLPrimaryKeys" /\ Install(s, KeyRows(t, db[t]))
           \/ call[s].fn = "SQLColumns" /\ todo = {} /\ Install(s, rows)
           \/ \E u \in todo : Continue(s, u, todo \ {u}, rows)
        /\ UNCHANGED <<db, curl>>

-----------------------------------------------------------------------------
(* The controller *)

\* Somebody creates, alters or drops a table.
ChangeTable(t, sch) ==
    /\ db[t] # sch
    /\ db' = [db EXCEPT ![t] = sch]
    /\ during' = [s \in Stmts |-> IF call[s].pc = "idle" THEN during[s]
                                  ELSE [during[s] EXCEPT ![t] = @ \cup {sch}]]
    /\ UNCHANGED <<busy, curl, call, result>>

Answered(s) ==
    Fail(s) \/ QueryAnswered(s) \/ Listed(s) \/ SchemaMissing(s) \/ SchemaRead(s)

Begin(s) ==
    \/ \E tables \in TablePatterns : SQLTables(s, tables)
    \/ \E tables \in TablePatterns, columns \in ColumnPatterns : SQLColumns(s, tables, columns)
    \/ \E t \in Tables : SQLPrimaryKeys(s, t)
    \/ \E timeout \in QueryTimeouts : Query(s, timeout)
    \/ WithoutRequest(s)

Next ==
    \/ \E s \in Stmts : Begin(s) \/ Send(s) \/ Answered(s)
    \/ \E t \in Tables, sch \in States : ChangeTable(t, sch)

Spec == Init /\ [][Next]_vars

-----------------------------------------------------------------------------
(* Properties *)

Functions == {"none", "SQLTables", "SQLColumns", "SQLPrimaryKeys", "SQLExecDirect"}
Requests == [method : {"none", "GET", "POST"},
             target : Tables \cup {"none", "list", "query"}, timeout : Nat]
Rows == Tables \cup {<<"earlier">>} \cup (Tables \X STRING \X Nat)

Calls == [fn : Functions, pc : {"idle", "send", "perform"}, tables : SUBSET Tables,
          columns : ColumnPatterns \cup {{}}, request : Requests,
          todo : SUBSET Tables, rows : SUBSET Rows]
Results == [open : BOOLEAN, rows : SUBSET Rows, rc : {"none", "SQL_SUCCESS", "SQL_ERROR"}]

\* Every variable has its type; a request that goes out has a timeout, as curl
\* takes 0 for never.
TypeOK ==
    /\ db \in [Tables -> States]
    /\ busy \in Stmts \cup {NoStmt}
    /\ curl \in Requests /\ (curl = NoRequest \/ curl.timeout > 0)
    /\ call \in [Stmts -> Calls]
    /\ \A s \in Stmts : call[s].pc # "idle" => call[s].request.timeout > 0
    /\ result \in [Stmts -> Results]
    /\ during \in [Stmts -> [Tables -> SUBSET States]]

\* What is about to be performed on the shared curl handle is what the
\* statement holding it asked for: nothing of another statement's request,
\* or of an earlier one, is left in its options.
PerformsOwnRequest ==
    \A s \in Stmts : Ready(s) => busy = s /\ curl = call[s].request

\* What SQLColumns reports of a table is what the table was at some moment of
\* the call, with every matching field at its place in the schema; a table
\* that was there throughout is not missing, one that never was is not there,
\* and one the pattern does not match is not either.
FieldsBefore(f, sch) ==
    LET all == FieldsFromSchema(sch) IN {i \in DOMAIN all : \A j \in 1..i : all[j] # f}

ColumnsOf(t, sch, pattern) ==
    IF sch = NoSchema THEN {}
    ELSE {<<t, f, Cardinality(FieldsBefore(f, sch)) + 1>> :
             f \in {g \in pattern : \E i \in DOMAIN FieldsFromSchema(sch) :
                                        FieldsFromSchema(sch)[i] = g}}

ColumnsWereThere ==
    [][\A s \in Stmts :
          call[s].fn = "SQLColumns" /\ call'[s].pc = "idle" /\ result'[s].rc = "SQL_SUCCESS" =>
              \A t \in Tables :
                  LET reported == {row \in result'[s].rows : row[1] = t} IN
                  IF t \in call[s].tables
                  THEN \E sch \in during[s][t] : reported = ColumnsOf(t, sch, call[s].columns)
                  ELSE reported = {}]_vars

\* A catalog function that fails, at whichever request, leaves the rows of
\* the result that was open; and no call touches another statement's result.
FailureKeepsRows ==
    [][\A s \in Stmts :
          /\ call[s].fn # "none" /\ call'[s].pc = "idle" /\ result'[s].rc = "SQL_ERROR" =>
                 result'[s].rows = result[s].rows /\ result'[s].open = result[s].open
          /\ call[s] = call'[s] /\ result[s] # result'[s] => WithoutRequest(s)]_vars

=============================================================================
