------------------------------ MODULE Statement ------------------------------
(***************************************************************************)
(* One statement handle (PinotStmt, handles.h) and the entry points that   *)
(* read or change it: execution (odbc_stmt.cpp, api_helpers.cpp), fetching *)
(* and SQLGetData, bindings, the SQLFreeStmt options, statement attributes *)
(* and the catalog functions (odbc_catalog.cpp).                           *)
(*                                                                         *)
(* A handler holds the statement's mutex from its first change to its      *)
(* return, so one action is one call (the four functions of Unsupported,   *)
(* which only add a diagnostic, do not take it).  The broker's answers and *)
(* the memory of the application are inputs.  A live statement belongs to  *)
(* an open connection with a client (StatementsHaveClient of Handles), so  *)
(* the "08003" test of executeStatement is not an outcome here.            *)
(***************************************************************************)
EXTENDS Convert, Sequences, FiniteSets

CONSTANTS
    MaxCols,        \* columns are numbered 1..MaxCols
    MaxParams,      \* parameter markers are numbered 1..MaxParams
    Texts,          \* statement texts, each the number of its '?' markers
    QueryResults,   \* result sets the broker may answer with
    CatalogResults, \* result sets a catalog function may build
    ReadTypes,      \* C types the application passes to SQLGetData
    ReadBuffers,    \* buffers the application passes to SQLGetData
    Bindings,       \* what the application passes to SQLBindCol
    ParamBindings,  \* what it passes to SQLBindParameter
    RowLimits,      \* values it gives SQL_ATTR_MAX_ROWS
    Attributes,     \* the other statement attributes it sets
    MaxOffset       \* bound: no SQLGetData beyond this offset

Cols   == 1..MaxCols
Params == 1..MaxParams

\* rows is the JSON array of rows; a row may be shorter than columns.
ResultSets == [columns : Seq(ColumnTypes), rows : Seq(Seq(Cells))]
NoRows == [columns |-> <<>>, rows |-> <<>>]

\* A column binding, and a parameter binding: the kind of C type, whether it
\* is what SQL_C_DEFAULT stands for (never a wide text or an unknown type),
\* whether the value pointer is given, whether the indicator pointer is.
ColumnBindings == [cType : CTypes, buf : Buffers]
ParamKinds     == {"char", "wide", "binary", "fixed", "bad"}
ParamBinds     ==
    {p \in [kind : ParamKinds, byDefault : BOOLEAN, ptr : BOOLEAN, ind : BOOLEAN] :
        p.byDefault => p.kind \notin {"wide", "bad"}}

\* What the application may have put in a parameter's indicator; "negative" is
\* a negative length with no meaning of its own, as SQL_DEFAULT_PARAM is here.
Indicators == {"null", "at_exec", "nts", "length", "negative"}

AttributeNames == {"ROWS_FETCHED_PTR", "ROW_STATUS_PTR", "ROW_ARRAY_SIZE",
                   "CURSOR_TYPE", "CONCURRENCY", "ROW_BIND_TYPE", "OTHER"}

ASSUME BoundsAssumption ==
    MaxCols \in Nat /\ MaxParams \in Nat /\ MaxOffset \in Nat /\ MaxOffset < SizeMax
ASSUME ResultsAssumption ==
    /\ QueryResults \cup CatalogResults \subseteq ResultSets
    /\ \A r \in QueryResults \cup CatalogResults : Len(r.columns) <= MaxCols
ASSUME InputsAssumption ==
    /\ Texts \subseteq Nat
    /\ ReadTypes \subseteq CTypes
    /\ ReadBuffers \subseteq Buffers
    /\ Bindings \subseteq ColumnBindings
    /\ ParamBindings \subseteq ParamBinds
    /\ RowLimits \subseteq Nat
    /\ Attributes \subseteq AttributeNames

NoText == -1

VARIABLES
    sql,            \* NoText or a member of Texts
    prepared,
    hasResult,
    rs,
    cursor,         \* -1 before the first row, otherwise a row index
    bindings,
    params,
    getDataOffsets, \* an absent entry is 0: copyChunked treats them alike
    maxRows,
    rowPtrs,        \* which of rowsFetchedPtr and rowStatusPtr are set
    diag,           \* the records of the last call: column (0: the call) and state
    \* the application's side
    rowsFetched,    \* what rowsFetchedPtr points to
    rowStatus,      \* what rowStatusPtr points to
    ret,            \* the last call and what it returned
    got,            \* what SQLGetData has delivered of each column of this row
    filled          \* bound buffers that hold the current row's value

resultVars == <<hasResult, rs, cursor, getDataOffsets>>
inputVars  == <<sql, prepared, bindings, params, maxRows, rowPtrs>>
appVars    == <<rowsFetched, rowStatus, got, filled>>
vars == <<resultVars, inputVars, appVars, diag, ret>>

-----------------------------------------------------------------------------
(* Helpers *)

Put(f, k, v) == [i \in DOMAIN f \cup {k} |-> IF i = k THEN v ELSE f[i]]
Drop(f, k)   == [i \in DOMAIN f \ {k} |-> f[i]]
Empty        == [i \in {} |-> 0]

RowCount  == Len(rs.rows)
NoOffsets == [c \in Cols |-> 0]
OnRow     == hasResult /\ cursor >= 0 /\ cursor < RowCount

\* A cell missing from a short row reads as NULL.
CellAt(c, pos) ==
    LET row == rs.rows[pos + 1]
    IN  IF c <= Len(row) THEN row[c] ELSE NullCell

\* What the application has of a column: the chunked types it used, the
\* bytes received, whether each chunk began where the one before it ended,
\* whether a call said that the value was complete, whether one said NULL.
ColumnViews == [types : SUBSET Chunked, bytes : Nat, gapless : BOOLEAN,
                complete : BOOLEAN, null : BOOLEAN, fixed : BOOLEAN]
NothingGot == [types |-> {}, bytes |-> 0, gapless |-> TRUE,
               complete |-> FALSE, null |-> FALSE, fixed |-> FALSE]
GotNothing == [c \in Cols |-> NothingGot]

Record(col, state) == [col |-> col, state |-> state]
Records(col, state) == IF state = NoState THEN {} ELSE {Record(col, state)}

\* The last call: for SQLGetData, its column and C type, and the indicator;
\* and whether it sent a query to the broker.
Call(fn, col, cType, rc, ind) ==
    [fn |-> fn, col |-> col, cType |-> cType, rc |-> rc, ind |-> ind, queried |-> FALSE]
Querying(fn, rc) ==
    [fn |-> fn, col |-> 0, cType |-> "none", rc |-> rc, ind |-> NotSet, queried |-> TRUE]

\* The call returns rc with at most one record, without a query or after one.
Return(fn, rc, state) ==
    /\ ret' = Call(fn, 0, "none", rc, NotSet)
    /\ diag' = Records(0, state)
ReturnQueried(fn, rc, state) ==
    /\ ret' = Querying(fn, rc)
    /\ diag' = Records(0, state)

\* getDataOffsets.clear(), and a variant that leaves the offsets.
ForgetNothing == UNCHANGED getDataOffsets
ClearOffsets  == getDataOffsets' = NoOffsets

\* Closing a result; the variant leaves the cursor where it was.
CloseKeepingCursor ==
    /\ rs' = NoRows
    /\ hasResult' = FALSE
    /\ ClearOffsets
    /\ UNCHANGED cursor
    /\ got' = GotNothing
    /\ filled' = {}

Close ==
    /\ rs' = NoRows
    /\ hasResult' = FALSE
    /\ cursor' = -1
    /\ ClearOffsets
    /\ got' = GotNothing
    /\ filled' = {}

\* A new result, before its first row; the variant leaves the cursor.
InstallKeepingCursor(r) ==
    /\ rs' = r
    /\ hasResult' = TRUE
    /\ UNCHANGED cursor
    /\ ClearOffsets
    /\ got' = GotNothing
    /\ filled' = {}

Install(r) ==
    /\ rs' = r
    /\ hasResult' = TRUE
    /\ cursor' = -1
    /\ ClearOffsets
    /\ got' = GotNothing
    /\ filled' = {}

-----------------------------------------------------------------------------
(* Initial state: a statement just allocated. *)

Init ==
    /\ sql = NoText
    /\ prepared = FALSE
    /\ hasResult = FALSE
    /\ rs = NoRows
    /\ cursor = -1
    /\ bindings = Empty
    /\ params = Empty
    /\ getDataOffsets = NoOffsets
    /\ maxRows = 0
    /\ rowPtrs = {}
    /\ diag = {}
    /\ rowsFetched = 0
    /\ rowStatus = "unset"
    /\ ret = Call("SQLAllocHandle", 0, "none", SUCCESS, NotSet)
    /\ got = GotNothing
    /\ filled = {}

-----------------------------------------------------------------------------
(* Execution *)

\* The states the client or the response parser report for a request that
\* failed: timeout, no connection, link failure, refused credentials, and an
\* exception in the broker's answer.
QueryErrors == {"HYT00", "08001", "08S01", "28000", "HY000"}

\* renderParameter: the state it fails with, for binding p when the
\* application's indicator holds "mem".  A negative length makes a string too
\* long to exist (std::length_error, HY000); wide text takes it for an empty or
\* a terminated one.
ParamState(p, mem) ==
    LET ind == IF p.ind THEN mem
               ELSE IF p.kind \in {"char", "wide", "binary"} /\ ~p.byDefault
                    THEN "nts" ELSE "length"
    IN  IF ind = "null" THEN NoState
        ELSE IF ~p.ptr THEN "07002"
        ELSE IF ind = "at_exec" THEN "HYC00"
        ELSE IF p.kind = "bad" THEN "07006"
        ELSE IF p.kind = "binary" /\ ind = "nts" THEN "HY090"
        ELSE IF p.kind \in {"char", "binary"} /\ ind = "negative" THEN "HY000"
        ELSE NoState

\* substituteParameters, for marker n: a marker without a binding fails.
Substitution(n, mem) ==
    IF n \in DOMAIN params THEN ParamState(params[n], mem[n]) ELSE "07002"

\* The markers for which the application's memory is asked, too.
Indicated(text) == {n \in 1..text : n \in DOMAIN params /\ params[n].ind}

\* SQL_ATTR_MAX_ROWS is applied to the answer; the variant lets one row more
\* pass.
TrimOffByOne(r) ==
    IF maxRows > 0 /\ Len(r.rows) > maxRows + 1
    THEN [columns |-> r.columns, rows |-> SubSeq(r.rows, 1, maxRows)]
    ELSE r

Trim(r) ==
    IF maxRows > 0 /\ Len(r.rows) > maxRows
    THEN [columns |-> r.columns, rows |-> SubSeq(r.rows, 1, maxRows)]
    ELSE r

\* executeStatement and the catch clauses of runStatement.  The old result is
\* given up only once every marker has a value; in the variant, before.
ExecuteClosingFirst(fn, text) ==
    \E mem \in [Indicated(text) -> Indicators] :
        \/ \E n \in 1..text :
              /\ Substitution(n, mem) # NoState
              /\ Return(fn, ERROR, Substitution(n, mem))
              /\ Close
        \/ /\ \A k \in 1..text : Substitution(k, mem) = NoState
           /\ \E r \in QueryResults :
                 Install(Trim(r)) /\ ReturnQueried(fn, SUCCESS, NoState)

ExecuteStatement(fn, text) ==
    \E mem \in [Indicated(text) -> Indicators] :
        \/ \E n \in 1..text :
              /\ \A k \in 1..(n - 1) : Substitution(k, mem) = NoState
              /\ Substitution(n, mem) # NoState
              /\ Return(fn, ERROR, Substitution(n, mem))
              /\ UNCHANGED <<resultVars, got, filled>>
        \/ /\ \A k \in 1..text : Substitution(k, mem) = NoState
           /\ \/ \E state \in QueryErrors :
                    /\ Close
                    /\ ReturnQueried(fn, ERROR, state)
              \/ \E r \in QueryResults :
                    /\ Install(Trim(r))
                    /\ ReturnQueried(fn, SUCCESS, NoState)

ExecDirect(text) ==
    /\ UNCHANGED <<bindings, params, maxRows, rowPtrs, rowsFetched, rowStatus>>
    /\ \/ /\ text = NoText
          /\ Return("SQLExecDirect", ERROR, "HY009")
          /\ UNCHANGED <<sql, prepared, resultVars, got, filled>>
       \/ /\ text # NoText
          /\ sql' = text
          /\ prepared' = FALSE
          /\ ExecuteStatement("SQLExecDirect", text)

Prepare(text) ==
    /\ UNCHANGED <<bindings, params, maxRows, rowPtrs, rowsFetched, rowStatus>>
    /\ \/ /\ text = NoText
          /\ Return("SQLPrepare", ERROR, "HY009")
          /\ UNCHANGED <<sql, prepared, resultVars, got, filled>>
       \/ /\ text # NoText
          /\ sql' = text
          /\ prepared' = TRUE
          /\ Close
          /\ Return("SQLPrepare", SUCCESS, NoState)

Execute ==
    /\ UNCHANGED <<inputVars, rowsFetched, rowStatus>>
    /\ \/ /\ ~prepared \/ sql = NoText
          /\ Return("SQLExecute", ERROR, "HY010")
          /\ UNCHANGED <<resultVars, got, filled>>
       \/ /\ prepared /\ sql # NoText
          /\ ExecuteStatement("SQLExecute", sql)

-----------------------------------------------------------------------------
(* Fetching *)

\* The conversion of a bound column, for the row at position pos.  A binding
\* may outlive the result it was made for and name a column this one lacks;
\* the variant passes over it.
BoundOutcomeSkipping(c, pos) ==
    IF c > Len(rs.columns)
    THEN Plain(SUCCESS, NoState, NotSet, 0)
    ELSE ConvertCell(0, CellAt(c, pos), rs.columns[c],
                     bindings[c].cType, bindings[c].buf, FALSE)

BoundOutcome(c, pos) ==
    IF c > Len(rs.columns)
    THEN Plain(ERROR, "07009", NotSet, 0)
    ELSE ConvertCell(0, CellAt(c, pos), rs.columns[c],
                     bindings[c].cType, bindings[c].buf, FALSE)

\* The worst return code of the columns bound; in the variant a warning hides
\* an error.
RowOutcomeWarningFirst(pos) ==
    LET rcs == {BoundOutcome(c, pos).rc : c \in DOMAIN bindings}
    IN  IF WITH_INFO \in rcs THEN WITH_INFO
        ELSE IF ERROR \in rcs THEN ERROR ELSE SUCCESS

RowOutcome(pos) ==
    LET rcs == {BoundOutcome(c, pos).rc : c \in DOMAIN bindings}
    IN  IF ERROR \in rcs THEN ERROR
        ELSE IF WITH_INFO \in rcs THEN WITH_INFO ELSE SUCCESS

\* No row follows the current one; the variant gives up the last row.
AtEndEarly == cursor + 2 >= RowCount
AtEnd      == cursor + 1 >= RowCount

FetchNextRow(fn) ==
    \/ /\ ~hasResult
       /\ Return(fn, ERROR, "24000")
       /\ UNCHANGED <<resultVars, appVars>>
    \/ /\ hasResult /\ AtEnd
       /\ cursor' = RowCount
       /\ rowsFetched' = IF "ROWS_FETCHED_PTR" \in rowPtrs THEN 0 ELSE rowsFetched
       /\ Return(fn, NO_DATA, NoState)
       /\ UNCHANGED <<hasResult, rs, getDataOffsets, rowStatus, got, filled>>
    \/ /\ hasResult /\ ~AtEnd
       /\ cursor' = cursor + 1
       /\ ClearOffsets
       /\ ret' = Call(fn, 0, "none", RowOutcome(cursor + 1), NotSet)
       /\ diag' = UNION {Records(c, BoundOutcome(c, cursor + 1).state) :
                            c \in DOMAIN bindings}
       /\ rowsFetched' = IF "ROWS_FETCHED_PTR" \in rowPtrs THEN 1 ELSE rowsFetched
       /\ rowStatus' = IF "ROW_STATUS_PTR" \in rowPtrs
                       THEN RowOutcome(cursor + 1) ELSE rowStatus
       /\ got' = GotNothing
       /\ filled' = {c \in DOMAIN bindings : BoundOutcome(c, cursor + 1).rc # ERROR}
       /\ UNCHANGED <<hasResult, rs>>

Fetch ==
    /\ FetchNextRow("SQLFetch")
    /\ UNCHANGED inputVars

\* Only SQL_FETCH_NEXT moves a forward-only cursor.
FetchScroll(orientation) ==
    /\ UNCHANGED inputVars
    /\ \/ /\ orientation # "NEXT"
          /\ Return("SQLFetchScroll", ERROR, "HY106")
          /\ UNCHANGED <<resultVars, appVars>>
       \/ /\ orientation = "NEXT"
          /\ FetchNextRow("SQLFetchScroll")

\* What the application has of a column after a call with C type t and buffer
\* b that returned o.
Received(g, t, b, o) ==
    LET answered == o.rc \in {SUCCESS, WITH_INFO}
        value    == answered /\ o.ind # NULL_DATA /\ b.ptr
        chunk    == value /\ t # "FIXED"
    IN  [types    |-> IF chunk THEN g.types \cup {t} ELSE g.types,
         bytes    |-> IF chunk THEN g.bytes + o.count ELSE g.bytes,
         gapless  |-> g.gapless /\ (chunk /\ o.count > 0 => o.from = g.bytes),
         complete |-> IF chunk THEN o.rc = SUCCESS ELSE g.complete,
         null     |-> g.null \/ (answered /\ o.ind = NULL_DATA),
         fixed    |-> g.fixed \/ (value /\ t = "FIXED")]

GetData(c, t, b) ==
    /\ UNCHANGED <<inputVars, hasResult, rs, cursor, rowsFetched, rowStatus, filled>>
    /\ \/ /\ ~OnRow
          /\ Return("SQLGetData", ERROR, "24000")
          /\ UNCHANGED <<getDataOffsets, got>>
       \/ /\ OnRow /\ c \notin 1..Len(rs.columns)
          /\ Return("SQLGetData", ERROR, "07009")
          /\ UNCHANGED <<getDataOffsets, got>>
       \/ /\ OnRow /\ c \in 1..Len(rs.columns)
          /\ getDataOffsets[c] <= MaxOffset
          /\ LET o == ConvertCell(getDataOffsets[c], CellAt(c, cursor),
                                  rs.columns[c], t, b, TRUE)
             IN  /\ getDataOffsets' = [getDataOffsets EXCEPT ![c] = o.offset]
                 /\ ret' = Call("SQLGetData", c, Resolve(t, rs.columns[c]),
                                 o.rc, o.ind)
                 /\ diag' = Records(0, o.state)
                 /\ got' = [got EXCEPT ![c] =
                               Received(got[c], Resolve(t, rs.columns[c]), b, o)]

-----------------------------------------------------------------------------
(* Bindings, cursor, attributes *)

\* Columns and parameters are numbered from 1; the variant lets 0 through.
NumberedFromZero(n) == n >= 0
NumberOk(n)         == n >= 1

BindCol(c, b) ==
    /\ UNCHANGED <<resultVars, sql, prepared, params, maxRows, rowPtrs,
                   rowsFetched, rowStatus, got>>
    /\ \/ /\ ~NumberOk(c)
          /\ Return("SQLBindCol", ERROR, "07009")
          /\ UNCHANGED <<bindings, filled>>
       \/ /\ NumberOk(c)
          /\ bindings' = IF ~b.buf.ptr /\ ~b.buf.ind THEN Drop(bindings, c)
                         ELSE Put(bindings, c, b)
          /\ filled' = filled \ {c}
          /\ Return("SQLBindCol", SUCCESS, NoState)

BindParameter(n, isInput, p) ==
    /\ UNCHANGED <<resultVars, sql, prepared, bindings, maxRows, rowPtrs, appVars>>
    /\ \/ /\ ~NumberOk(n)
          /\ Return("SQLBindParameter", ERROR, "07009")
          /\ UNCHANGED params
       \/ /\ NumberOk(n) /\ ~isInput
          /\ Return("SQLBindParameter", ERROR, "HYC00")
          /\ UNCHANGED params
       \/ /\ NumberOk(n) /\ isInput
          /\ params' = Put(params, n, p)
          /\ Return("SQLBindParameter", SUCCESS, NoState)

\* SQLFreeStmt but for SQL_DROP, which ends the statement's life.
FreeStmt(option) ==
    /\ UNCHANGED <<sql, prepared, maxRows, rowPtrs, rowsFetched, rowStatus>>
    /\ \/ /\ option = "CLOSE"
          /\ Close
          /\ Return("SQLFreeStmt", SUCCESS, NoState)
          /\ UNCHANGED <<bindings, params>>
       \/ /\ option = "UNBIND"
          /\ bindings' = Empty
          /\ filled' = {}
          /\ Return("SQLFreeStmt", SUCCESS, NoState)
          /\ UNCHANGED <<resultVars, params, got>>
       \/ /\ option = "RESET_PARAMS"
          /\ params' = Empty
          /\ Return("SQLFreeStmt", SUCCESS, NoState)
          /\ UNCHANGED <<resultVars, bindings, got, filled>>
       \/ /\ option = "OTHER"
          /\ Return("SQLFreeStmt", ERROR, "HY092")
          /\ UNCHANGED <<resultVars, bindings, params, got, filled>>

CloseCursor ==
    /\ UNCHANGED <<inputVars, rowsFetched, rowStatus>>
    /\ \/ /\ ~hasResult
          /\ Return("SQLCloseCursor", ERROR, "24000")
          /\ UNCHANGED <<resultVars, got, filled>>
       \/ /\ hasResult
          /\ Close
          /\ Return("SQLCloseCursor", SUCCESS, NoState)

SetMaxRows(n) ==
    /\ maxRows' = n
    /\ Return("SQLSetStmtAttr", SUCCESS, NoState)
    /\ UNCHANGED <<resultVars, sql, prepared, bindings, params, rowPtrs, appVars>>

\* The other attributes; "given" says that the pointer is not null, or that
\* the value asked for is the only one the driver supports.
SetStmtAttr(attr, given) ==
    /\ UNCHANGED <<resultVars, sql, prepared, bindings, params, maxRows, appVars>>
    /\ \/ /\ attr \in {"ROWS_FETCHED_PTR", "ROW_STATUS_PTR"}
          /\ rowPtrs' = IF given THEN rowPtrs \cup {attr} ELSE rowPtrs \ {attr}
          /\ Return("SQLSetStmtAttr", SUCCESS, NoState)
       \/ /\ attr \notin {"ROWS_FETCHED_PTR", "ROW_STATUS_PTR"}
          /\ UNCHANGED rowPtrs
          /\ IF given \/ attr = "OTHER" THEN Return("SQLSetStmtAttr", SUCCESS, NoState)
             ELSE IF attr = "ROW_BIND_TYPE" THEN Return("SQLSetStmtAttr", ERROR, "HYC00")
             ELSE Return("SQLSetStmtAttr", WITH_INFO, "01S02")

-----------------------------------------------------------------------------
(* Catalog functions, and calls that only report *)

\* SQLTables, SQLColumns and SQLPrimaryKeys ask the controller.  The result is
\* built aside and installed only when every request has been answered.
CatalogErrors == (QueryErrors \ {"HY000"}) \cup {"42S02"}

CatalogQuery ==
    /\ UNCHANGED <<inputVars, rowsFetched, rowStatus>>
    /\ \/ \E state \in CatalogErrors :
             /\ Return("SQLTables", ERROR, state)
             /\ UNCHANGED <<resultVars, got, filled>>
       \/ \E r \in CatalogResults :
             /\ Install(r)
             /\ Return("SQLTables", SUCCESS, NoState)

\* SQLGetTypeInfo, and the catalog functions whose result is always empty.
CatalogStatic ==
    /\ UNCHANGED <<inputVars, rowsFetched, rowStatus>>
    /\ \E r \in CatalogResults : Install(r)
    /\ Return("SQLGetTypeInfo", SUCCESS, NoState)

\* There is never a second result; the first stays open.
MoreResults ==
    /\ Return("SQLMoreResults", NO_DATA, NoState)
    /\ UNCHANGED <<resultVars, inputVars, appVars>>

\* SQLNumResultCols, SQLRowCount, SQLNumParams, SQLDescribeParam and the cursor
\* name, which succeed; SQLDescribeCol and SQLColAttribute, which may refuse a
\* column or a field; all may truncate a name.
Describe(c) ==
    /\ UNCHANGED <<resultVars, inputVars, appVars>>
    /\ \/ Return("SQLDescribeCol", SUCCESS, NoState)
       \/ Return("SQLDescribeCol", WITH_INFO, "01004")
       \/ c \in 1..Len(rs.columns) /\ Return("SQLColAttribute", ERROR, "HY091")
       \/ c \notin 1..Len(rs.columns) /\ Return("SQLColAttribute", ERROR, "07009")

GetStmtAttr ==
    /\ UNCHANGED <<resultVars, inputVars, appVars>>
    /\ \/ Return("SQLGetStmtAttr", SUCCESS, NoState)
       \/ Return("SQLGetStmtAttr", ERROR, "HY092")

\* SQLParamData, SQLPutData, SQLSetPos, SQLBulkOperations.
Unsupported ==
    /\ UNCHANGED <<resultVars, inputVars, appVars>>
    /\ \E state \in {"HY010", "HYC00"} : Return("SQLSetPos", ERROR, state)

-----------------------------------------------------------------------------
Next ==
    \/ \E text \in Texts \cup {NoText} : ExecDirect(text) \/ Prepare(text)
    \/ Execute
    \/ Fetch
    \/ \E orientation \in {"NEXT", "PRIOR"} : FetchScroll(orientation)
    \/ \E c \in 0..(MaxCols + 1), t \in ReadTypes, b \in ReadBuffers : GetData(c, t, b)
    \/ \E c \in 0..MaxCols, b \in Bindings : BindCol(c, b)
    \/ \E n \in 0..MaxParams, isInput \in BOOLEAN, p \in ParamBindings :
          BindParameter(n, isInput, p)
    \/ \E option \in {"CLOSE", "UNBIND", "RESET_PARAMS", "OTHER"} : FreeStmt(option)
    \/ CloseCursor
    \/ \E n \in RowLimits : SetMaxRows(n)
    \/ \E attr \in Attributes, given \in BOOLEAN : SetStmtAttr(attr, given)
    \/ CatalogQuery
    \/ CatalogStatic
    \/ MoreResults
    \/ \E c \in 0..(MaxCols + 1) : Describe(c)
    \/ GetStmtAttr
    \/ Unsupported

Spec == Init /\ [][Next]_vars
-----------------------------------------------------------------------------
(* Properties *)

Functions == {"SQLAllocHandle", "SQLExecDirect", "SQLPrepare", "SQLExecute",
              "SQLFetch", "SQLFetchScroll", "SQLGetData", "SQLBindCol",
              "SQLBindParameter", "SQLFreeStmt", "SQLCloseCursor",
              "SQLSetStmtAttr", "SQLTables", "SQLGetTypeInfo", "SQLMoreResults",
              "SQLDescribeCol", "SQLColAttribute", "SQLGetStmtAttr", "SQLSetPos"}

SqlStates == ConvertStates \cup QueryErrors \cup
    {"01S02", "07002", "07009", "24000", "42S02", "HY009", "HY010", "HY091",
     "HY092", "HY106", "HYC00"}

InputsOK ==
    /\ sql \in Texts \cup {NoText} /\ prepared \in BOOLEAN
    /\ DOMAIN bindings \subseteq Cols
    /\ \A c \in DOMAIN bindings : bindings[c] \in ColumnBindings
    /\ DOMAIN params \subseteq Params
    /\ \A n \in DOMAIN params : params[n] \in ParamBinds
    /\ maxRows \in Nat
    /\ rowPtrs \subseteq AttributeNames

ResultOK ==
    /\ hasResult \in BOOLEAN
    /\ rs \in ResultSets /\ Len(rs.columns) <= MaxCols
    /\ cursor \in Int
    /\ getDataOffsets \in [Cols -> Nat \cup {Consumed}]

CallOK ==
    /\ diag \subseteq [col : Cols \cup {0}, state : SqlStates]
    /\ ret \in [fn : Functions, col : Cols \cup {0}, cType : CTypes \cup {"none"},
               rc : ReturnCodes, ind : Int, queried : BOOLEAN]

ViewOK ==
    /\ got \in [Cols -> ColumnViews]
    /\ filled \subseteq Cols

\* The values the variables take: what is bound is numbered from 1, offsets are
\* byte counts or Consumed, every diagnostic is one of the states listed.
TypeOK ==
    /\ InputsOK /\ ResultOK /\ CallOK /\ ViewOK
    /\ rowsFetched \in {0, 1} /\ rowStatus \in ReturnCodes \cup {"unset"}

\* Every path that gives up a result (SQL_CLOSE, SQLCloseCursor, SQLPrepare, a
\* query that fails) leaves no row, position or SQLGetData offset of it behind.
ClosedIsClean ==
    ~hasResult => rs = NoRows /\ cursor = -1 /\ getDataOffsets = NoOffsets

\* The cursor never leaves the result it belongs to, whatever replaced the
\* result under it: convertCell indexes the rows with it unchecked.
CursorInRange == cursor >= -1 /\ cursor <= RowCount

\* The offset kept for a column that is not NULL is what the application has of it:
\* nothing when no call delivered a part of it, and otherwise, as long as it keeps
\* to one C type, the bytes received, or the mark once it has them all.
UnreadMatches(c) ==
    /\ getDataOffsets[c] = 0 /\ got[c].bytes = 0
    /\ got[c].gapless /\ ~got[c].complete
ReadMatches(c, total) ==
    /\ got[c].gapless
    /\ IF got[c].complete
       THEN got[c].bytes = total /\ getDataOffsets[c] = Consumed
       ELSE got[c].bytes < total /\ getDataOffsets[c] = got[c].bytes
OffsetsMatch ==
    OnRow => \A c \in 1..Len(rs.columns) : ~CellAt(c, cursor).null =>
        /\ got[c].types = {} => UnreadMatches(c)
        /\ \A t \in Chunked : got[c].types = {t} =>
              ReadMatches(c, Total(CellAt(c, cursor), rs.columns[c], t))

\* Chunked SQLGetData: an application that reads a column of the current row
\* with one C type receives its bytes without gap or repetition, never more
\* than there are, and is told that the value is complete exactly when it is.
\* No offset of another row, another result or a bound column interferes.
ChunksReassemble ==
    OnRow => \A c \in 1..Len(rs.columns), t \in Chunked :
        got[c].types = {t} /\ ~CellAt(c, cursor).null =>
            LET total == Total(CellAt(c, cursor), rs.columns[c], t)
            IN  /\ got[c].gapless
                /\ got[c].bytes <= total
                /\ got[c].complete <=> got[c].bytes = total

\* What a call returns is the worst of what it reports: an error iff some
\* record is more than a warning, SQL_SUCCESS_WITH_INFO iff there are only
\* warnings, and no record otherwise; also when one SQLFetch converts several
\* bound columns that fare differently.
DiagMatchesReturn ==
    LET states == {r.state : r \in diag}
    IN  /\ ret.rc = ERROR <=> \E s \in states : s \notin Warnings
        /\ ret.rc = WITH_INFO <=> states # {} /\ states \subseteq Warnings

\* A fetch that moved to a row has converted every bound column: one column
\* that cannot be converted, or that this result does not have, is reported
\* and does not keep the others from being delivered.
Fetches == {"SQLFetch", "SQLFetchScroll"}
FetchConvertsEveryBinding ==
    ret.fn \in Fetches /\ OnRow /\ Record(0, "HY106") \notin diag =>
        /\ DOMAIN bindings \ filled = {r.col : r \in {d \in diag : d.state \notin Warnings}}
        /\ filled \subseteq 1..Len(rs.columns)

\* SQLGetData on column c with a chunked C type, the application having used no
\* other for it, and the value not NULL.
ChunkedRead(c) ==
    /\ ret'.fn = "SQLGetData" /\ ret'.col = c /\ ret'.cType \in Chunked
    /\ c > 0 /\ ~CellAt(c, cursor).null
    /\ got[c].types \subseteq {ret'.cType}

\* SQL_NO_DATA ends the loop over a column's chunks: it is returned exactly
\* when the application has already been told that the value is complete.
NoDataIffConsumed ==
    [][\A c \in Cols : ChunkedRead(c) => (ret'.rc = NO_DATA <=> got[c].complete)]_vars

\* The length SQLGetData reports is that of the rest of the value: what the
\* application already has is not counted, and asking for it without a buffer
\* takes nothing away.
LengthIsWhatRemains ==
    [][\A c \in Cols : ChunkedRead(c) /\ ret'.ind # NotSet =>
          ret'.ind = Total(CellAt(c, cursor), rs.columns[c], ret'.cType) - got[c].bytes]_vars

\* A call that fails before a query was sent to the broker (a parameter without a
\* value or with a length that cannot be, an empty text, a statement not prepared)
\* or a catalog call that fails at any request leaves the old result as it was,
\* position and chunk offsets included; one whose query fails leaves no result at
\* all.  The SQLSTATE does not tell the two apart: HY000 is reported of both.
FailureKeepsOrCloses ==
    [][ret'.rc = ERROR /\ ret'.fn \in {"SQLExecDirect", "SQLExecute", "SQLPrepare", "SQLTables"} =>
          IF ret'.queried THEN ~hasResult' ELSE UNCHANGED <<resultVars, got>>]_vars

\* SQL_ATTR_MAX_ROWS, as it is when the query runs, bounds the rows of the
\* answer, and cuts no answer that is within it.
RowLimitHonoured ==
    [][ret'.fn \in {"SQLExecDirect", "SQLExecute"} /\ ret'.rc = SUCCESS =>
          \E r \in QueryResults :
              /\ rs'.columns = r.columns
              /\ Len(rs'.rows) = IF maxRows = 0 THEN Len(r.rows)
                                ELSE Lesser(maxRows, Len(r.rows))]_vars

\* convert.h: successive SQLGetData calls return SQL_NO_DATA once a column is
\* consumed; stated of fixed-length C types.  The code never records that such a
\* column was read, so that every further call returns it again.
FixedReadOnce ==
    [][\A c \in Cols :
          ret'.fn = "SQLGetData" /\ ret'.col = c /\ ret'.cType = "FIXED" /\ got[c].fixed =>
              ret'.rc = NO_DATA]_vars

\* handles.h: an offset of -1 means that the column is fully consumed.  The code
\* also marks a NULL column when the call fails with 22002 for want of an
\* indicator, so that the application never learns that the value is NULL.
ConsumedWasDelivered ==
    OnRow => \A c \in 1..Len(rs.columns) :
        getDataOffsets[c] = Consumed => got[c].complete \/ got[c].null

-----------------------------------------------------------------------------
(* The statement implements a forward-only cursor. *)

Told == IF ret.fn \notin Fetches THEN "nothing"
        ELSE IF ret.rc = NO_DATA THEN "end"
        ELSE IF \E r \in diag : r.col = 0 THEN "nothing" ELSE "row"

ForwardOnly == INSTANCE Cursor
    WITH open      <- hasResult,
         total     <- RowCount,
         position  <- Lesser(cursor + 1, RowCount),
         exhausted <- hasResult /\ cursor >= RowCount,
         told      <- Told

\* Every row of a result is announced once and in order and its end after the
\* last, through both fetch functions and whatever is called in between.
ImplementsCursor == ForwardOnly!Spec
=============================================================================
