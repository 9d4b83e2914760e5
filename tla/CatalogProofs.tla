----------------------------- MODULE CatalogProofs -----------------------------
(***************************************************************************)
(* For any number of statements, tables and schemas: requests that share   *)
(* the client's curl handle do not mix, the columns reported of a table    *)
(* are what the table was at some moment of the call, and a failure keeps  *)
(* the old result.                                                         *)
(*                                                                         *)
(* PerformsOwnRequest is inductive.  ColumnsWereThere needs to know, in    *)
(* the middle of a call, what has been collected: of every table asked for *)
(* already the columns of one of its schemas since the call began, and     *)
(* nothing of a table still to ask for (SoFar).                            *)
(***************************************************************************)
EXTENDS Catalog, FiniteSetTheorems, TLAPS

Idling(s) == call[s].pc = "idle" => call[s].fn = "none"

\* The history of a running call includes the present.
Watched(s) == call[s].pc # "idle" => \A t \in Tables : db[t] \in during[s][t]

\* The tables whose schema a call has not yet read.
Pending(s) == call[s].todo \cup {call[s].request.target}

RowsOf(t, rows) == {row \in rows : row[1] = t}

\* What SQLColumns has collected between two schemas.
SoFar(s) ==
    call[s].fn = "SQLColumns" =>
        /\ call[s].request.target \in Tables \cup {"list"}
        /\ call[s].request.target \in Tables =>
            /\ Pending(s) \subseteq call[s].tables
            /\ call[s].request.target \notin call[s].todo
            /\ \A t \in Tables :
                IF t \in call[s].tables \ Pending(s)
                THEN \E sch \in during[s][t] :
                        RowsOf(t, call[s].rows) = ColumnsOf(t, sch, call[s].columns)
                ELSE RowsOf(t, call[s].rows) = {}

IInv ==
    /\ TypeOK
    /\ PerformsOwnRequest
    /\ \A s \in Stmts : Idling(s) /\ Watched(s) /\ SoFar(s)

-----------------------------------------------------------------------------
(* Rows *)

LEMMA FieldsOK ==
    ASSUME NEW sch \in Schemas
    PROVE  FieldsFromSchema(sch) \in Seq(STRING)
  <1>1. sch.dimension \in Seq(STRING) /\ sch.metric \in Seq(STRING) /\ sch.dateTime \in Seq(STRING)
    BY CatalogAssumption
  <1> QED
    BY <1>1 DEF FieldsFromSchema

\* The places before the first of a field.
LEMMA PlacesBefore ==
    ASSUME NEW f, NEW n \in Nat, DOMAIN f = 1..n,
           \A i, j \in 1..n : f[i] = f[j] => i = j,
           NEW i \in 1..n
    PROVE  Cardinality({k \in DOMAIN f : \A j \in 1..k : f[j] # f[i]}) + 1 = i
  <1> DEFINE before == {k \in DOMAIN f : \A j \in 1..k : f[j] # f[i]}
  <1>1. before = 1..(i - 1)
    <2>1. ASSUME NEW k \in 1..n, \A j \in 1..k : f[j] # f[i]
          PROVE  k \in 1..(i - 1)
      BY <2>1
    <2>2. ASSUME NEW k \in 1..(i - 1)
          PROVE  k \in 1..n /\ \A j \in 1..k : f[j] # f[i]
      BY <2>2
    <2> QED
      BY <2>1, <2>2
  <1>2. Cardinality(1..(i - 1)) = i - 1
    BY FS_Interval
  <1> HIDE DEF before
  <1>3. Cardinality(before) + 1 = i
    BY <1>1, <1>2
  <1> QED
    BY <1>3 DEF before

\* The ordinal that counts the fields before a field's first place is the
\* place the loop of the code has counted to.
LEMMA ColumnRowsOK ==
    ASSUME NEW t, NEW sch \in Schemas, NEW pattern
    PROVE  ColumnRows(t, sch, pattern) = ColumnsOf(t, sch, pattern)
  <1> DEFINE f == FieldsFromSchema(sch)
             place(g) == Cardinality({k \in DOMAIN f : \A j \in 1..k : f[j] # g}) + 1
  <1>1. Len(f) \in Nat /\ DOMAIN f = 1..Len(f)
    BY FieldsOK
  <1>2. \A i, j \in 1..Len(f) : f[i] = f[j] => i = j
    BY FieldsAssumption
  <1>3. \A i \in DOMAIN f : place(f[i]) = i
    BY <1>1, <1>2, PlacesBefore
  <1>4. sch # NoSchema
    BY CatalogAssumption
  <1>5. ColumnRows(t, sch, pattern) = {<<t, f[i], i>> : i \in {j \in DOMAIN f : f[j] \in pattern}}
    BY DEF ColumnRows
  <1>6. ColumnsOf(t, sch, pattern) =
          {<<t, g, place(g)>> : g \in {h \in pattern : \E i \in DOMAIN f : f[i] = h}}
    BY <1>4 DEF ColumnsOf, FieldsBefore
  <1> HIDE DEF f, place
  <1>7. ColumnRows(t, sch, pattern) \subseteq ColumnsOf(t, sch, pattern)
    BY <1>3, <1>5, <1>6
  <1>8. ColumnsOf(t, sch, pattern) \subseteq ColumnRows(t, sch, pattern)
    BY <1>3, <1>5, <1>6
  <1> QED
    BY <1>7, <1>8

LEMMA ColumnRowsTyped ==
    ASSUME NEW t \in Tables, NEW sch \in Schemas, NEW pattern
    PROVE  /\ ColumnRows(t, sch, pattern) \subseteq Rows
           /\ \A row \in ColumnRows(t, sch, pattern) : row[1] = t
  <1>1. FieldsFromSchema(sch) \in Seq(STRING)
    BY FieldsOK
  <1> DEFINE f == FieldsFromSchema(sch)
  <1>2. \A i \in DOMAIN f : f[i] \in STRING /\ i \in Nat
    BY <1>1
  <1> QED
    BY <1>2 DEF ColumnRows, Rows

LEMMA KeyRowsTyped ==
    ASSUME NEW t \in Tables, NEW sch \in Schemas
    PROVE  KeyRows(t, sch) \subseteq Rows
  <1>1. sch.primaryKey \in Seq(STRING)
    BY CatalogAssumption
  <1>2. \A i \in DOMAIN sch.primaryKey : sch.primaryKey[i] \in STRING /\ i \in Nat
    BY <1>1
  <1> QED
    BY <1>2 DEF KeyRows, Rows

-----------------------------------------------------------------------------
(* Types *)

LEMMA InitOK == Init => IInv
  <1> SUFFICES ASSUME Init PROVE IInv
    OBVIOUS
  <1>1. NoRequest \in Requests
    BY DEF NoRequest, Request, Requests
  <1>2. Idle \in Calls
    BY <1>1 DEF Idle, Calls, Functions
  <1>3. NoResult \in Results
    BY DEF NoResult, Results
  <1>4. TypeOK
    BY <1>1, <1>2, <1>3 DEF Init, TypeOK, Idle
  <1>5. PerformsOwnRequest
    BY DEF Init, PerformsOwnRequest, Ready, Idle
  <1>6. \A s \in Stmts : Idling(s) /\ Watched(s) /\ SoFar(s)
    BY DEF Init, Idling, Watched, SoFar, Idle
  <1> QED
    BY <1>4, <1>5, <1>6 DEF IInv

\* What a call asks for first.
LEMMA EnterTyped ==
    ASSUME TypeOK, NEW s \in Stmts, NEW c \in Calls, NEW open \in BOOLEAN,
           Enter(s, c, open), c.request.timeout > 0
    PROVE  TypeOK'
  <1> USE DEF TypeOK, Enter
  <1>1. [NoResult EXCEPT !.open = open, !.rows = IF open THEN Earlier ELSE {}] \in Results
    BY DEF NoResult, Results, Earlier, Rows
  <1>2. result' \in [Stmts -> Results] /\ call' \in [Stmts -> Calls]
    BY <1>1
  <1>3. \A u \in Stmts : call'[u].pc # "idle" => call'[u].request.timeout > 0
    BY DEF Calls
  <1>4. during' \in [Stmts -> [Tables -> SUBSET States]]
    <2>1. [t \in Tables |-> {db[t]}] \in [Tables -> SUBSET States]
      OBVIOUS
    <2> QED
      BY <2>1
  <1> QED
    BY <1>2, <1>3, <1>4

LEMMA RequestsTyped ==
    /\ \A target \in Tables \cup {"list"} :
          Get(target) \in Requests /\ Get(target).timeout > 0 /\ Get(target).target = target
    /\ \A timeout \in QueryTimeouts : LET r == Request("POST", "query", TimeoutOf(timeout)) IN
          r \in Requests /\ r.timeout > 0 /\ r.target = "query"
  <1>1. \A timeout \in QueryTimeouts : TimeoutOf(timeout) \in Nat /\ TimeoutOf(timeout) > 0
    BY CatalogAssumption DEF TimeoutOf
  <1> QED
    BY <1>1, CatalogAssumption DEF Get, Request, Requests

-----------------------------------------------------------------------------
(* Each step keeps the invariant *)

LEMMA IdleTyped == Idle \in Calls
  BY DEF Idle, Calls, Functions, NoRequest, Request, Requests

\* A call begins: nobody else's request or rows are touched.
LEMMA EnterOK ==
    ASSUME IInv, NEW s \in Stmts, NEW c \in Calls, NEW open \in BOOLEAN,
           Enter(s, c, open), c.request.timeout > 0, c.pc = "send",
           c.fn = "SQLColumns" => c.request.target \in {"list"}
    PROVE  IInv'
  <1>1. TypeOK'
    BY EnterTyped DEF IInv
  <1>2. call' \in [Stmts -> Calls] /\ call'[s] = c /\ \A u \in Stmts \ {s} : call'[u] = call[u]
    BY DEF IInv, TypeOK, Enter
  <1>3. during'[s] = [t \in Tables |-> {db[t]}] /\ \A u \in Stmts \ {s} : during'[u] = during[u]
    BY DEF IInv, TypeOK, Enter
  <1>4. db' = db /\ busy' = busy /\ curl' = curl
    BY DEF Enter
  <1>5. PerformsOwnRequest'
    BY <1>2, <1>4 DEF IInv, PerformsOwnRequest, Ready
  <1>6. ASSUME NEW u \in Stmts
        PROVE  (Idling(u) /\ Watched(u) /\ SoFar(u))'
    <2>1. CASE u = s
      <3>1. Idling(u)'
        BY <1>2, <2>1 DEF Idling
      <3>2. Watched(u)'
        BY <1>3, <1>4, <2>1 DEF Watched
      <3>3. SoFar(u)'
        BY <1>2, <2>1, CatalogAssumption DEF SoFar
      <3> QED
        BY <3>1, <3>2, <3>3
    <2>2. CASE u # s
      <3>1. call'[u] = call[u] /\ during'[u] = during[u] /\ db' = db
        BY <1>2, <1>3, <1>4, <2>2
      <3>2. Idling(u) /\ Watched(u) /\ SoFar(u)
        BY DEF IInv
      <3> QED
        BY <3>1, <3>2 DEF Idling, Watched, SoFar, Pending
    <2> QED
      BY <2>1, <2>2
  <1> QED
    BY <1>1, <1>5, <1>6 DEF IInv

LEMMA BeginOK ==
    ASSUME IInv, NEW s \in Stmts, Begin(s)
    PROVE  IInv'
  <1>0. result[s].open \in BOOLEAN /\ FALSE \in BOOLEAN
    BY DEF IInv, TypeOK, Results
  <1>1. ASSUME NEW tables \in TablePatterns, SQLTables(s, tables)
        PROVE  IInv'
    <2> DEFINE c == [Idle EXCEPT !.fn = "SQLTables", !.pc = "send", !.tables = tables,
                                 !.request = Get("list")]
    <2>1. c \in Calls /\ c.request.timeout > 0 /\ c.pc = "send" /\ c.fn # "SQLColumns"
      BY IdleTyped, RequestsTyped, CatalogAssumption DEF Calls, Functions
    <2>2. Enter(s, c, result[s].open)
      BY <1>1 DEF SQLTables
    <2> HIDE DEF c
    <2> QED
      BY <1>0, <2>1, <2>2, EnterOK
  <1>2. ASSUME NEW tables \in TablePatterns, NEW columns \in ColumnPatterns,
               SQLColumns(s, tables, columns)
        PROVE  IInv'
    <2> DEFINE c == [Idle EXCEPT !.fn = "SQLColumns", !.pc = "send", !.tables = tables,
                                 !.columns = columns, !.request = Get("list")]
    <2>1. c \in Calls /\ c.request.timeout > 0 /\ c.pc = "send" /\ c.request.target = "list"
      BY IdleTyped, RequestsTyped, CatalogAssumption DEF Calls, Functions
    <2>2. Enter(s, c, result[s].open)
      BY <1>2 DEF SQLColumns
    <2> HIDE DEF c
    <2> QED
      BY <1>0, <2>1, <2>2, EnterOK
  <1>3. ASSUME NEW t \in Tables, SQLPrimaryKeys(s, t)
        PROVE  IInv'
    <2> DEFINE c == [Idle EXCEPT !.fn = "SQLPrimaryKeys", !.pc = "send", !.tables = {t},
                                 !.request = Get(t)]
    <2>1. c \in Calls /\ c.request.timeout > 0 /\ c.pc = "send" /\ c.fn # "SQLColumns"
      BY IdleTyped, RequestsTyped DEF Calls, Functions
    <2>2. Enter(s, c, result[s].open)
      BY <1>3 DEF SQLPrimaryKeys
    <2> HIDE DEF c
    <2> QED
      BY <1>0, <2>1, <2>2, EnterOK
  <1>4. ASSUME NEW timeout \in QueryTimeouts, Query(s, timeout)
        PROVE  IInv'
    <2> DEFINE c == [Idle EXCEPT !.fn = "SQLExecDirect", !.pc = "send",
                                 !.request = Request("POST", "query", TimeoutOf(timeout))]
    <2>1. c \in Calls /\ c.request.timeout > 0 /\ c.pc = "send" /\ c.fn # "SQLColumns"
      BY IdleTyped, RequestsTyped DEF Calls, Functions
    <2>2. Enter(s, c, FALSE)
      BY <1>4 DEF Query
    <2> HIDE DEF c
    <2> QED
      BY <1>0, <2>1, <2>2, EnterOK
  <1>5. ASSUME WithoutRequest(s)
        PROVE  IInv'
    <2>1. [open |-> TRUE, rows |-> {}, rc |-> "SQL_SUCCESS"] \in Results
      BY DEF Results
    <2>2. TypeOK'
      BY <1>5, <2>1 DEF IInv, TypeOK, WithoutRequest
    <2>3. PerformsOwnRequest' /\ \A u \in Stmts : (Idling(u) /\ Watched(u) /\ SoFar(u))'
      BY <1>5 DEF IInv, PerformsOwnRequest, Ready, Idling, Watched, SoFar, Pending, WithoutRequest
    <2> QED
      BY <2>2, <2>3 DEF IInv
  <1> QED
    BY <1>1, <1>2, <1>3, <1>4, <1>5 DEF Begin

\* Whoever gets the mutex finds nobody else with a request on the handle.
LEMMA SendOK ==
    ASSUME IInv, NEW s \in Stmts, Send(s)
    PROVE  IInv'
  <1>0. [call[s] EXCEPT !.pc = "perform"] \in Calls
    BY DEF IInv, TypeOK, Calls
  <1>1. /\ call' \in [Stmts -> Calls]
        /\ call'[s] = [call[s] EXCEPT !.pc = "perform"]
        /\ \A u \in Stmts \ {s} : call'[u] = call[u]
    BY <1>0 DEF IInv, TypeOK, Send
  <1>2. /\ call'[s].pc = "perform" /\ call'[s].request = call[s].request
        /\ call'[s].fn = call[s].fn /\ call'[s].todo = call[s].todo
        /\ call'[s].tables = call[s].tables /\ call'[s].rows = call[s].rows
        /\ call'[s].columns = call[s].columns
    BY <1>1 DEF IInv, TypeOK, Calls
  <1>3. curl' = call[s].request /\ call[s].request \in Requests /\ call[s].request.timeout > 0
    BY DEF IInv, TypeOK, Send, Configured, Calls
  <1>4. TypeOK'
    BY <1>1, <1>2, <1>3 DEF IInv, TypeOK, Send
  <1>5. PerformsOwnRequest'
    BY <1>1, <1>2, <1>3, CatalogAssumption DEF IInv, PerformsOwnRequest, Ready, Send
  <1>6. ASSUME NEW u \in Stmts
        PROVE  (Idling(u) /\ Watched(u) /\ SoFar(u))'
    <2>1. /\ call'[u].fn = call[u].fn /\ call'[u].request = call[u].request
          /\ call'[u].todo = call[u].todo /\ call'[u].tables = call[u].tables
          /\ call'[u].rows = call[u].rows /\ call'[u].columns = call[u].columns
          /\ call'[u].pc = "idle" <=> call[u].pc = "idle"
      BY <1>1, <1>2 DEF Send
    <2>2. Idling(u) /\ Watched(u) /\ SoFar(u) /\ during' = during /\ db' = db
      BY DEF IInv, Send
    <2> QED
      BY <2>1, <2>2 DEF Idling, Watched, SoFar, Pending
  <1> QED
    BY <1>4, <1>5, <1>6 DEF IInv

\* A call ends, whatever it leaves as the statement's result.
LEMMA FinishOK ==
    ASSUME IInv, NEW s \in Stmts, NEW res \in Results,
           Ready(s), Release, Finish(s, res), UNCHANGED <<db, curl>>
    PROVE  IInv'
  <1>1. /\ call' \in [Stmts -> Calls] /\ call'[s] = Idle
        /\ \A u \in Stmts \ {s} : call'[u] = call[u]
    BY IdleTyped DEF IInv, TypeOK, Finish
  <1>2. /\ during' \in [Stmts -> [Tables -> SUBSET States]]
        /\ \A u \in Stmts \ {s} : during'[u] = during[u]
    BY DEF IInv, TypeOK, Finish
  <1>3. Idle.pc = "idle" /\ Idle.fn = "none"
    BY DEF Idle
  <1>4. TypeOK'
    BY <1>1, <1>2, <1>3 DEF IInv, TypeOK, Finish, Release
  <1>5. PerformsOwnRequest'
    BY <1>1, <1>3, CatalogAssumption DEF IInv, PerformsOwnRequest, Ready
  <1>6. ASSUME NEW u \in Stmts
        PROVE  (Idling(u) /\ Watched(u) /\ SoFar(u))'
    <2>1. CASE u = s
      BY <1>1, <1>3, <2>1 DEF Idling, Watched, SoFar
    <2>2. CASE u # s
      <3>1. call'[u] = call[u] /\ during'[u] = during[u] /\ db' = db
        BY <1>1, <1>2, <2>2
      <3>2. Idling(u) /\ Watched(u) /\ SoFar(u)
        BY DEF IInv
      <3> QED
        BY <3>1, <3>2 DEF Idling, Watched, SoFar, Pending
    <2> QED
      BY <2>1, <2>2
  <1> QED
    BY <1>4, <1>5, <1>6 DEF IInv

\* A call goes on to the schema of table t, with what it has collected so far.
LEMMA ContinueOK ==
    ASSUME IInv, NEW s \in Stmts, NEW t \in Tables, NEW todo \in SUBSET Tables,
           NEW rows \in SUBSET Rows,
           Ready(s), Release, Continue(s, t, todo, rows), UNCHANGED <<db, curl>>,
           call[s].fn = "SQLColumns" =>
               /\ todo \cup {t} \subseteq call[s].tables /\ t \notin todo
               /\ \A u \in Tables :
                    IF u \in call[s].tables \ (todo \cup {t})
                    THEN \E sch \in during[s][u] :
                            RowsOf(u, rows) = ColumnsOf(u, sch, call[s].columns)
                    ELSE RowsOf(u, rows) = {}
    PROVE  IInv'
  <1>1. /\ call'[s] = [call[s] EXCEPT !.pc = "send", !.request = Get(t),
                                      !.todo = todo, !.rows = rows]
        /\ \A u \in Stmts \ {s} : call'[u] = call[u]
        /\ DOMAIN call' = Stmts /\ call' = [u \in Stmts |-> call'[u]]
    BY DEF IInv, TypeOK, Continue, Calls
  <1>2. Get(t) \in Requests /\ Get(t).timeout > 0 /\ Get(t).target = t
    BY RequestsTyped
  <1>3. /\ call'[s] \in Calls
        /\ call'[s].pc = "send" /\ call'[s].request = Get(t) /\ call'[s].fn = call[s].fn
        /\ call'[s].todo = todo /\ call'[s].rows = rows
        /\ call'[s].tables = call[s].tables /\ call'[s].columns = call[s].columns
    <2> DEFINE c == call[s]
    <2>1. c \in Calls
      BY DEF IInv, TypeOK
    <2>2. call'[s] = [c EXCEPT !.pc = "send", !.request = Get(t), !.todo = todo, !.rows = rows]
      BY <1>1
    <2> HIDE DEF c
    <2>3. call'[s] = [fn |-> c.fn, pc |-> "send", tables |-> c.tables, columns |-> c.columns,
                      request |-> Get(t), todo |-> todo, rows |-> rows]
      BY <2>1, <2>2 DEF Calls
    <2>4. call'[s] \in Calls
      BY <1>2, <2>1, <2>3 DEF Calls
    <2> QED
      BY <2>3, <2>4 DEF c
  <1>4. call' \in [Stmts -> Calls]
    BY <1>1, <1>3 DEF IInv, TypeOK
  <1>5. TypeOK'
    BY <1>1, <1>2, <1>3, <1>4 DEF IInv, TypeOK, Continue, Release
  <1>6. PerformsOwnRequest'
    <2>1. \A u \in Stmts \ {s} : call[u].pc # "perform"
      BY DEF IInv, PerformsOwnRequest, Ready
    <2>2. \A u \in Stmts \ {s} : call'[u] = call[u]
      BY <1>1
    <2>3. call'[s].pc = "send"
      BY <1>3
    <2>4. \A u \in Stmts : call'[u].pc # "perform"
      BY <2>1, <2>2, <2>3
    <2> QED
      BY <2>4 DEF PerformsOwnRequest, Ready
  <1>7. ASSUME NEW u \in Stmts
        PROVE  (Idling(u) /\ Watched(u) /\ SoFar(u))'
    <2>0. Idling(u) /\ Watched(u) /\ SoFar(u) /\ during' = during /\ db' = db
      BY DEF IInv, Continue
    <2>1. CASE u = s
      <3>1. Idling(u)' /\ Watched(u)'
        BY <1>3, <2>0, <2>1 DEF Idling, Watched, Ready
      <3>2. SoFar(u)'
        BY <1>2, <1>3, <2>0, <2>1 DEF SoFar, Pending
      <3> QED
        BY <3>1, <3>2
    <2>2. CASE u # s
      <3>1. call'[u] = call[u]
        BY <1>1, <2>2
      <3> QED
        BY <3>1, <2>0 DEF Idling, Watched, SoFar, Pending
    <2> QED
      BY <2>1, <2>2
  <1> QED
    BY <1>5, <1>6, <1>7 DEF IInv

\* The rows with those of one more table: what was pending but for it still
\* is, and it has the columns of the schema it has now.
LEMMA CollectedOK ==
    ASSUME IInv, NEW s \in Stmts, Ready(s), call[s].fn = "SQLColumns",
           NEW t \in Tables, t = call[s].request.target, db[t] # NoSchema
    PROVE  LET rows == call[s].rows \cup ColumnRows(t, db[t], call[s].columns) IN
           /\ call[s].todo \subseteq call[s].tables /\ t \notin call[s].todo
           /\ \A u \in Tables :
                IF u \in call[s].tables \ call[s].todo
                THEN \E sch \in during[s][u] :
                        RowsOf(u, rows) = ColumnsOf(u, sch, call[s].columns)
                ELSE RowsOf(u, rows) = {}
  <1> DEFINE new  == ColumnRows(t, db[t], call[s].columns)
             rows == call[s].rows \cup new
  <1>1. db[t] \in Schemas
    BY DEF IInv, TypeOK, States
  <1>2. new = ColumnsOf(t, db[t], call[s].columns) /\ \A row \in new : row[1] = t
    BY <1>1, ColumnRowsOK, ColumnRowsTyped
  <1>3. db[t] \in during[s][t]
    BY DEF IInv, Watched, Ready
  <1>4. /\ Pending(s) \subseteq call[s].tables /\ t \notin call[s].todo
        /\ Pending(s) = call[s].todo \cup {t}
        /\ \A u \in Tables :
              IF u \in call[s].tables \ Pending(s)
              THEN \E sch \in during[s][u] :
                      RowsOf(u, call[s].rows) = ColumnsOf(u, sch, call[s].columns)
              ELSE RowsOf(u, call[s].rows) = {}
    BY DEF IInv, SoFar, Pending
  <1> HIDE DEF new
  <1>5. RowsOf(t, rows) = new
    BY <1>2, <1>4 DEF RowsOf
  <1>6. \A u \in Tables \ {t} : RowsOf(u, rows) = RowsOf(u, call[s].rows)
    BY <1>2 DEF RowsOf
  <1> HIDE DEF rows
  <1>7. ASSUME NEW u \in Tables
        PROVE  IF u \in call[s].tables \ call[s].todo
               THEN \E sch \in during[s][u] :
                       RowsOf(u, rows) = ColumnsOf(u, sch, call[s].columns)
               ELSE RowsOf(u, rows) = {}
    <2>1. CASE u = t
      BY <1>2, <1>3, <1>4, <1>5, <2>1
    <2>2. CASE u # t
      BY <1>4, <1>6, <2>2
    <2> QED
      BY <2>1, <2>2
  <1> QED
    BY <1>4, <1>7 DEF rows, new

\* The tables found, none of them asked for yet; those not found are not there.
LEMMA FoundOK ==
    ASSUME IInv, NEW s \in Stmts, Ready(s),
           NEW found, found = {t \in call[s].tables : db[t] # NoSchema}
    PROVE  /\ found \subseteq Tables /\ found \subseteq call[s].tables
           /\ \A u \in Tables :
                IF u \in call[s].tables \ found
                THEN \E sch \in during[s][u] : RowsOf(u, {}) = ColumnsOf(u, sch, call[s].columns)
                ELSE RowsOf(u, {}) = {}
  <1>1. call[s].tables \subseteq Tables
    BY DEF IInv, TypeOK, Calls
  <1>2. ASSUME NEW u \in Tables, u \in call[s].tables \ found
        PROVE  \E sch \in during[s][u] : {} = ColumnsOf(u, sch, call[s].columns)
    <2>1. NoSchema \in during[s][u]
      BY <1>2 DEF IInv, Watched, Ready
    <2>2. ColumnsOf(u, NoSchema, call[s].columns) = {}
      BY DEF ColumnsOf
    <2> QED
      BY <2>1, <2>2
  <1>3. \A u \in Tables : RowsOf(u, {}) = {}
    BY DEF RowsOf
  <1> QED
    BY <1>1, <1>2, <1>3

LEMMA AnsweredOK ==
    ASSUME IInv, NEW s \in Stmts, Answered(s)
    PROVE  IInv'
  <1>1. /\ call[s] \in Calls /\ result[s] \in Results
        /\ call[s].rows \subseteq Rows /\ call[s].todo \subseteq Tables
    BY DEF IInv, TypeOK, Calls
  <1>2. [result[s] EXCEPT !.rc = "SQL_ERROR"] \in Results
    BY <1>1 DEF Results
  <1>3. \A rows \in SUBSET Rows : [open |-> TRUE, rows |-> rows, rc |-> "SQL_SUCCESS"] \in Results
    BY DEF Results
  <1>4. CASE Fail(s) \/ SchemaMissing(s)
    BY <1>2, <1>4, FinishOK DEF Fail, SchemaMissing, CatalogError
  <1>5. CASE QueryAnswered(s)
    <2>1. {} \in SUBSET Rows
      OBVIOUS
    <2> QED
      BY <1>3, <1>5, <2>1, FinishOK DEF QueryAnswered, Install
  <1>6. CASE Listed(s)
    <2> DEFINE found == {t \in call[s].tables : db[t] # NoSchema}
    <2>1. /\ found \subseteq Tables /\ found \subseteq call[s].tables
          /\ \A u \in Tables :
               IF u \in call[s].tables \ found
               THEN \E sch \in during[s][u] : RowsOf(u, {}) = ColumnsOf(u, sch, call[s].columns)
               ELSE RowsOf(u, {}) = {}
      BY <1>6, FoundOK, SMTT(30) DEF Listed
    <2>2. /\ Ready(s) /\ Release /\ UNCHANGED <<db, curl>>
          /\ \/ Install(s, found) \/ Install(s, {})
             \/ \E t \in found : Continue(s, t, found \ {t}, {})
      BY <1>6 DEF Listed
    <2> HIDE DEF found
    <2>3. found \in SUBSET Rows /\ {} \in SUBSET Rows
      BY <2>1 DEF Rows
    <2>4. CASE Install(s, found) \/ Install(s, {})
      BY <1>3, <2>2, <2>3, <2>4, FinishOK DEF Install
    <2>5. ASSUME NEW t \in found, Continue(s, t, found \ {t}, {})
          PROVE  IInv'
      <3>1. t \in Tables /\ found \ {t} \in SUBSET Tables /\ (found \ {t}) \cup {t} = found
        BY <2>1
      <3> QED
        BY <2>1, <2>2, <2>3, <2>5, <3>1, ContinueOK
    <2> QED
      BY <2>2, <2>4, <2>5
  <1>7. CASE SchemaRead(s)
    <2> DEFINE t == call[s].request.target
               todo == call[s].todo
               rows == call[s].rows \cup ColumnRows(t, db[t], call[s].columns)
    <2>1. /\ Ready(s) /\ Release /\ UNCHANGED <<db, curl>>
          /\ t \in Tables /\ db[t] # NoSchema
          /\ \/ Install(s, KeyRows(t, db[t])) \/ Install(s, rows)
             \/ \E u \in todo : Continue(s, u, todo \ {u}, rows)
      BY <1>7 DEF SchemaRead
    <2>2. db[t] \in Schemas
      BY <2>1 DEF IInv, TypeOK, States
    <2>3. KeyRows(t, db[t]) \in SUBSET Rows /\ rows \in SUBSET Rows
      BY <1>1, <2>1, <2>2, KeyRowsTyped, ColumnRowsTyped
    <2>4. CASE Install(s, KeyRows(t, db[t])) \/ Install(s, rows)
      BY <1>3, <2>1, <2>3, <2>4, FinishOK DEF Install
    <2>5. ASSUME NEW u \in todo, Continue(s, u, todo \ {u}, rows)
          PROVE  IInv'
      <3>1. u \in Tables /\ todo \ {u} \in SUBSET Tables /\ (todo \ {u}) \cup {u} = todo
        BY <1>1, <2>5
      <3>2. call[s].fn = "SQLColumns" =>
              /\ todo \subseteq call[s].tables
              /\ \A v \in Tables :
                   IF v \in call[s].tables \ todo
                   THEN \E sch \in during[s][v] :
                           RowsOf(v, rows) = ColumnsOf(v, sch, call[s].columns)
                   ELSE RowsOf(v, rows) = {}
        BY <2>1, CollectedOK, ZenonT(30)
      <3> HIDE DEF t, todo, rows
      <3> QED
        BY <2>1, <2>3, <2>5, <3>1, <3>2, ContinueOK
    <2> QED
      BY <2>1, <2>4, <2>5
  <1> QED
    BY <1>4, <1>5, <1>6, <1>7 DEF Answered

\* The past of a call only grows, so that what was found in it stays found.
LEMMA ChangeTableOK ==
    ASSUME IInv, NEW t \in Tables, NEW sch \in States, ChangeTable(t, sch)
    PROVE  IInv'
  <1>1. /\ call' = call /\ busy' = busy /\ curl' = curl /\ result' = result
        /\ db' = [db EXCEPT ![t] = sch]
    BY DEF ChangeTable
  <1>2. \A s \in Stmts : during'[s] = IF call[s].pc = "idle" THEN during[s]
                                      ELSE [during[s] EXCEPT ![t] = @ \cup {sch}]
    BY DEF ChangeTable
  <1>3. \A s \in Stmts : during[s] \in [Tables -> SUBSET States]
    BY DEF IInv, TypeOK
  <1>4. \A s \in Stmts, u \in Tables :
            during'[s][u] = IF call[s].pc # "idle" /\ u = t THEN during[s][u] \cup {sch}
                            ELSE during[s][u]
    BY <1>2, <1>3, ZenonT(30)
  <1>5. during' \in [Stmts -> [Tables -> SUBSET States]]
    <2>1. ASSUME NEW s \in Stmts
          PROVE  during'[s] \in [Tables -> SUBSET States]
      <3>1. during[s][t] \cup {sch} \in SUBSET States
        BY <1>3
      <3>2. [during[s] EXCEPT ![t] = @ \cup {sch}] \in [Tables -> SUBSET States]
        BY <1>3, <3>1
      <3> QED
        BY <1>2, <1>3, <3>2
    <2>2. during' = [s \in Stmts |-> during'[s]]
      BY DEF ChangeTable
    <2> QED
      BY <2>1, <2>2
  <1>6. TypeOK'
    BY <1>1, <1>5 DEF IInv, TypeOK
  <1>7. PerformsOwnRequest'
    BY <1>1 DEF IInv, PerformsOwnRequest, Ready
  <1>8. ASSUME NEW s \in Stmts
        PROVE  (Idling(s) /\ Watched(s) /\ SoFar(s))'
    <2>0. Idling(s) /\ Watched(s) /\ SoFar(s)
      BY DEF IInv
    <2>1. Idling(s)'
      BY <1>1, <2>0 DEF Idling
    <2>2. Watched(s)'
      BY <1>1, <1>4, <2>0 DEF IInv, TypeOK, Watched
    <2>3. \A u \in Tables : during[s][u] \subseteq during'[s][u]
      BY <1>4
    <2>4. Pending(s)' = Pending(s)
      BY <1>1 DEF Pending
    <2>5. SoFar(s)'
      BY <1>1, <2>0, <2>3, <2>4 DEF SoFar
    <2> QED
      BY <2>1, <2>2, <2>5
  <1> QED
    BY <1>6, <1>7, <1>8 DEF IInv

LEMMA NextOK == IInv /\ [Next]_vars => IInv'
  <1> SUFFICES ASSUME IInv, [Next]_vars PROVE IInv'
    OBVIOUS
  <1>1. CASE UNCHANGED vars
    BY <1>1 DEF IInv, TypeOK, PerformsOwnRequest, Ready, Idling, Watched, SoFar, Pending, vars
  <1>2. ASSUME NEW s \in Stmts, Begin(s) \/ Send(s) \/ Answered(s)
        PROVE  IInv'
    BY <1>2, BeginOK, SendOK, AnsweredOK
  <1>3. ASSUME NEW t \in Tables, NEW sch \in States, ChangeTable(t, sch)
        PROVE  IInv'
    BY <1>3, ChangeTableOK
  <1> QED
    BY <1>1, <1>2, <1>3 DEF Next

-----------------------------------------------------------------------------
(* Theorems *)

LEMMA Invariance == Spec => []IInv
  BY InitOK, NextOK, PTL DEF Spec

\* Every variable has its type, and no request goes out without a timeout.
THEOREM TypeCorrect == Spec => []TypeOK
  <1>1. IInv => TypeOK
    BY DEF IInv
  <1> QED
    BY <1>1, Invariance, PTL

\* The request performed on the shared curl handle is the one the statement
\* that holds the mutex has asked for, whoever used the handle before.
THEOREM RequestsDoNotMix == Spec => []PerformsOwnRequest
  <1>1. IInv => PerformsOwnRequest
    BY DEF IInv
  <1> QED
    BY <1>1, Invariance, PTL

\* What the pieces of a step do to the statement that takes it, and that they
\* do nothing to the others.
LEMMA EnterEffect ==
    ASSUME TypeOK, NEW v \in Stmts, NEW c, NEW open, Enter(v, c, open)
    PROVE  /\ call'[v] = c
           /\ \A s \in Stmts \ {v} : call'[s] = call[s] /\ result'[s] = result[s]
  BY DEF Enter, TypeOK

LEMMA FinishEffect ==
    ASSUME TypeOK, NEW v \in Stmts, NEW res, Finish(v, res)
    PROVE  /\ call'[v] = Idle /\ result'[v] = res
           /\ \A s \in Stmts \ {v} : call'[s] = call[s] /\ result'[s] = result[s]
  BY DEF Finish, TypeOK

LEMMA ContinueEffect ==
    ASSUME TypeOK, NEW v \in Stmts, NEW t, NEW todo, NEW rows, Continue(v, t, todo, rows)
    PROVE  /\ call'[v].pc = "send"
           /\ \A s \in Stmts \ {v} : call'[s] = call[s] /\ result'[s] = result[s]
  <1>1. call[v] \in Calls
    BY DEF TypeOK
  <1>2. call'[v] = [call[v] EXCEPT !.pc = "send", !.request = Get(t), !.todo = todo, !.rows = rows]
    BY DEF Continue, TypeOK
  <1>3. call'[v].pc = "send"
    BY <1>1, <1>2 DEF Calls
  <1>4. \A s \in Stmts \ {v} : call'[s] = call[s] /\ result'[s] = result[s]
    BY DEF Continue, TypeOK
  <1> QED
    BY <1>3, <1>4

LEMMA SendEffect ==
    ASSUME TypeOK, NEW v \in Stmts, Send(v)
    PROVE  /\ call[v].pc = "send" /\ call'[v].pc = "perform"
           /\ \A s \in Stmts \ {v} : call'[s] = call[s] /\ result'[s] = result[s]
  <1>1. call[v] \in Calls
    BY DEF TypeOK
  <1>2. call'[v] = [call[v] EXCEPT !.pc = "perform"]
    BY DEF Send, TypeOK
  <1>3. call'[v].pc = "perform"
    BY <1>1, <1>2 DEF Calls
  <1> QED
    BY <1>3 DEF Send, TypeOK

\* A call begins, or a result is installed without one.
LEMMA BeginEffect ==
    ASSUME TypeOK, NEW v \in Stmts, Begin(v)
    PROVE  /\ call[v].pc = "idle"
           /\ WithoutRequest(v) \/ call'[v].pc = "send"
           /\ \A s \in Stmts \ {v} : call'[s] = call[s] /\ result'[s] = result[s]
  <1>1. ASSUME NEW c, NEW open, c.pc = "send", Enter(v, c, open)
        PROVE  /\ call[v].pc = "idle" /\ call'[v].pc = "send"
               /\ \A s \in Stmts \ {v} : call'[s] = call[s] /\ result'[s] = result[s]
    BY <1>1, EnterEffect DEF Enter
  <1>2. ASSUME NEW tables, SQLTables(v, tables)
        PROVE  call[v].pc = "idle" /\ call'[v].pc = "send"
               /\ \A s \in Stmts \ {v} : call'[s] = call[s] /\ result'[s] = result[s]
    <2> DEFINE c == [Idle EXCEPT !.fn = "SQLTables", !.pc = "send", !.tables = tables,
                                 !.request = Get("list")]
    <2>1. c.pc = "send"
      BY DEF Idle
    <2>2. Enter(v, c, result[v].open)
      BY <1>2 DEF SQLTables
    <2> HIDE DEF c
    <2> QED
      BY <1>1, <2>1, <2>2
  <1>3. ASSUME NEW tables, NEW columns, SQLColumns(v, tables, columns)
        PROVE  call[v].pc = "idle" /\ call'[v].pc = "send"
               /\ \A s \in Stmts \ {v} : call'[s] = call[s] /\ result'[s] = result[s]
    <2> DEFINE c == [Idle EXCEPT !.fn = "SQLColumns", !.pc = "send", !.tables = tables,
                                 !.columns = columns, !.request = Get("list")]
    <2>1. c.pc = "send"
      BY DEF Idle
    <2>2. Enter(v, c, result[v].open)
      BY <1>3 DEF SQLColumns
    <2> HIDE DEF c
    <2> QED
      BY <1>1, <2>1, <2>2
  <1>4. ASSUME NEW t, SQLPrimaryKeys(v, t)
        PROVE  call[v].pc = "idle" /\ call'[v].pc = "send"
               /\ \A s \in Stmts \ {v} : call'[s] = call[s] /\ result'[s] = result[s]
    <2> DEFINE c == [Idle EXCEPT !.fn = "SQLPrimaryKeys", !.pc = "send", !.tables = {t},
                                 !.request = Get(t)]
    <2>1. c.pc = "send"
      BY DEF Idle
    <2>2. Enter(v, c, result[v].open)
      BY <1>4 DEF SQLPrimaryKeys
    <2> HIDE DEF c
    <2> QED
      BY <1>1, <2>1, <2>2
  <1>5. ASSUME NEW timeout, Query(v, timeout)
        PROVE  call[v].pc = "idle" /\ call'[v].pc = "send"
               /\ \A s \in Stmts \ {v} : call'[s] = call[s] /\ result'[s] = result[s]
    BY <1>1, <1>5 DEF Query, Idle
  <1>6. WithoutRequest(v) =>
               /\ call[v].pc = "idle"
               /\ \A s \in Stmts \ {v} : call'[s] = call[s] /\ result'[s] = result[s]
    BY DEF WithoutRequest, TypeOK
  <1> QED
    BY <1>2, <1>3, <1>4, <1>5, <1>6 DEF Begin

\* A request answered: the call goes on, ends with rows, or ends with an
\* error and the old result.
LEMMA AnsweredEffect ==
    ASSUME TypeOK, NEW v \in Stmts, Answered(v)
    PROVE  /\ call[v].pc = "perform"
           /\ \/ call'[v].pc = "send"
              \/ call'[v] = Idle /\ result'[v].rc = "SQL_SUCCESS"
              \/ /\ call'[v] = Idle /\ result'[v].rc = "SQL_ERROR"
                 /\ result'[v].rows = result[v].rows /\ result'[v].open = result[v].open
           /\ \A s \in Stmts \ {v} : call'[s] = call[s] /\ result'[s] = result[s]
  <1>1. \A t, todo, rows : Continue(v, t, todo, rows) =>
            /\ call'[v].pc = "send"
            /\ \A s \in Stmts \ {v} : call'[s] = call[s] /\ result'[s] = result[s]
    BY ContinueEffect
  <1>2. \A rows : Install(v, rows) =>
            /\ call'[v] = Idle /\ result'[v].rc = "SQL_SUCCESS"
            /\ \A s \in Stmts \ {v} : call'[s] = call[s] /\ result'[s] = result[s]
    BY FinishEffect DEF Install
  <1>3. CatalogError(v) =>
            /\ call'[v] = Idle /\ result'[v].rc = "SQL_ERROR"
            /\ result'[v].rows = result[v].rows /\ result'[v].open = result[v].open
            /\ \A s \in Stmts \ {v} : call'[s] = call[s] /\ result'[s] = result[s]
    <2>1. result[v] \in Results
      BY DEF TypeOK
    <2>2. LET res == [result[v] EXCEPT !.rc = "SQL_ERROR"] IN
            res.rc = "SQL_ERROR" /\ res.rows = result[v].rows /\ res.open = result[v].open
      BY <2>1 DEF Results
    <2> QED
      BY <2>2, FinishEffect DEF CatalogError
  <1>4. CASE Fail(v) \/ SchemaMissing(v)
    BY <1>3, <1>4 DEF Fail, SchemaMissing, Ready
  <1>5. CASE QueryAnswered(v)
    BY <1>2, <1>5 DEF QueryAnswered, Ready
  <1>6. CASE Listed(v)
    BY <1>1, <1>2, <1>6 DEF Listed, Ready
  <1>7. CASE SchemaRead(v)
    BY <1>1, <1>2, <1>7 DEF SchemaRead, Ready
  <1> QED
    BY <1>4, <1>5, <1>6, <1>7 DEF Answered

\* SQLColumns succeeds only with what it has collected.
LEMMA ColumnsStep ==
    ASSUME IInv, [Next]_vars, NEW s \in Stmts, call[s].fn = "SQLColumns",
           call'[s].pc = "idle", result'[s].rc = "SQL_SUCCESS", NEW u \in Tables
    PROVE  IF u \in call[s].tables
           THEN \E sch \in during[s][u] :
                   RowsOf(u, result'[s].rows) = ColumnsOf(u, sch, call[s].columns)
           ELSE RowsOf(u, result'[s].rows) = {}
  <1>0. TypeOK
    BY DEF IInv
  <1>1. call[s].pc # "idle" /\ call[s].request.target # "query"
    BY CatalogAssumption DEF IInv, Idling, SoFar
  <1>2. Answered(s)
    <2>1. ASSUME NEW v \in Stmts, Begin(v) \/ Send(v) \/ Answered(v), v # s
          PROVE  call'[s] = call[s]
      BY <1>0, <2>1, BeginEffect, SendEffect, AnsweredEffect
    <2>2. \A t \in Tables, sch \in States : ChangeTable(t, sch) => call'[s] = call[s]
      BY DEF ChangeTable
    <2>3. ~Begin(s) /\ ~Send(s)
      BY <1>0, <1>1, BeginEffect, SendEffect
    <2> QED
      BY <1>1, <2>1, <2>2, <2>3 DEF Next, vars
  <1>3. \A t, todo, rows : ~Continue(s, t, todo, rows)
    BY <1>0, ContinueEffect
  <1>4. \A rows : Install(s, rows) => result'[s].rows = rows
    BY <1>0, FinishEffect DEF Install
  <1>5. ~CatalogError(s)
    BY DEF CatalogError, Finish, IInv, TypeOK, Results
  <1>6. CASE Listed(s)
    <2> DEFINE found == {t \in call[s].tables : db[t] # NoSchema}
    <2>1. Ready(s) /\ found = {} /\ result'[s].rows = {}
      BY <1>3, <1>4, <1>6 DEF Listed
    <2> QED
      BY <2>1, FoundOK
  <1>7. CASE SchemaRead(s)
    <2> DEFINE t == call[s].request.target
               rows == call[s].rows \cup ColumnRows(t, db[t], call[s].columns)
    <2>1. /\ Ready(s) /\ t \in Tables /\ db[t] # NoSchema
          /\ call[s].todo = {} /\ result'[s].rows = rows
      BY <1>3, <1>4, <1>7 DEF SchemaRead
    <2> QED
      BY <2>1, CollectedOK
  <1> QED
    BY <1>1, <1>2, <1>5, <1>6, <1>7 DEF Answered, Fail, SchemaMissing, QueryAnswered

\* What SQLColumns reports of each table is what the table was at one moment of
\* the call, with the ordinals of its schema, for any number of tables that
\* come, change and go meanwhile.
THEOREM ColumnsAreOfTheCall == Spec => ColumnsWereThere
  <1>1. IInv /\ [Next]_vars =>
          \A s \in Stmts :
              call[s].fn = "SQLColumns" /\ call'[s].pc = "idle" /\ result'[s].rc = "SQL_SUCCESS" =>
                  \A t \in Tables :
                      LET reported == {row \in result'[s].rows : row[1] = t} IN
                      IF t \in call[s].tables
                      THEN \E sch \in during[s][t] : reported = ColumnsOf(t, sch, call[s].columns)
                      ELSE reported = {}
    BY ColumnsStep DEF RowsOf
  <1> QED
    BY <1>1, Invariance, PTL DEF Spec, ColumnsWereThere

LEMMA FailureStep ==
    ASSUME IInv, [Next]_vars, NEW s \in Stmts
    PROVE  /\ call[s].fn # "none" /\ call'[s].pc = "idle" /\ result'[s].rc = "SQL_ERROR" =>
                result'[s].rows = result[s].rows /\ result'[s].open = result[s].open
           /\ call[s] = call'[s] /\ result[s] # result'[s] => WithoutRequest(s)
  <1>0. TypeOK /\ Idling(s)
    BY DEF IInv
  <1>1. CASE UNCHANGED vars \/ \E t \in Tables, sch \in States : ChangeTable(t, sch)
    BY <1>1 DEF vars, ChangeTable
  <1>2. ASSUME NEW v \in Stmts, v # s, Begin(v) \/ Send(v) \/ Answered(v)
        PROVE  result'[s] = result[s]
    BY <1>0, <1>2, BeginEffect, SendEffect, AnsweredEffect
  <1>3. CASE Begin(s) \/ Send(s)
    BY <1>0, <1>3, BeginEffect, SendEffect DEF Idling
  <1>4. CASE Answered(s)
    BY <1>0, <1>4, AnsweredEffect DEF Idle
  <1> QED
    BY <1>1, <1>2, <1>3, <1>4 DEF Next

\* A function that fails, at whichever of its requests, leaves the result that
\* was open; and a statement's result changes by its own calls only.
THEOREM FailuresKeepRows == Spec => FailureKeepsRows
  <1>1. IInv /\ [Next]_vars =>
          \A s \in Stmts :
              /\ call[s].fn # "none" /\ call'[s].pc = "idle" /\ result'[s].rc = "SQL_ERROR" =>
                     result'[s].rows = result[s].rows /\ result'[s].open = result[s].open
              /\ call[s] = call'[s] /\ result[s] # result'[s] => WithoutRequest(s)
    BY FailureStep
  <1> QED
    BY <1>1, Invariance, PTL DEF Spec, FailureKeepsRows

=============================================================================
