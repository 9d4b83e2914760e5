----------------------------- MODULE DrainProofs -----------------------------
(***************************************************************************)
(* The application of Drain, for every result, every length of its values  *)
(* and every buffer with room for a unit: what it does are calls of        *)
(* Statement, and it moves on from a row only with all of it.              *)
(***************************************************************************)
EXTENDS Drain, StatementProofs

-----------------------------------------------------------------------------
(* Every step is a call on the statement, or none *)

ReadingOK == column \in Nat \ {0} /\ type \in DrainTypes

LEMMA ReadingStep == ReadingOK /\ [DrainNext]_drainVars => ReadingOK'
<1> SUFFICES ASSUME ReadingOK, [DrainNext]_drainVars PROVE ReadingOK'
  OBVIOUS
<1>1. CASE NextRow
  BY <1>1 DEF NextRow, ReadingOK
<1>2. CASE Read
  BY <1>2 DEF Read, ReadingOK
<1>3. CASE ~NextRow /\ ~Read
  <2>1. UNCHANGED <<column, type>>
    BY <1>3 DEF DrainNext, Program, SetPointer, Run, RowDone, Ask, drainVars
  <2> QED BY <2>1 DEF ReadingOK
<1> QED BY <1>1, <1>2, <1>3

LEMMA ProgramIsCalls == ASSUME TypeOK, ReadingOK, DrainNext PROVE [Next]_vars
<1>1. CASE SetPointer
  BY <1>1, DrainAssumption DEF SetPointer, Next
<1>2. CASE Run
  BY <1>2 DEF Run, Next
<1>3. CASE NextRow
  BY <1>3 DEF NextRow, Next
<1>4. CASE Read
  <2>1. PICK b \in DrainBuffers : GetData(column, type, b)
    BY <1>4 DEF Read
  <2>2. column \in 0..(MaxCols + 1) /\ type \in ReadTypes /\ b \in ReadBuffers
    BY <1>4, DrainAssumption, BoundsAssumption DEF Read, ReadingOK, TypeOK, ResultOK, ResultSets
  <2> QED BY <2>1, <2>2 DEF Next
<1>5. CASE RowDone
  BY <1>5 DEF RowDone
<1>6. CASE Ask
  <2>1. 1..Len(rs.columns) \subseteq 0..(MaxCols + 1)
    BY BoundsAssumption DEF TypeOK, ResultOK, ResultSets
  <2> QED BY <1>6, <2>1 DEF Ask, Next
<1> QED BY <1>1, <1>2, <1>3, <1>4, <1>5, <1>6 DEF DrainNext, Program

\* The application is one of those that Statement allows.
THEOREM ProgramMakesCalls == DrainSpec => Spec
<1>1. DrainInit => Init /\ ReadingOK
  BY DEF DrainInit, ReadingOK
<1>2. IInv /\ ReadingOK /\ [DrainNext]_drainVars => [Next]_vars
  BY ProgramIsCalls DEF IInv, drainVars
<1> QED BY <1>1, <1>2, IInvInit, IInvStep, ReadingStep, PTL DEF DrainSpec, Spec

-----------------------------------------------------------------------------
(* One call of SQLGetData on the column that is being read *)

\* What the application must have of a column before it turns to the next.
Had(g) == g.null \/ (g.complete /\ g.gapless)

\* A NULL is marked as read only when it has been told.
NullTold(g, offset, cell) == cell.null /\ offset = Consumed => g.null

\* A call that delivers nothing, and one that tells a NULL.
LEMMA ReceivedNull ==
  ASSUME NEW g \in ColumnViews, NEW t, NEW b, NEW o
  PROVE  LET r == Received(g, t, b, o)
         IN  /\ r.null <=> g.null \/ (o.rc \in {SUCCESS, WITH_INFO} /\ o.ind = NULL_DATA)
             /\ r.types \subseteq g.types \cup {t}
             /\ ~Delivers(t, b, o) =>
                  r.types = g.types /\ (r.complete <=> g.complete) /\ (r.gapless <=> g.gapless)
<1> DEFINE r == Received(g, t, b, o)
<1>1. r.null <=> g.null \/ (o.rc \in {SUCCESS, WITH_INFO} /\ o.ind = NULL_DATA)
  BY Zenon DEF Received
<1>2. r.types \subseteq g.types \cup {t}
  BY DEF Received
<1>3. ~Delivers(t, b, o) =>
        r.types = g.types /\ (r.complete <=> g.complete) /\ (r.gapless <=> g.gapless)
  BY ReceivedFields
<1> QED BY <1>1, <1>2, <1>3, Zenon

\* A NULL is told by the first call; every later one answers SQL_NO_DATA.
LEMMA NullIsTold ==
  ASSUME NEW g \in ColumnViews, NEW cell, cell.null, NEW colType, NEW t \in Chunked,
         NEW offset \in Nat \cup {Consumed}, NEW b \in Buffers, b.ind,
         g.types \subseteq {t}, NullTold(g, offset, cell)
  PROVE  LET o == ConvertCell(offset, cell, colType, t, b, TRUE)
             r == Received(g, t, b, o)
         IN  /\ o.rc \in {NO_DATA, ERROR} => Had(r)
             /\ r.types \subseteq {t}
             /\ NullTold(r, o.offset, cell)
<1> DEFINE o == ConvertCell(offset, cell, colType, t, b, TRUE)
           r == Received(g, t, b, o)
<1>1. o = IF offset < 0 THEN Plain(NO_DATA, NoState, NotSet, offset)
          ELSE Plain(SUCCESS, NoState, NULL_DATA, Consumed)
  BY DEF ConvertCell, ConvertNull
<1>2. g.null \/ (o.rc \in {SUCCESS, WITH_INFO} /\ o.ind = NULL_DATA)
  <2> HIDE DEF o
  <2>1. CASE offset < 0
    <3>1. offset = Consumed
      BY <2>1
    <3> QED BY <3>1, Zenon DEF NullTold
  <2>2. CASE ~(offset < 0)
    <3>1. o = Plain(SUCCESS, NoState, NULL_DATA, Consumed)
      BY <1>1, <2>2
    <3>2. o.rc = SUCCESS /\ o.ind = NULL_DATA
      BY <3>1 DEF Plain, Outcome
    <3> QED BY <3>2
  <2> QED BY <2>1, <2>2
<1>3. r.null /\ r.types \subseteq g.types \cup {t}
  <2> HIDE DEF o
  <2> QED BY <1>2, ReceivedNull, Zenon
<1> QED BY <1>3 DEF Had, NullTold

\* A value that is not NULL is refused by no call, and SQL_NO_DATA comes after
\* its end.
LEMMA ValueIsHad ==
  ASSUME NEW g \in ColumnViews, NEW cell \in Cells, ~cell.null, NEW colType \in ColumnTypes,
         NEW t \in Chunked, NEW offset \in Nat \cup {Consumed}, offset < SizeMax,
         NEW b \in Buffers, b.ptr, b.len >= 0,
         g.types \subseteq {t}, Matches(g, offset, cell, colType)
  PROVE  LET o == ConvertCell(offset, cell, colType, t, b, TRUE)
             r == Received(g, t, b, o)
         IN  /\ o.rc \in {NO_DATA, ERROR} => Had(r)
             /\ r.types \subseteq {t}
             /\ NullTold(r, o.offset, cell)
<1> DEFINE total == Total(cell, colType, t)
           o == ConvertCell(offset, cell, colType, t, b, TRUE)
           r == Received(g, t, b, o)
<1>1. o = CopyChunked(offset, total, t, b, TRUE)
  BY DEF ConvertCell, Resolve, Chunked
<1>2. ~(offset < 0) => o.rc \in {SUCCESS, WITH_INFO}
  <2> SUFFICES ASSUME ~(offset < 0) PROVE o.rc \in {SUCCESS, WITH_INFO}
    OBVIOUS
  <2> HIDE DEF total
  <2>1. ~(b.len < 0)
    BY DEF Buffers
  <2> DEFINE remaining == SizeT(total - offset)
             n == Lesser(remaining, Usable(b.len, t))
             some == Outcome(WITH_INFO, "01004", IndFor(b, remaining), offset, n,
                             n + TerminatorWritten(b.len, t), Advance(offset, n))
             all == Outcome(SUCCESS, NoState, IndFor(b, remaining), offset, n,
                            n + TerminatorWritten(b.len, t), Consumed)
  <2>2. o = IF n < remaining THEN some ELSE all
    BY <1>1, <2>1, Zenon DEF CopyChunked
  <2>3. some.rc = WITH_INFO /\ all.rc = SUCCESS
    BY DEF Outcome
  <2> HIDE DEF o, some, all, n, remaining
  <2> QED BY <2>2, <2>3
<1>3. r.types \subseteq {t}
  <2> HIDE DEF o
  <2> QED BY ReceivedNull
<1>4. ASSUME o.rc \in {NO_DATA, ERROR} PROVE Had(r)
  <2> HIDE DEF o
  <2>1. o.rc \notin {SUCCESS, WITH_INFO}
    BY <1>4 DEF NO_DATA, ERROR, SUCCESS, WITH_INFO
  <2>2. offset = Consumed /\ ~(offset >= 0)
    BY <1>2, <2>1 DEF Consumed
  <2>3. r.types = g.types /\ (r.complete <=> g.complete) /\ (r.gapless <=> g.gapless)
    <3>1. ~Delivers(t, b, o)
      BY <2>1 DEF Delivers
    <3> QED BY <3>1, ReceivedNull
  <2>4. g.bytes \in Nat
    BY DEF ColumnViews
  <2>5. g.types = {t}
    BY <2>2 DEF Matches
  <2>6. g.complete /\ g.gapless
    BY <2>2, <2>4, <2>5 DEF Matches
  <2> HIDE DEF r
  <2> QED BY <2>3, <2>6 DEF Had
<1>5. NullTold(r, o.offset, cell)
  BY DEF NullTold
<1> QED BY <1>3, <1>4, <1>5

-----------------------------------------------------------------------------
(* The inductive invariant *)

\* The columns before the one that is being read are had, those after it are
\* untouched, and it is read with one type.
RowInOrder ==
    \A c \in 1..Len(rs.columns) :
        /\ c < column => Had(got[c])
        /\ c = column => got[c].types \subseteq {type}
        /\ c > column => got[c].types = {}

NullsTold ==
    OnRow => \A c \in 1..Len(rs.columns) :
        NullTold(got[c], getDataOffsets[c], CellAt(c, cursor))

\* rowsFetched says where the end is only once its pointer is set, and then a
\* fetch that leaves it at 1 has moved to a row.
DrainInv ==
    /\ ReadingOK
    /\ step # "attribute" => "ROWS_FETCHED_PTR" \in rowPtrs
    /\ step \in {"attribute", "execute"} => ~hasResult
    /\ step \in {"fetch", "read"} => hasResult
    /\ step = "read" => OnRow /\ RowInOrder
    /\ NullsTold
    /\ RowRead

LEMMA DrainInitOK == DrainInit => DrainInv
  BY DEF DrainInit, Init, DrainInv, ReadingOK, OnRow, NullsTold, RowRead

LEMMA SetPointerKeeps == ASSUME DrainInv, SetPointer PROVE DrainInv'
<1>1. ~hasResult' /\ step' = "execute" /\ UNCHANGED <<column, type>>
  BY DEF SetPointer, SetStmtAttr, resultVars, DrainInv
<1>2. "ROWS_FETCHED_PTR" \in rowPtrs'
  BY DEF SetPointer, SetStmtAttr
<1> QED BY <1>1, <1>2 DEF DrainInv, ReadingOK, OnRow, NullsTold, RowRead

LEMMA RunKeeps == ASSUME DrainInv, Run PROVE DrainInv'
<1>1. PICK text \in Texts : ExecDirect(text)
  BY DEF Run
<1>2. UNCHANGED <<rowPtrs, column, type>> /\ "ROWS_FETCHED_PTR" \in rowPtrs
  BY <1>1 DEF Run, ExecDirect, DrainInv
<1>3. ~OnRow'
  <2>1. ASSUME NEW r, Install(r) PROVE ~OnRow'
    BY <2>1 DEF Install, OnRow
  <2>2. ASSUME Close PROVE ~OnRow'
    BY <2>2 DEF Close, OnRow
  <2>3. ASSUME UNCHANGED resultVars PROVE ~OnRow'
    BY <2>3 DEF Run, DrainInv, OnRow, RowCount, resultVars
  <2> QED BY <1>1, <2>1, <2>2, <2>3 DEF ExecDirect, ExecuteStatement
<1>4. ret'.rc = SUCCESS => hasResult'
  <2>1. ASSUME NEW fn, NEW state, Return(fn, ERROR, state) \/ ReturnQueried(fn, ERROR, state)
        PROVE  ret'.rc # SUCCESS
    BY <2>1 DEF Return, ReturnQueried, Call, Querying, ERROR, SUCCESS
  <2>2. ASSUME NEW r, Install(r) PROVE hasResult'
    BY <2>2 DEF Install
  <2> QED BY <1>1, <2>1, <2>2 DEF ExecDirect, ExecuteStatement
<1>5. step' = IF ret'.rc = SUCCESS THEN "fetch" ELSE "done"
  BY DEF Run
<1> QED BY <1>2, <1>3, <1>4, <1>5 DEF DrainInv, ReadingOK, NullsTold, RowRead

LEMMA NextRowKeeps == ASSUME IInv, DrainInv, NextRow PROVE DrainInv'
<1>1. /\ hasResult /\ "ROWS_FETCHED_PTR" \in rowPtrs
      /\ step' = IF rowsFetched' = 1 THEN "read" ELSE "done"
      /\ column' = 1 /\ type' \in DrainTypes
  BY DEF NextRow, DrainInv
<1>2. ReadingOK' /\ UNCHANGED <<hasResult, rs, rowPtrs>>
  <2>1. UNCHANGED <<hasResult, rs>>
    BY DEF NextRow, Fetch, FetchNextRow, resultVars
  <2>2. UNCHANGED rowPtrs
    BY DEF NextRow, Fetch, inputVars
  <2> QED BY <1>1, <2>1, <2>2 DEF ReadingOK
<1>3. CASE AtEnd
  <2>1. rowsFetched' = 0 /\ cursor' = RowCount
    BY <1>1, <1>3 DEF NextRow, Fetch, FetchNextRow
  <2>2. ~OnRow'
    BY <1>2, <2>1 DEF OnRow, RowCount, IInv, TypeOK, ResultOK, ResultSets
  <2> QED BY <1>1, <1>2, <2>1, <2>2 DEF DrainInv, NullsTold, RowRead
<1>4. CASE ~AtEnd
  <2>1. /\ cursor' = cursor + 1 /\ rowsFetched' = 1
        /\ getDataOffsets' = NoOffsets /\ got' = GotNothing
    BY <1>1, <1>4 DEF NextRow, Fetch, FetchNextRow, ClearOffsets
  <2>2. OnRow'
    BY <1>1, <1>2, <1>4, <2>1
    DEF OnRow, RowCount, AtEnd, IInv, CursorInRange, TypeOK, ResultOK, ResultSets
  <2>3. 1..Len(rs'.columns) \subseteq Cols
    BY <1>2, BoundsAssumption DEF IInv, TypeOK, ResultOK, ResultSets, Cols
  <2>4. \A c \in 1..Len(rs'.columns) : got'[c].types = {} /\ getDataOffsets'[c] = 0
    BY <2>1, <2>3 DEF GotNothing, NothingGot, NoOffsets
  <2>5. RowInOrder'
    <3>1. \A c \in 1..Len(rs'.columns) : ~(c < 1)
      OBVIOUS
    <3> QED BY <1>1, <2>4, <3>1 DEF RowInOrder
  <2>6. NullsTold'
    BY <2>4 DEF NullsTold, NullTold, Consumed
  <2>7. step' = "read"
    BY <1>1, <2>1
  <2> QED BY <1>1, <1>2, <2>2, <2>5, <2>6, <2>7 DEF DrainInv, RowRead
<1> QED BY <1>3, <1>4

LEMMA RowDoneKeeps == ASSUME IInv, DrainInv, RowDone PROVE DrainInv'
<1>1. /\ UNCHANGED <<vars, column, type>> /\ step = "read" /\ step' = "fetch"
      /\ column > Len(rs.columns)
  BY DEF RowDone
<1>2. \A c \in 1..Len(rs.columns) : c < column
  BY <1>1 DEF DrainInv, ReadingOK, IInv, TypeOK, ResultOK, ResultSets
<1>3. RowRead'
  BY <1>1, <1>2 DEF DrainInv, RowInOrder, Had, RowRead, OnRow, RowCount, vars, resultVars, appVars
<1>4. NullsTold'
  BY <1>1 DEF DrainInv, NullsTold, OnRow, RowCount, CellAt, vars, resultVars, appVars
<1> QED
  BY <1>1, <1>3, <1>4 DEF DrainInv, ReadingOK, vars, resultVars, inputVars

LEMMA AskKeeps == ASSUME DrainInv, Ask \/ UNCHANGED drainVars PROVE DrainInv'
<1>1. UNCHANGED <<resultVars, inputVars, appVars, step, column, type>>
  BY DEF Ask, MoreResults, Describe, drainVars, vars
<1>2. OnRow' = OnRow /\ \A c : CellAt(c, cursor)' = CellAt(c, cursor)
  BY <1>1 DEF OnRow, RowCount, CellAt, resultVars
<1>3. NullsTold' /\ RowRead' /\ (RowInOrder => RowInOrder')
  BY <1>1, <1>2 DEF DrainInv, NullsTold, RowRead, RowInOrder, resultVars, appVars
<1> QED BY <1>1, <1>2, <1>3 DEF DrainInv, ReadingOK, resultVars, inputVars

LEMMA ReadKeeps == ASSUME IInv, DrainInv, Read PROVE DrainInv'
<1>1. PICK b \in DrainBuffers : GetData(column, type, b)
  BY DEF Read
<1>2. /\ step = "read" /\ step' = "read" /\ hasResult /\ OnRow /\ RowInOrder /\ NullsTold
      /\ column \in 1..Len(rs.columns) /\ type \in DrainTypes
      /\ "ROWS_FETCHED_PTR" \in rowPtrs
  BY DEF Read, DrainInv, ReadingOK, IInv, TypeOK, ResultOK, ResultSets
<1>3. Converts(column, type, b) /\ GetDataStep(column, type, b)
  <2>1. type \in CTypes /\ b \in Buffers
    BY <1>2, DrainAssumption, InputsAssumption
  <2> QED BY <1>1, <1>2, <2>1 DEF GetData, Converts, GetDataStep
<1> DEFINE cell == CellAt(column, cursor)
           o == ConvertCell(getDataOffsets[column], cell, rs.columns[column], type, b, TRUE)
           r == Received(got[column], type, b, o)
<1>4. /\ column \in Cols /\ cell \in Cells /\ rs.columns[column] \in ColumnTypes
      /\ getDataOffsets[column] \in Nat \cup {Consumed} /\ getDataOffsets[column] < SizeMax
      /\ got[column] \in ColumnViews /\ b \in Buffers /\ type \in Chunked
  <2>1. ResultOK /\ ViewOK
    BY DEF IInv, TypeOK
  <2>2. type \in Chunked /\ b \in Buffers
    BY <1>2, DrainAssumption, InputsAssumption
  <2>3. /\ column \in Cols /\ cell \in Cells /\ rs.columns[column] \in ColumnTypes
        /\ getDataOffsets[column] \in Nat \cup {Consumed} /\ getDataOffsets[column] < SizeMax
    BY <1>3, <2>1, ConversionOK
  <2> QED BY <2>1, <2>2, <2>3 DEF ViewOK
<1>5. b.ptr /\ b.ind /\ b.len >= 0
  <2>1. b.len >= Unit(type) + TerminatorBytes(type) /\ b.ptr /\ b.ind
    BY <1>2, DrainAssumption
  <2>2. b.len \in Int /\ Unit(type) \in {1, 2, 4} /\ TerminatorBytes(type) \in {0, 1, 2, 4}
    BY <1>4, UnitType DEF Buffers, TerminatorBytes
  <2> QED BY <2>1, <2>2
<1>6. /\ o.rc \in {NO_DATA, ERROR} => Had(r)
      /\ r.types \subseteq {type}
      /\ NullTold(r, o.offset, cell)
  <2>1. got[column].types \subseteq {type}
    BY <1>2 DEF RowInOrder
  <2>2. CASE cell.null
    <3>1. NullTold(got[column], getDataOffsets[column], cell)
      BY <1>2 DEF NullsTold
    <3> HIDE DEF cell
    <3> QED BY <1>4, <1>5, <2>1, <2>2, <3>1, NullIsTold, ZenonT(30)
  <2>3. CASE ~cell.null
    <3>1. Matches(got[column], getDataOffsets[column], cell, rs.columns[column])
      BY <1>2, OffsetsMatchByColumn DEF IInv
    <3> DEFINE g == got[column]
               offset == getDataOffsets[column]
               colType == rs.columns[column]
    <3>2. /\ g \in ColumnViews /\ cell \in Cells /\ ~cell.null /\ colType \in ColumnTypes
          /\ type \in Chunked /\ offset \in Nat \cup {Consumed} /\ offset < SizeMax
          /\ b \in Buffers /\ b.ptr /\ b.len >= 0
          /\ g.types \subseteq {type} /\ Matches(g, offset, cell, colType)
      BY <1>4, <1>5, <2>1, <2>3, <3>1
    <3> HIDE DEF cell, g, offset, colType
    <3>3. LET a == ConvertCell(offset, cell, colType, type, b, TRUE)
              q == Received(g, type, b, a)
          IN  /\ a.rc \in {NO_DATA, ERROR} => Had(q)
              /\ q.types \subseteq {type}
              /\ NullTold(q, a.offset, cell)
      BY <3>2, ValueIsHad
    <3> QED BY <3>3 DEF g, offset, colType
  <2> QED BY <2>2, <2>3
<1>7. /\ getDataOffsets' = [getDataOffsets EXCEPT ![column] = o.offset]
      /\ got' = [got EXCEPT ![column] = r]
      /\ ret'.rc = o.rc
      /\ UNCHANGED <<hasResult, rs, cursor, rowPtrs>>
  <2>1. Resolve(type, rs.columns[column]) = type
    BY <1>4 DEF Resolve, Chunked
  <2>2. ret' = Call("SQLGetData", column, type, o.rc, o.ind)
    BY <1>3, <2>1 DEF GetDataStep
  <2>3. ret'.rc = o.rc
    <3> HIDE DEF o
    <3> QED BY <2>2 DEF Call
  <2> QED BY <1>3, <2>1, <2>3 DEF GetDataStep, inputVars
<1>8. /\ column' = IF o.rc \in {NO_DATA, ERROR} THEN column + 1 ELSE column
      /\ type' \in DrainTypes /\ (column' = column => type' = type)
  <2> HIDE DEF o
  <2> QED BY <1>2, <1>4, <1>7 DEF Read, Cols
<1> HIDE DEF o, r
<1>9. \A c \in 1..Len(rs.columns) :
        /\ got'[c] = IF c = column THEN r ELSE got[c]
        /\ getDataOffsets'[c] = IF c = column THEN o.offset ELSE getDataOffsets[c]
  <2>1. 1..Len(rs.columns) \subseteq Cols
    BY BoundsAssumption DEF IInv, TypeOK, ResultOK, ResultSets, Cols
  <2> QED BY <1>7, <2>1 DEF IInv, TypeOK, ResultOK, ViewOK
<1>10. NullsTold'
  <2>1. \A c : CellAt(c, cursor)' = CellAt(c, cursor)
    BY <1>7 DEF CellAt
  <2> QED BY <1>2, <1>6, <1>7, <1>9, <2>1 DEF NullsTold
<1>11. RowInOrder'
  <2> SUFFICES ASSUME NEW c \in 1..Len(rs.columns)
               PROVE  /\ c < column' => Had(got'[c])
                      /\ c = column' => got'[c].types \subseteq {type'}
                      /\ c > column' => got'[c].types = {}
    BY <1>7 DEF RowInOrder
  <2>1. c \in Nat /\ column \in Nat
    BY <1>4 DEF Cols
  <2>2. CASE c = column
    BY <1>6, <1>8, <1>9, <2>1, <2>2
  <2>3. CASE c < column
    BY <1>2, <1>8, <1>9, <2>1, <2>3 DEF RowInOrder
  <2>4. CASE c > column
    BY <1>2, <1>8, <1>9, <2>1, <2>4 DEF RowInOrder
  <2> QED BY <2>1, <2>2, <2>3, <2>4
<1>12. OnRow' /\ ReadingOK'
  BY <1>2, <1>4, <1>7, <1>8 DEF OnRow, RowCount, ReadingOK, Cols
<1> QED BY <1>2, <1>7, <1>10, <1>11, <1>12 DEF DrainInv, RowRead

LEMMA DrainStep == IInv /\ DrainInv /\ [DrainNext]_drainVars => DrainInv'
  BY SetPointerKeeps, RunKeeps, NextRowKeeps, ReadKeeps, RowDoneKeeps, AskKeeps
  DEF DrainNext, Program

\* The application never moves on from a row without all of it: whatever the
\* result, the C type of each column and the buffer of each call, it has every
\* byte of every value, in order, or has been told that the value is NULL.
THEOREM RowsAreRead == DrainSpec => []RowRead
<1>1. DrainInv => RowRead
  BY DEF DrainInv
<1>2. Spec => []IInv
  BY Invariance
<1> QED BY <1>1, <1>2, ProgramMakesCalls, DrainInitOK, DrainStep, PTL DEF DrainSpec
=============================================================================
