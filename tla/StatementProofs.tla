--------------------------- MODULE StatementProofs ---------------------------
(***************************************************************************)
(* Theorems about Convert and Statement, for every bound, every result the *)
(* broker may answer with and every input of the application: what the     *)
(* variables hold, what SQLGetData delivers, and what the calls return.    *)
(***************************************************************************)
EXTENDS Statement, SequenceTheorems, TLAPS

-----------------------------------------------------------------------------
(* The operators of Convert, for every length of value and of buffer *)

Outcomes == [rc : ReturnCodes, state : ConvertStates, ind : Int, from : Int, count : Nat,
             written : Nat, offset : Nat \cup {Consumed}]

\* The unit is 1, 2 or 4 bytes.
LEMMA UnitType == ASSUME NEW t \in Chunked PROVE Unit(t) \in {1, 2, 4}
  BY UnitSizeAssumption DEF Unit

\* The room of a buffer is a number of bytes that, with the terminator, fits.
LEMMA UsableFits ==
  ASSUME NEW t \in Chunked, NEW len \in Nat
  PROVE  /\ Usable(len, t) \in Nat
         /\ TerminatorWritten(len, t) \in Nat
         /\ Usable(len, t) + TerminatorWritten(len, t) <= len
<1>1. Unit(t) \in {1, 2, 4} /\ TerminatorBytes(t) \in {0, 1, 2, 4}
  BY UnitType DEF TerminatorBytes
<1> DEFINE room == len - TerminatorBytes(t)
<1>2. CASE room > 0
  <2>1. room % Unit(t) \in Nat /\ room % Unit(t) <= room
    <3>1. Unit(t) = 1 => room % Unit(t) = 0
      BY <1>1, <1>2
    <3>2. Unit(t) = 2 => room % Unit(t) \in 0..1
      BY <1>1, <1>2
    <3>3. Unit(t) = 4 => room % Unit(t) \in 0..3 /\ room % Unit(t) <= room
      BY <1>1, <1>2
    <3> QED  BY <1>1, <1>2, <3>1, <3>2, <3>3
  <2> QED  BY <1>1, <1>2, <2>1 DEF Usable, TerminatorWritten
<1>3. CASE ~(room > 0)
  BY <1>1, <1>3 DEF Usable, TerminatorWritten
<1> QED  BY <1>2, <1>3

\* Every rendering has a length.
LEMMA TotalType ==
  ASSUME NEW cell \in Cells, NEW colType \in ColumnTypes, NEW t \in Chunked
  PROVE  Total(cell, colType, t) \in Nat
<1>1. cell.chars \in Nat
  BY DEF Cells
<1>2. Unit(t) \in {1, 2, 4}
  BY UnitType
<1>3. cell.chars \div 2 \in Nat
  BY <1>1
<1>4. cell.chars * Unit(t) \in Nat
  BY <1>1, <1>2
<1> QED  BY <1>3, <1>4 DEF Total

\* A call that copies nothing is an outcome.
LEMMA PlainType ==
  ASSUME NEW rc \in ReturnCodes, NEW state \in ConvertStates, NEW ind \in Int,
         NEW offset \in Nat \cup {Consumed}
  PROVE  Plain(rc, state, ind, offset) \in Outcomes
  BY DEF Plain, Outcome, Outcomes

\* A chunk: what is copied begins at the offset, never exceeds what remains,
\* and fits in the buffer with its terminator.
LEMMA ChunkSize ==
  ASSUME NEW t \in Chunked, NEW total \in Nat, NEW start \in Nat, start < SizeMax,
         NEW len \in Nat
  PROVE  LET remaining == SizeT(total - start)
             n == Lesser(remaining, Usable(len, t))
         IN  /\ remaining \in Nat
             /\ n \in Nat /\ n <= remaining
             /\ n + TerminatorWritten(len, t) \in Nat
             /\ n + TerminatorWritten(len, t) <= len
             /\ Advance(start, n) \in Nat
             /\ start <= total => remaining = total - start
  BY UsableFits, SizeMaxAssumption DEF SizeT, Lesser, Advance

\* CopyChunked returns an outcome, for any offset that size_t can hold.
LEMMA CopyChunkedType ==
  ASSUME NEW t \in Chunked, NEW total \in Nat, NEW offset \in Nat \cup {Consumed},
         offset < SizeMax, NEW buf \in Buffers, NEW isGetData \in BOOLEAN
  PROVE  CopyChunked(offset, total, t, buf, isGetData) \in Outcomes
<1> DEFINE start == IF isGetData THEN offset ELSE 0
           remaining == SizeT(total - start)
           ind == IndFor(buf, remaining)
           n == Lesser(remaining, Usable(buf.len, t))
<1>1. buf.len \in Int /\ buf.ptr \in BOOLEAN /\ buf.ind \in BOOLEAN
  BY DEF Buffers
<1>2. start \in Nat \cup {Consumed} /\ start < SizeMax
  BY SizeMaxAssumption
<1>3. ind \in Int
  BY <1>2, SizeMaxAssumption DEF IndFor, SizeT, NotSet, Consumed
<1>4. CASE start < 0 \/ ~buf.ptr \/ buf.len < 0
  <2>1. CopyChunked(offset, total, t, buf, isGetData)
          \in {Plain(NO_DATA, NoState, NotSet, offset), Plain(SUCCESS, NoState, ind, offset),
               Plain(ERROR, "HY090", ind, offset)}
    BY <1>4 DEF CopyChunked
  <2> QED
    BY <1>3, <2>1, PlainType DEF ReturnCodes, ConvertStates, NO_DATA, SUCCESS, ERROR,
                                  NoState, NotSet
<1>5. CASE ~(start < 0 \/ ~buf.ptr \/ buf.len < 0)
  <2>1. start \in Nat /\ buf.len \in Nat
    BY <1>1, <1>2, <1>5 DEF Consumed
  <2>2. /\ n \in Nat
        /\ n + TerminatorWritten(buf.len, t) \in Nat
        /\ Advance(start, n) \in Nat
    BY <1>2, <2>1, ChunkSize
  <2>3. Consumed \in Nat \cup {Consumed}
    OBVIOUS
  <2>4. CopyChunked(offset, total, t, buf, isGetData)
          = IF n < remaining
            THEN Outcome(WITH_INFO, "01004", ind, start, n,
                         n + TerminatorWritten(buf.len, t),
                         IF isGetData THEN Advance(start, n) ELSE offset)
            ELSE Outcome(SUCCESS, NoState, ind, start, n,
                         n + TerminatorWritten(buf.len, t),
                         IF isGetData THEN Consumed ELSE offset)
    BY <1>5 DEF CopyChunked
  <2> HIDE DEF remaining, ind, n
  <2> QED
    BY <1>3, <2>1, <2>2, <2>4
    DEF Outcome, Outcomes, ReturnCodes, ConvertStates, WITH_INFO, SUCCESS, NoState
<1> QED  BY <1>4, <1>5

\* Every conversion of a cell returns an outcome.
LEMMA ConvertCellType ==
  ASSUME NEW cell \in Cells, NEW colType \in ColumnTypes, NEW cType \in CTypes,
         NEW offset \in Nat \cup {Consumed}, offset < SizeMax,
         NEW buf \in Buffers, NEW isGetData \in BOOLEAN
  PROVE  ConvertCell(offset, cell, colType, cType, buf, isGetData) \in Outcomes
<1> DEFINE t == Resolve(cType, colType)
<1>1. CASE cell.null
  <2>1. ConvertNull(offset, buf, isGetData) \in Outcomes
    BY PlainType DEF ConvertNull, ReturnCodes, ConvertStates, NO_DATA, SUCCESS, ERROR, NoState, NotSet,
                     NULL_DATA, Consumed
  <2> QED  BY <1>1, <2>1 DEF ConvertCell
<1>2. CASE ~cell.null /\ t \in Chunked
  <2>1. Total(cell, colType, t) \in Nat
    BY <1>2, TotalType
  <2>2. CopyChunked(offset, Total(cell, colType, t), t, buf, isGetData) \in Outcomes
    BY <1>2, <2>1, CopyChunkedType
  <2> QED  BY <1>2, <2>2 DEF ConvertCell
<1>3. CASE ~cell.null /\ t = "FIXED"
  <2>1. ConvertFixed(offset, cell, buf) \in Outcomes
    BY PlainType DEF ConvertFixed, Outcome, Outcomes, IndFor, FixedSize, ReturnCodes, ConvertStates,
                     WITH_INFO, SUCCESS, ERROR, NoState, NotSet, Plain
  <2>2. t \notin Chunked
    BY <1>3 DEF Chunked
  <2> QED  BY <1>3, <2>1, <2>2 DEF ConvertCell
<1>4. CASE ~cell.null /\ t \notin Chunked /\ t # "FIXED"
  <2>1. Plain(ERROR, "07006", NotSet, offset) \in Outcomes
    <3>1. ERROR \in ReturnCodes /\ NotSet \in Int /\ "07006" \in ConvertStates
      BY DEF ReturnCodes, NotSet, ConvertStates
    <3> QED  BY <3>1, PlainType
  <2> QED  BY <1>4, <2>1 DEF ConvertCell
<1> QED  BY <1>1, <1>2, <1>3, <1>4

\* A copy never writes past the length the application gave: the terminator is
\* within it, and a buffer too small for a terminator is left alone.
THEOREM CopyStaysInBuffer ==
  ASSUME NEW t \in Chunked, NEW total \in Nat, NEW offset \in Nat \cup {Consumed},
         offset < SizeMax, NEW buf \in Buffers, buf.ptr, buf.len >= 0,
         NEW isGetData \in BOOLEAN
  PROVE  CopyChunked(offset, total, t, buf, isGetData).written <= buf.len
<1> DEFINE start == IF isGetData THEN offset ELSE 0
           n == Lesser(SizeT(total - start), Usable(buf.len, t))
           o == CopyChunked(offset, total, t, buf, isGetData)
<1>1. buf.len \in Nat
  BY DEF Buffers
<1>2. CASE start < 0
  <2>1. o = Plain(NO_DATA, NoState, NotSet, offset)
    BY <1>2 DEF CopyChunked
  <2> QED  BY <1>1, <2>1 DEF Plain, Outcome
<1>3. CASE ~(start < 0)
  <2>1. start \in Nat /\ start < SizeMax
    BY <1>3, SizeMaxAssumption DEF Consumed
  <2>2. n + TerminatorWritten(buf.len, t) <= buf.len
    BY <1>1, <2>1, ChunkSize
  <2>3. o.written = n + TerminatorWritten(buf.len, t)
    BY <1>1, <1>3 DEF CopyChunked, Outcome
  <2> QED  BY <2>2, <2>3
<1> QED  BY <1>2, <1>3

\* One SQLGetData call on a value of which "offset" bytes were delivered: it
\* delivers all the rest and marks the column consumed, or delivers less,
\* says so and leaves the offset behind what it delivered, or delivers nothing
\* and leaves the offset; the length it reports is that of the rest.
THEOREM ChunkContinues ==
  ASSUME NEW t \in Chunked, NEW total \in Nat, NEW offset \in Nat, offset <= total,
         offset < SizeMax, NEW buf \in Buffers
  PROVE  LET o == CopyChunked(offset, total, t, buf, TRUE)
         IN  /\ o.rc \in {SUCCESS, WITH_INFO, ERROR}
             /\ o.ind = IndFor(buf, total - offset)
             /\ \/ /\ o.rc = SUCCESS /\ buf.ptr /\ o.from = offset
                   /\ o.count = total - offset /\ o.offset = Consumed
                \/ /\ o.rc = WITH_INFO /\ buf.ptr /\ o.from = offset
                   /\ o.count \in Nat /\ o.count < total - offset
                   /\ o.offset = offset + o.count
                \/ /\ o.rc \in {SUCCESS, ERROR} /\ (o.rc = SUCCESS <=> ~buf.ptr)
                   /\ o.count = 0 /\ o.offset = offset
<1> DEFINE o == CopyChunked(offset, total, t, buf, TRUE)
           n == Lesser(SizeT(total - offset), Usable(buf.len, t))
<1>1. buf.len \in Int /\ buf.ptr \in BOOLEAN
  BY DEF Buffers
<1>2. SizeT(total - offset) = total - offset
  BY DEF SizeT
<1> DEFINE ind == IndFor(buf, total - offset)
<1>c. /\ ~buf.ptr => o = Plain(SUCCESS, NoState, ind, offset)
      /\ buf.ptr /\ buf.len < 0 => o = Plain(ERROR, "HY090", ind, offset)
      /\ buf.ptr /\ ~(buf.len < 0) /\ n < SizeT(total - offset) =>
            o = Outcome(WITH_INFO, "01004", ind, offset, n, n + TerminatorWritten(buf.len, t),
                        Advance(offset, n))
      /\ buf.ptr /\ ~(buf.len < 0) /\ ~(n < SizeT(total - offset)) =>
            o = Outcome(SUCCESS, NoState, ind, offset, n, n + TerminatorWritten(buf.len, t), Consumed)
  <2>1. ~(offset < 0)
    OBVIOUS
  <2> QED BY <1>2, <2>1, Zenon DEF CopyChunked
<1> HIDE DEF o, ind
<1>3. CASE ~buf.ptr \/ buf.len < 0
  <2>1. CASE ~buf.ptr
    <3>1. o.rc = SUCCESS /\ o.ind = ind /\ o.count = 0 /\ o.offset = offset
      BY <1>c, <2>1 DEF Plain, Outcome
    <3> QED BY <2>1, <3>1 DEF ind, o, SUCCESS
  <2>2. CASE buf.ptr /\ buf.len < 0
    <3>1. o.rc = ERROR /\ o.ind = ind /\ o.count = 0 /\ o.offset = offset
      BY <1>c, <2>2 DEF Plain, Outcome
    <3> QED BY <2>2, <3>1 DEF ind, o, SUCCESS, ERROR
  <2> QED BY <1>1, <1>3, <2>1, <2>2
<1>4. CASE buf.ptr /\ ~(buf.len < 0)
  <2>1. buf.len \in Nat
    BY <1>1, <1>4
  <2>2. n \in Nat /\ n <= total - offset
    BY <1>2, <2>1, ChunkSize
  <2> HIDE DEF n
  <2>3. CASE n < total - offset
    <3>1. /\ o.rc = WITH_INFO /\ o.ind = ind /\ o.from = offset /\ o.count = n
          /\ o.offset = offset + n
      BY <1>2, <1>4, <1>c, <2>3 DEF Outcome, Advance
    <3> QED BY <1>4, <2>2, <2>3, <3>1 DEF ind, o, WITH_INFO
  <2>4. CASE ~(n < total - offset)
    <3>1. /\ o.rc = SUCCESS /\ o.ind = ind /\ o.from = offset /\ o.count = n
          /\ o.offset = Consumed
      BY <1>2, <1>4, <1>c, <2>4 DEF Outcome
    <3>2. n = total - offset
      BY <2>2, <2>4
    <3> QED BY <1>4, <3>1, <3>2 DEF ind, o, SUCCESS
  <2> QED  BY <2>3, <2>4
<1> QED  BY <1>1, <1>3, <1>4

-----------------------------------------------------------------------------
(* What the helpers leave behind *)

\* A call that reports at most one record of the call itself.
LEMMA ReturnOK ==
  ASSUME NEW fn \in Functions, NEW rc \in ReturnCodes,
         NEW state \in SqlStates, Return(fn, rc, state) \/ ReturnQueried(fn, rc, state)
  PROVE  CallOK'
<1>1. diag' \subseteq {Record(0, state)}
  BY DEF Return, ReturnQueried, Records
<1>2. Record(0, state) \in [col : Cols \cup {0}, state : SqlStates]
  BY DEF Record
<1>3. ret' \in [fn : Functions, col : Cols \cup {0}, cType : CTypes \cup {"none"},
                rc : ReturnCodes, ind : Int, queried : BOOLEAN]
  <2>1. NotSet \in Int
    BY DEF NotSet
  <2>2. CASE Return(fn, rc, state)
    BY <2>1, <2>2 DEF Return, Call
  <2>3. CASE ReturnQueried(fn, rc, state)
    BY <2>1, <2>3 DEF ReturnQueried, Querying
  <2> QED  BY <2>2, <2>3
<1> QED  BY <1>1, <1>2, <1>3 DEF CallOK

\* The view of a column nothing was read of.
LEMMA GotNothingOK == GotNothing \in [Cols -> ColumnViews]
  BY DEF GotNothing, NothingGot, ColumnViews

LEMMA NoRowsOK == NoRows \in ResultSets /\ Len(NoRows.columns) = 0 /\ Len(NoRows.rows) = 0
  BY DEF NoRows, ResultSets

\* A closed result is well formed.
LEMMA CloseOK == ASSUME Close PROVE ResultOK' /\ ViewOK'
<1>1. NoRows \in ResultSets /\ Len(NoRows.columns) <= MaxCols
  BY NoRowsOK, BoundsAssumption
<1>2. NoOffsets \in [Cols -> Nat \cup {Consumed}]
  BY DEF NoOffsets
<1>3. ResultOK'
  <2>1. hasResult' \in BOOLEAN
    BY Zenon DEF Close
  <2>4. cursor' \in Int
    BY DEF Close
  <2>2. rs' \in ResultSets /\ Len(rs'.columns) <= MaxCols
    BY <1>1 DEF Close
  <2>3. getDataOffsets' \in [Cols -> Nat \cup {Consumed}]
    BY <1>2 DEF Close, ClearOffsets
  <2> QED  BY <2>1, <2>2, <2>3, <2>4 DEF ResultOK
<1>4. ViewOK'
  BY GotNothingOK DEF Close, ViewOK
<1> QED  BY <1>3, <1>4

\* So is one that was just installed.
LEMMA InstallOK ==
  ASSUME NEW r \in ResultSets, Len(r.columns) <= MaxCols, Install(r)
  PROVE  ResultOK' /\ ViewOK'
<1>1. NoOffsets \in [Cols -> Nat \cup {Consumed}]
  BY DEF NoOffsets
<1> QED  BY <1>1, GotNothingOK DEF Install, ClearOffsets, ResultOK, ViewOK

\* Applying the row limit keeps a result set one, and shortens it to the limit.
LEMMA TrimOK ==
  ASSUME NEW r \in ResultSets, Len(r.columns) <= MaxCols, maxRows \in Nat
  PROVE  /\ Trim(r) \in ResultSets /\ Len(Trim(r).columns) <= MaxCols
         /\ Trim(r).columns = r.columns
         /\ Len(Trim(r).rows) = IF maxRows = 0 THEN Len(r.rows)
                                ELSE Lesser(maxRows, Len(r.rows))
<1>1. r.rows \in Seq(Seq(Cells)) /\ r.columns \in Seq(ColumnTypes) /\ Len(r.rows) \in Nat
  BY DEF ResultSets
<1>2. CASE maxRows > 0 /\ Len(r.rows) > maxRows
  <2>1. /\ SubSeq(r.rows, 1, maxRows) \in Seq(Seq(Cells))
        /\ Len(SubSeq(r.rows, 1, maxRows)) = maxRows
    BY <1>1, <1>2, SubSeqProperties
  <2>2. Trim(r) = [columns |-> r.columns, rows |-> SubSeq(r.rows, 1, maxRows)]
    BY <1>2 DEF Trim
  <2> QED  BY <1>1, <1>2, <2>1, <2>2 DEF ResultSets, Lesser
<1>3. CASE ~(maxRows > 0 /\ Len(r.rows) > maxRows)
  BY <1>1, <1>3 DEF Trim, Lesser
<1> QED  BY <1>2, <1>3

\* A cell is read as a cell, missing ones as NULL.
LEMMA CellOK ==
  ASSUME ResultOK, NEW pos \in Nat, pos < RowCount, NEW c \in Nat \ {0}
  PROVE  CellAt(c, pos) \in Cells
<1>1. rs.rows \in Seq(Seq(Cells)) /\ pos + 1 \in 1..Len(rs.rows)
  BY DEF ResultOK, ResultSets, RowCount
<1>2. rs.rows[pos + 1] \in Seq(Cells)
  BY <1>1
<1>3. NullCell \in Cells
  BY DEF NullCell, Cells
<1>4. c <= Len(rs.rows[pos + 1]) => rs.rows[pos + 1][c] \in Cells
  BY <1>2
<1> QED  BY <1>3, <1>4 DEF CellAt

-----------------------------------------------------------------------------
(* Type correctness, action by action *)

LEMMA SameView ==
  ASSUME ResultOK, ViewOK, UNCHANGED <<resultVars, got, filled>>
  PROVE  ResultOK' /\ ViewOK'
  BY DEF ResultOK, ViewOK, resultVars, RowCount

\* A parameter that cannot be rendered fails with one of five states.
LEMMA SubstitutionStates ==
  ASSUME NEW n, NEW mem
  PROVE  Substitution(n, mem) \in {NoState, "07002", "HYC00", "07006", "HY090", "HY000"}
<1>1. \A p, m : ParamState(p, m) \in {NoState, "07002", "HYC00", "07006", "HY090", "HY000"}
  BY DEF ParamState
<1> QED  BY <1>1 DEF Substitution

LEMMA ExecuteStatementOK ==
  ASSUME TypeOK, NEW fn \in {"SQLExecDirect", "SQLExecute"}, NEW text,
         ExecuteStatement(fn, text)
  PROVE  ResultOK' /\ CallOK' /\ ViewOK'
<1>0. fn \in Functions /\ ERROR \in ReturnCodes /\ SUCCESS \in ReturnCodes
  BY DEF Functions, ReturnCodes
<1>1. PICK mem \in [Indicated(text) -> Indicators] : ExecuteStatement(fn, text)!(mem)
  BY DEF ExecuteStatement
<1>2. CASE \E n \in 1..text :
              /\ Return(fn, ERROR, Substitution(n, mem))
              /\ UNCHANGED <<resultVars, got, filled>>
  <2>1. PICK n \in 1..text : /\ Return(fn, ERROR, Substitution(n, mem))
                             /\ UNCHANGED <<resultVars, got, filled>>
    BY <1>2
  <2>2. Substitution(n, mem) \in SqlStates
    BY SubstitutionStates DEF SqlStates, ConvertStates, QueryErrors
  <2> QED  BY <1>0, <2>1, <2>2, ReturnOK, SameView DEF TypeOK
<1>3. CASE \E state \in QueryErrors : Close /\ ReturnQueried(fn, ERROR, state)
  BY <1>0, <1>3, CloseOK, ReturnOK DEF SqlStates
<1>4. CASE \E r \in QueryResults : Install(Trim(r)) /\ ReturnQueried(fn, SUCCESS, NoState)
  <2>1. PICK r \in QueryResults : Install(Trim(r)) /\ ReturnQueried(fn, SUCCESS, NoState)
    BY <1>4
  <2>2. Trim(r) \in ResultSets /\ Len(Trim(r).columns) <= MaxCols
    BY TrimOK, ResultsAssumption DEF TypeOK, InputsOK
  <2>3. NoState \in SqlStates
    BY DEF SqlStates, ConvertStates
  <2> QED  BY <1>0, <2>1, <2>2, <2>3, InstallOK, ReturnOK
<1> QED  BY <1>1, <1>2, <1>3, <1>4

LEMMA ExecDirectOK ==
  ASSUME TypeOK, NEW text \in Texts \cup {NoText}, ExecDirect(text)
  PROVE  TypeOK'
<1>1. InputsOK' /\ UNCHANGED <<rowsFetched, rowStatus>>
  BY DEF ExecDirect, TypeOK, InputsOK
<1>2. CASE text = NoText
  <2>1. CallOK'
    BY <1>2, ReturnOK DEF ExecDirect, Functions, ReturnCodes, SqlStates
  <2>2. ResultOK' /\ ViewOK'
    BY <1>2, SameView DEF ExecDirect, TypeOK
  <2> QED  BY <1>1, <2>1, <2>2 DEF TypeOK
<1>3. CASE text # NoText
  <2>1. ResultOK' /\ CallOK' /\ ViewOK'
    BY <1>3, ExecuteStatementOK DEF ExecDirect
  <2> QED  BY <1>1, <2>1 DEF TypeOK
<1> QED  BY <1>2, <1>3

LEMMA PrepareOK ==
  ASSUME TypeOK, NEW text \in Texts \cup {NoText}, Prepare(text)
  PROVE  TypeOK'
<1>1. InputsOK' /\ UNCHANGED <<rowsFetched, rowStatus>>
  BY DEF Prepare, TypeOK, InputsOK
<1>2. CallOK'
  BY ReturnOK DEF Prepare, Functions, ReturnCodes, SqlStates, ConvertStates
<1>3. ResultOK' /\ ViewOK'
  BY SameView, CloseOK DEF Prepare, TypeOK
<1> QED  BY <1>1, <1>2, <1>3 DEF TypeOK

LEMMA ExecuteOK == ASSUME TypeOK, Execute PROVE TypeOK'
<1>1. InputsOK' /\ UNCHANGED <<rowsFetched, rowStatus>>
  BY DEF Execute, TypeOK, InputsOK, inputVars
<1>2. CASE ~prepared \/ sql = NoText
  <2>1. CallOK'
    BY <1>2, ReturnOK DEF Execute, Functions, ReturnCodes, SqlStates
  <2>2. ResultOK' /\ ViewOK'
    BY <1>2, SameView DEF Execute, TypeOK
  <2> QED  BY <1>1, <2>1, <2>2 DEF TypeOK
<1>3. CASE ~(~prepared \/ sql = NoText)
  <2>1. ResultOK' /\ CallOK' /\ ViewOK'
    BY <1>3, ExecuteStatementOK DEF Execute
  <2> QED  BY <1>1, <2>1 DEF TypeOK
<1> QED  BY <1>2, <1>3

\* Converting a bound column gives a return code and a known state.
LEMMA BoundOutcomeOK ==
  ASSUME ResultOK, InputsOK, NEW pos \in Nat, pos < RowCount, NEW c \in DOMAIN bindings
  PROVE  /\ BoundOutcome(c, pos).rc \in ReturnCodes
         /\ BoundOutcome(c, pos).state \in SqlStates
<1>1. c \in Cols /\ bindings[c] \in ColumnBindings
  BY DEF InputsOK
<1>2. CASE c > Len(rs.columns)
  BY <1>2 DEF BoundOutcome, Plain, Outcome, ReturnCodes, ERROR, SqlStates
<1>3. CASE ~(c > Len(rs.columns))
  <2>1. rs.columns[c] \in ColumnTypes
    BY <1>1, <1>3, BoundsAssumption DEF ResultOK, ResultSets, Cols
  <2>2. CellAt(c, pos) \in Cells
    BY <1>1, CellOK, BoundsAssumption DEF Cols
  <2>3. ConvertCell(0, CellAt(c, pos), rs.columns[c], bindings[c].cType,
                    bindings[c].buf, FALSE) \in Outcomes
    <3>1. bindings[c].cType \in CTypes /\ bindings[c].buf \in Buffers
      BY <1>1 DEF ColumnBindings
    <3>2. 0 \in Nat \cup {Consumed} /\ 0 < SizeMax /\ FALSE \in BOOLEAN
      BY SizeMaxAssumption
    <3> QED  BY <2>1, <2>2, <3>1, <3>2, ConvertCellType, Zenon
  <2> QED  BY <1>3, <2>3 DEF BoundOutcome, Outcomes, SqlStates
<1> QED  BY <1>2, <1>3

LEMMA FetchNextRowOK ==
  ASSUME TypeOK, CursorInRange, NEW fn \in Fetches, FetchNextRow(fn), UNCHANGED inputVars
  PROVE  TypeOK'
<1>0. fn \in Functions /\ ERROR \in ReturnCodes /\ NO_DATA \in ReturnCodes
      /\ WITH_INFO \in ReturnCodes /\ SUCCESS \in ReturnCodes
  BY DEF Fetches, Functions, ReturnCodes
<1>1. InputsOK'
  BY DEF TypeOK, InputsOK, inputVars
<1>2. RowCount \in Nat
  BY DEF RowCount, TypeOK, ResultOK, ResultSets
<1>3. CASE ~hasResult
  <2>1. UNCHANGED <<resultVars, appVars>> /\ Return(fn, ERROR, "24000")
    BY <1>3 DEF FetchNextRow
  <2>2. CallOK'
    BY <1>0, <2>1, ReturnOK DEF SqlStates
  <2>3. ResultOK' /\ ViewOK' /\ UNCHANGED <<rowsFetched, rowStatus>>
    BY <2>1, SameView DEF TypeOK, appVars
  <2> QED  BY <1>1, <2>2, <2>3 DEF TypeOK
<1>4. CASE hasResult /\ AtEnd
  <2>1. Return(fn, NO_DATA, NoState)
    BY <1>4 DEF FetchNextRow
  <2>2. CallOK'
    BY <1>0, <2>1, ReturnOK DEF SqlStates, ConvertStates
  <2>3. ResultOK' /\ ViewOK' /\ rowsFetched' \in {0, 1} /\ UNCHANGED rowStatus
    BY <1>2, <1>4 DEF FetchNextRow, TypeOK, ResultOK, ViewOK
  <2> QED  BY <1>1, <2>2, <2>3 DEF TypeOK
<1>5. CASE hasResult /\ ~AtEnd
  <2> DEFINE pos == cursor + 1
  <2>1. pos \in Nat /\ pos < RowCount
    BY <1>2, <1>5 DEF AtEnd, CursorInRange, TypeOK, ResultOK
  <2>2. \A c \in DOMAIN bindings : /\ BoundOutcome(c, pos).rc \in ReturnCodes
                                   /\ BoundOutcome(c, pos).state \in SqlStates
    BY <2>1, BoundOutcomeOK DEF TypeOK
  <2>3. DOMAIN bindings \subseteq Cols
    BY DEF TypeOK, InputsOK
  <2>4. diag' \subseteq [col : Cols \cup {0}, state : SqlStates]
    <3>1. \A c \in DOMAIN bindings :
            Records(c, BoundOutcome(c, pos).state) \subseteq
                [col : Cols \cup {0}, state : SqlStates]
      BY <2>2, <2>3 DEF Records, Record
    <3>2. diag' = UNION {Records(c, BoundOutcome(c, pos).state) : c \in DOMAIN bindings}
      BY <1>5 DEF FetchNextRow
    <3> QED  BY <3>1, <3>2
  <2>5. RowOutcome(pos) \in ReturnCodes
    BY <1>0 DEF RowOutcome
  <2>6. CallOK'
    <3>1. ret' = Call(fn, 0, "none", RowOutcome(pos), NotSet)
      BY <1>5 DEF FetchNextRow
    <3>2. ret' \in [fn : Functions, col : Cols \cup {0}, cType : CTypes \cup {"none"},
                    rc : ReturnCodes, ind : Int, queried : BOOLEAN]
      BY <1>0, <2>5, <3>1 DEF Call, NotSet
    <3> QED  BY <2>4, <3>2 DEF CallOK
  <2>7. ViewOK'
    BY <1>5, <2>3, GotNothingOK DEF FetchNextRow, ViewOK
  <2>8. ResultOK'
    <3>1. UNCHANGED <<hasResult, rs>> /\ cursor' = cursor + 1 /\ getDataOffsets' = NoOffsets
      BY <1>5 DEF FetchNextRow, ClearOffsets
    <3>2. NoOffsets \in [Cols -> Nat \cup {Consumed}]
      BY DEF NoOffsets
    <3> QED  BY <3>1, <3>2 DEF ResultOK, TypeOK
  <2>9. rowsFetched' \in {0, 1} /\ rowStatus' \in ReturnCodes \cup {"unset"}
    BY <1>5, <2>5 DEF FetchNextRow, TypeOK
  <2> QED  BY <1>1, <2>6, <2>7, <2>8, <2>9 DEF TypeOK
<1> QED  BY <1>3, <1>4, <1>5 DEF FetchNextRow

LEMMA FetchOK == ASSUME TypeOK, CursorInRange, Fetch PROVE TypeOK'
  BY FetchNextRowOK DEF Fetch, Fetches

LEMMA FetchScrollOK ==
  ASSUME TypeOK, CursorInRange, NEW orientation, FetchScroll(orientation)
  PROVE  TypeOK'
<1>1. CASE orientation = "NEXT"
  BY <1>1, FetchNextRowOK DEF FetchScroll, Fetches
<1>2. CASE orientation # "NEXT"
  <2>1. InputsOK'
    BY DEF FetchScroll, TypeOK, InputsOK, inputVars
  <2>2. CallOK'
    BY <1>2, ReturnOK DEF FetchScroll, Functions, ReturnCodes, SqlStates
  <2>3. ResultOK' /\ ViewOK' /\ UNCHANGED <<rowsFetched, rowStatus>>
    BY <1>2, SameView DEF FetchScroll, TypeOK, appVars
  <2> QED  BY <2>1, <2>2, <2>3 DEF TypeOK
<1> QED  BY <1>1, <1>2

\* What the application has of a column stays well formed.
LEMMA ViewFields ==
  ASSUME NEW types \in SUBSET Chunked, NEW bytes \in Nat, NEW gapless \in BOOLEAN,
         NEW complete \in BOOLEAN, NEW null \in BOOLEAN, NEW fixed \in BOOLEAN
  PROVE  [types |-> types, bytes |-> bytes, gapless |-> gapless, complete |-> complete,
          null |-> null, fixed |-> fixed] \in ColumnViews
  BY DEF ColumnViews

\* A C type that is not known is refused, or the cell is NULL.
LEMMA ReceivedOK ==
  ASSUME NEW g \in ColumnViews, NEW t, NEW b \in Buffers, NEW o \in Outcomes,
         t \in Chunked \cup {"FIXED"} \/ o.rc \in {ERROR, NO_DATA} \/ o.ind = NULL_DATA
  PROVE  Received(g, t, b, o) \in ColumnViews
<1> DEFINE answered == o.rc \in {SUCCESS, WITH_INFO}
           value == answered /\ o.ind # NULL_DATA /\ b.ptr
           chunk == value /\ t # "FIXED"
           types == IF chunk THEN g.types \cup {t} ELSE g.types
           bytes == IF chunk THEN g.bytes + o.count ELSE g.bytes
           gapless == g.gapless /\ (chunk /\ o.count > 0 => o.from = g.bytes)
           complete == IF chunk THEN o.rc = SUCCESS ELSE g.complete
           null == g.null \/ (answered /\ o.ind = NULL_DATA)
           fixed == g.fixed \/ (value /\ t = "FIXED")
<1>1. /\ g.types \in SUBSET Chunked /\ g.bytes \in Nat /\ g.gapless \in BOOLEAN
      /\ g.complete \in BOOLEAN /\ g.null \in BOOLEAN /\ g.fixed \in BOOLEAN
      /\ o.count \in Nat
  BY DEF ColumnViews, Outcomes
<1>2. chunk => t \in Chunked
  BY DEF ERROR, NO_DATA, SUCCESS, WITH_INFO
<1>3. types \in SUBSET Chunked
  BY <1>1, <1>2
<1>4. bytes \in Nat
  BY <1>1
<1>5. gapless \in BOOLEAN /\ null \in BOOLEAN /\ fixed \in BOOLEAN
  OBVIOUS
<1>6. complete \in BOOLEAN
  BY <1>1, Zenon
<1>7. Received(g, t, b, o) =
        [types |-> types, bytes |-> bytes, gapless |-> gapless, complete |-> complete,
         null |-> null, fixed |-> fixed]
  BY Zenon DEF Received
<1>8. [types |-> types, bytes |-> bytes, gapless |-> gapless, complete |-> complete,
       null |-> null, fixed |-> fixed] \in ColumnViews
  <2> HIDE DEF types, bytes, gapless, complete, null, fixed
  <2> QED  BY <1>3, <1>4, <1>5, <1>6, ViewFields
<1> QED  BY <1>7, <1>8, Zenon

\* The call of SQLGetData that converts: everything it is given is well typed.
Converts(c, t, b) ==
    /\ OnRow /\ c \in 1..Len(rs.columns)
    /\ t \in CTypes /\ b \in Buffers
    /\ getDataOffsets[c] <= MaxOffset

LEMMA ConversionOK ==
  ASSUME ResultOK, NEW c, NEW t, NEW b, Converts(c, t, b)
  PROVE  /\ c \in Cols
         /\ CellAt(c, cursor) \in Cells
         /\ rs.columns[c] \in ColumnTypes
         /\ getDataOffsets[c] \in Nat \cup {Consumed} /\ getDataOffsets[c] < SizeMax
         /\ Resolve(t, rs.columns[c]) \in CTypes \ {"DEFAULT"}
         /\ ConvertCell(getDataOffsets[c], CellAt(c, cursor), rs.columns[c], t, b, TRUE)
                \in Outcomes
<1>1. c \in Cols /\ c \in Nat \ {0}
  BY BoundsAssumption DEF Converts, ResultOK, ResultSets, Cols
<1>2. cursor \in Nat /\ cursor < RowCount
  BY DEF Converts, OnRow, ResultOK
<1>3. CellAt(c, cursor) \in Cells
  BY <1>1, <1>2, CellOK
<1>4. rs.columns[c] \in ColumnTypes
  BY DEF Converts, ResultOK, ResultSets
<1>5. getDataOffsets[c] \in Nat \cup {Consumed}
  BY <1>1 DEF ResultOK
<1>6. getDataOffsets[c] < SizeMax
  BY <1>5, BoundsAssumption, SizeMaxAssumption DEF Converts, Consumed
<1>7. Resolve(t, rs.columns[c]) \in CTypes \ {"DEFAULT"}
  BY <1>4 DEF Converts, Resolve, CTypes, ColumnTypes, Chunked
<1>8. ConvertCell(getDataOffsets[c], CellAt(c, cursor), rs.columns[c], t, b, TRUE)
          \in Outcomes
  <2>1. t \in CTypes /\ b \in Buffers /\ TRUE \in BOOLEAN
    BY DEF Converts
  <2> QED  BY <1>3, <1>4, <1>5, <1>6, <2>1, ConvertCellType, Zenon
<1> QED  BY <1>1, <1>3, <1>4, <1>5, <1>6, <1>7, <1>8

\* What SQLGetData did, when it converted.
GetDataStep(c, t, b) ==
    LET o == ConvertCell(getDataOffsets[c], CellAt(c, cursor), rs.columns[c], t, b, TRUE)
    IN  /\ getDataOffsets' = [getDataOffsets EXCEPT ![c] = o.offset]
        /\ ret' = Call("SQLGetData", c, Resolve(t, rs.columns[c]), o.rc, o.ind)
        /\ diag' = Records(0, o.state)
        /\ got' = [got EXCEPT ![c] = Received(got[c], Resolve(t, rs.columns[c]), b, o)]
        /\ UNCHANGED <<inputVars, hasResult, rs, cursor, rowsFetched, rowStatus, filled>>

LEMMA GetDataCases ==
  ASSUME NEW c \in 0..(MaxCols + 1), NEW t \in ReadTypes, NEW b \in ReadBuffers,
         GetData(c, t, b)
  PROVE  \/ /\ UNCHANGED <<resultVars, got, filled, inputVars, rowsFetched, rowStatus>>
            /\ \/ Return("SQLGetData", ERROR, "24000")
               \/ Return("SQLGetData", ERROR, "07009")
         \/ Converts(c, t, b) /\ GetDataStep(c, t, b)
  BY InputsAssumption DEF GetData, Converts, GetDataStep, resultVars

\* A type that is neither chunked nor fixed is refused unless the cell is NULL.
LEMMA UnknownTypeRefused ==
  ASSUME NEW cell \in Cells, NEW colType \in ColumnTypes, NEW cType \in CTypes,
         NEW offset \in Nat \cup {Consumed}, NEW buf \in Buffers,
         Resolve(cType, colType) \notin Chunked \cup {"FIXED"}
  PROVE  LET o == ConvertCell(offset, cell, colType, cType, buf, TRUE)
         IN  o.rc \in {ERROR, NO_DATA} \/ o.ind = NULL_DATA
  BY DEF ConvertCell, ConvertNull, Plain, Outcome

LEMMA GetDataOK ==
  ASSUME TypeOK, NEW c \in 0..(MaxCols + 1), NEW t \in ReadTypes, NEW b \in ReadBuffers,
         GetData(c, t, b)
  PROVE  TypeOK'
<1>1. CASE /\ UNCHANGED <<resultVars, got, filled, inputVars, rowsFetched, rowStatus>>
           /\ \/ Return("SQLGetData", ERROR, "24000")
              \/ Return("SQLGetData", ERROR, "07009")
  <2>1. CallOK'
    BY <1>1, ReturnOK DEF Functions, ReturnCodes, SqlStates
  <2>2. ResultOK' /\ ViewOK'
    BY <1>1, SameView DEF TypeOK
  <2>3. InputsOK'
    BY <1>1 DEF TypeOK, InputsOK, inputVars
  <2> QED  BY <1>1, <2>1, <2>2, <2>3 DEF TypeOK
<1>2. CASE Converts(c, t, b) /\ GetDataStep(c, t, b)
  <2> DEFINE cell == CellAt(c, cursor)
             type == Resolve(t, rs.columns[c])
             o == ConvertCell(getDataOffsets[c], cell, rs.columns[c], t, b, TRUE)
  <2>1. /\ c \in Cols /\ cell \in Cells /\ rs.columns[c] \in ColumnTypes
        /\ getDataOffsets[c] \in Nat \cup {Consumed}
        /\ type \in CTypes /\ o \in Outcomes
    BY <1>2, ConversionOK DEF TypeOK
  <2>2. t \in CTypes /\ b \in Buffers
    BY <1>2 DEF Converts
  <2>3. type \in Chunked \cup {"FIXED"} \/ o.rc \in {ERROR, NO_DATA} \/ o.ind = NULL_DATA
    BY <2>1, <2>2, UnknownTypeRefused, ZenonT(30)
  <2>4. got[c] \in ColumnViews
    BY <2>1 DEF TypeOK, ViewOK
  <2>5. Received(got[c], type, b, o) \in ColumnViews
    <3> HIDE DEF type, o
    <3> QED  BY <2>1, <2>2, <2>3, <2>4, ReceivedOK
  <2>6. /\ getDataOffsets' = [getDataOffsets EXCEPT ![c] = o.offset]
        /\ ret' = Call("SQLGetData", c, type, o.rc, o.ind)
        /\ diag' = Records(0, o.state)
        /\ got' = [got EXCEPT ![c] = Received(got[c], type, b, o)]
        /\ UNCHANGED <<inputVars, hasResult, rs, cursor, rowsFetched, rowStatus, filled>>
    BY <1>2 DEF GetDataStep
  <2> HIDE DEF type, o
  <2>7. ViewOK'
    BY <2>1, <2>5, <2>6 DEF TypeOK, ViewOK
  <2>8. ResultOK'
    <3>1. o.offset \in Nat \cup {Consumed}
      BY <2>1 DEF Outcomes
    <3>2. getDataOffsets' \in [Cols -> Nat \cup {Consumed}]
      BY <2>1, <2>6, <3>1 DEF TypeOK, ResultOK
    <3> QED  BY <2>6, <3>2 DEF TypeOK, ResultOK
  <2>9. CallOK'
    <3>1. o.rc \in ReturnCodes /\ o.ind \in Int /\ o.state \in SqlStates
      BY <2>1 DEF Outcomes, SqlStates
    <3>2. Records(0, o.state) \subseteq [col : Cols \cup {0}, state : SqlStates]
      BY <3>1 DEF Records, Record
    <3>3. ret' \in [fn : Functions, col : Cols \cup {0}, cType : CTypes \cup {"none"},
                    rc : ReturnCodes, ind : Int, queried : BOOLEAN]
      BY <2>1, <2>6, <3>1 DEF Call, Functions
    <3> QED  BY <2>6, <3>2, <3>3 DEF CallOK
  <2>10. InputsOK'
    BY <2>6 DEF TypeOK, InputsOK, inputVars
  <2> QED  BY <2>6, <2>7, <2>8, <2>9, <2>10 DEF TypeOK
<1> QED  BY <1>1, <1>2, GetDataCases

LEMMA BindColOK ==
  ASSUME TypeOK, NEW c \in 0..MaxCols, NEW b \in Bindings, BindCol(c, b)
  PROVE  TypeOK'
<1>1. CallOK'
  BY ReturnOK DEF BindCol, Functions, ReturnCodes, SqlStates, ConvertStates
<1>2. ResultOK' /\ ViewOK'
  BY DEF BindCol, TypeOK, ResultOK, ViewOK, resultVars
<1>3. DOMAIN bindings' \subseteq Cols /\ \A d \in DOMAIN bindings' : bindings'[d] \in ColumnBindings
  <2>1. CASE ~NumberOk(c)
    BY <2>1 DEF BindCol, TypeOK, InputsOK
  <2>2. CASE NumberOk(c) /\ ~b.buf.ptr /\ ~b.buf.ind
    BY <2>2 DEF BindCol, Drop, TypeOK, InputsOK
  <2>3. CASE NumberOk(c) /\ ~(~b.buf.ptr /\ ~b.buf.ind)
    <3>1. c \in Cols /\ b \in ColumnBindings
      BY <2>3, BoundsAssumption, InputsAssumption DEF NumberOk, Cols
    <3>2. bindings' = Put(bindings, c, b)
      BY <2>3 DEF BindCol
    <3> QED  BY <3>1, <3>2 DEF Put, TypeOK, InputsOK
  <2> QED  BY <2>1, <2>2, <2>3
<1>4. InputsOK'
  BY <1>3 DEF BindCol, TypeOK, InputsOK
<1> QED  BY <1>1, <1>2, <1>4 DEF BindCol, TypeOK

LEMMA BindParameterOK ==
  ASSUME TypeOK, NEW n \in 0..MaxParams, NEW isInput \in BOOLEAN,
         NEW p \in ParamBindings, BindParameter(n, isInput, p)
  PROVE  TypeOK'
<1>1. CallOK'
  BY ReturnOK DEF BindParameter, Functions, ReturnCodes, SqlStates, ConvertStates
<1>2. ResultOK' /\ ViewOK' /\ UNCHANGED <<rowsFetched, rowStatus>>
  BY SameView DEF BindParameter, TypeOK, appVars
<1>3. DOMAIN params' \subseteq Params /\ \A m \in DOMAIN params' : params'[m] \in ParamBinds
  <2>1. CASE ~(NumberOk(n) /\ isInput)
    BY <2>1 DEF BindParameter, TypeOK, InputsOK
  <2>2. CASE NumberOk(n) /\ isInput
    <3>1. n \in Params /\ p \in ParamBinds
      BY <2>2, BoundsAssumption, InputsAssumption DEF NumberOk, Params
    <3>2. params' = Put(params, n, p)
      BY <2>2 DEF BindParameter
    <3> QED  BY <3>1, <3>2 DEF Put, TypeOK, InputsOK
  <2> QED  BY <2>1, <2>2
<1>4. InputsOK'
  BY <1>3 DEF BindParameter, TypeOK, InputsOK
<1> QED  BY <1>1, <1>2, <1>4 DEF TypeOK

LEMMA FreeStmtOK == ASSUME TypeOK, NEW option, FreeStmt(option) PROVE TypeOK'
<1>1. CallOK'
  BY ReturnOK DEF FreeStmt, Functions, ReturnCodes, SqlStates, ConvertStates
<1>2. ResultOK' /\ ViewOK'
  <2>1. CASE option = "CLOSE"
    BY <2>1, CloseOK DEF FreeStmt
  <2>2. CASE option # "CLOSE"
    BY <2>2 DEF FreeStmt, TypeOK, ResultOK, ViewOK, resultVars
  <2> QED  BY <2>1, <2>2
<1>3. InputsOK'
  <2>1. DOMAIN Empty = {}
    BY DEF Empty
  <2> QED  BY <2>1 DEF FreeStmt, TypeOK, InputsOK
<1> QED  BY <1>1, <1>2, <1>3 DEF FreeStmt, TypeOK

LEMMA CloseCursorOK == ASSUME TypeOK, CloseCursor PROVE TypeOK'
<1>1. CallOK'
  BY ReturnOK DEF CloseCursor, Functions, ReturnCodes, SqlStates, ConvertStates
<1>2. ResultOK' /\ ViewOK'
  BY SameView, CloseOK DEF CloseCursor, TypeOK
<1>3. InputsOK'
  BY DEF CloseCursor, TypeOK, InputsOK, inputVars
<1> QED  BY <1>1, <1>2, <1>3 DEF CloseCursor, TypeOK

LEMMA SetMaxRowsOK == ASSUME TypeOK, NEW n \in RowLimits, SetMaxRows(n) PROVE TypeOK'
<1>1. CallOK'
  BY ReturnOK DEF SetMaxRows, Functions, ReturnCodes, SqlStates, ConvertStates
<1>2. ResultOK' /\ ViewOK' /\ UNCHANGED <<rowsFetched, rowStatus>>
  BY SameView DEF SetMaxRows, TypeOK, appVars
<1>3. InputsOK'
  BY InputsAssumption DEF SetMaxRows, TypeOK, InputsOK
<1> QED  BY <1>1, <1>2, <1>3 DEF TypeOK

LEMMA SetStmtAttrOK ==
  ASSUME TypeOK, NEW attr \in Attributes, NEW given \in BOOLEAN, SetStmtAttr(attr, given)
  PROVE  TypeOK'
<1>1. CallOK'
  BY ReturnOK DEF SetStmtAttr, Functions, ReturnCodes, SqlStates, ConvertStates
<1>2. ResultOK' /\ ViewOK' /\ UNCHANGED <<rowsFetched, rowStatus>>
  BY SameView DEF SetStmtAttr, TypeOK, appVars
<1>3. InputsOK'
  BY InputsAssumption DEF SetStmtAttr, TypeOK, InputsOK
<1> QED  BY <1>1, <1>2, <1>3 DEF TypeOK

LEMMA CatalogQueryOK == ASSUME TypeOK, CatalogQuery PROVE TypeOK'
<1>1. CallOK'
  BY ReturnOK DEF CatalogQuery, CatalogErrors, Functions, ReturnCodes, SqlStates, ConvertStates
<1>2. ResultOK' /\ ViewOK'
  BY SameView, InstallOK, ResultsAssumption DEF CatalogQuery, TypeOK
<1>3. InputsOK'
  BY DEF CatalogQuery, TypeOK, InputsOK, inputVars
<1> QED  BY <1>1, <1>2, <1>3 DEF CatalogQuery, TypeOK

LEMMA CatalogStaticOK == ASSUME TypeOK, CatalogStatic PROVE TypeOK'
<1>1. CallOK'
  BY ReturnOK DEF CatalogStatic, Functions, ReturnCodes, SqlStates, ConvertStates
<1>2. ResultOK' /\ ViewOK'
  BY InstallOK, ResultsAssumption DEF CatalogStatic
<1>3. InputsOK'
  BY DEF CatalogStatic, TypeOK, InputsOK, inputVars
<1> QED  BY <1>1, <1>2, <1>3 DEF CatalogStatic, TypeOK

\* The calls that only report.
ReportsOnly ==
    MoreResults \/ (\E c \in 0..(MaxCols + 1) : Describe(c)) \/ GetStmtAttr \/ Unsupported

LEMMA ReportsOnlyOK == ASSUME TypeOK, ReportsOnly PROVE TypeOK'
<1>1. UNCHANGED <<resultVars, inputVars, appVars>>
  BY DEF ReportsOnly, MoreResults, Describe, GetStmtAttr, Unsupported
<1>2. CallOK'
  <2>1. CASE MoreResults
    BY <2>1, ReturnOK DEF MoreResults, Functions, ReturnCodes, SqlStates, ConvertStates
  <2>2. CASE \E c \in 0..(MaxCols + 1) : Describe(c)
    BY <2>2, ReturnOK DEF Describe, Functions, ReturnCodes, SqlStates, ConvertStates
  <2>3. CASE GetStmtAttr
    BY <2>3, ReturnOK DEF GetStmtAttr, Functions, ReturnCodes, SqlStates, ConvertStates
  <2>4. CASE Unsupported
    BY <2>4, ReturnOK DEF Unsupported, Functions, ReturnCodes, SqlStates, ConvertStates
  <2> QED  BY <2>1, <2>2, <2>3, <2>4 DEF ReportsOnly
<1>3. ResultOK' /\ ViewOK' /\ UNCHANGED <<rowsFetched, rowStatus>>
  BY <1>1, SameView DEF TypeOK, appVars
<1>4. InputsOK'
  BY <1>1 DEF TypeOK, InputsOK, inputVars
<1> QED  BY <1>2, <1>3, <1>4 DEF TypeOK

LEMMA StutterOK == ASSUME TypeOK, UNCHANGED vars PROVE TypeOK'
  BY DEF vars, resultVars, inputVars, appVars, TypeOK, InputsOK, ResultOK, CallOK, ViewOK

LEMMA InitOK == Init => TypeOK
<1> SUFFICES ASSUME Init PROVE TypeOK
  OBVIOUS
<1>1. InputsOK
  <2>1. DOMAIN Empty = {}
    BY DEF Empty
  <2>2. prepared \in BOOLEAN
    BY Zenon DEF Init
  <2> QED  BY <2>1, <2>2 DEF Init, InputsOK
<1>2. ResultOK
  <2>1. hasResult \in BOOLEAN
    BY Zenon DEF Init
  <2>2. getDataOffsets \in [Cols -> Nat \cup {Consumed}]
    BY DEF Init, NoOffsets
  <2> QED  BY <2>1, <2>2, NoRowsOK, BoundsAssumption DEF Init, ResultOK
<1>3. CallOK
  BY DEF Init, CallOK, Call, Functions, ReturnCodes, NotSet
<1>4. ViewOK
  BY GotNothingOK DEF Init, ViewOK
<1> QED  BY <1>1, <1>2, <1>3, <1>4 DEF Init, TypeOK

-----------------------------------------------------------------------------
(* What a call can do to the result, its cursor and its offsets *)

Keeps == UNCHANGED <<resultVars, got>>

MovesToEnd ==
    /\ hasResult /\ AtEnd
    /\ cursor' = RowCount
    /\ UNCHANGED <<hasResult, rs, getDataOffsets, got>>

MovesToRow ==
    /\ hasResult /\ ~AtEnd
    /\ cursor' = cursor + 1
    /\ getDataOffsets' = NoOffsets
    /\ got' = GotNothing
    /\ UNCHANGED <<hasResult, rs>>

Installs == \E r \in ResultSets : Install(r)

Reads == \E c \in 0..(MaxCols + 1), t \in ReadTypes, b \in ReadBuffers :
            Converts(c, t, b) /\ GetDataStep(c, t, b)

ResultStep == Keeps \/ Close \/ Installs \/ MovesToEnd \/ MovesToRow \/ Reads

LEMMA ExecuteStep ==
  ASSUME TypeOK, NEW fn, NEW text, ExecuteStatement(fn, text)
  PROVE  Keeps \/ Close \/ Installs
<1>1. PICK mem \in [Indicated(text) -> Indicators] : ExecuteStatement(fn, text)!(mem)
  BY DEF ExecuteStatement
<1>2. \A r \in QueryResults : Trim(r) \in ResultSets
  BY TrimOK, ResultsAssumption DEF TypeOK, InputsOK
<1> QED  BY <1>1, <1>2 DEF Keeps, Installs

LEMMA FetchStep ==
  ASSUME NEW fn, FetchNextRow(fn)
  PROVE  Keeps \/ MovesToEnd \/ MovesToRow
  BY DEF FetchNextRow, Keeps, MovesToEnd, MovesToRow, ClearOffsets, resultVars, appVars

\* Every call does one of six things to the result.
LEMMA NextResultStep == ASSUME TypeOK, Next PROVE ResultStep
<1>1. CASE \E text \in Texts \cup {NoText} : ExecDirect(text) \/ Prepare(text)
  <2>1. PICK text \in Texts \cup {NoText} : ExecDirect(text) \/ Prepare(text)
    BY <1>1
  <2>2. CASE ExecDirect(text)
    BY <2>2, ExecuteStep DEF ExecDirect, Keeps, ResultStep
  <2>3. CASE Prepare(text)
    BY <2>3 DEF Prepare, Keeps, ResultStep
  <2> QED  BY <2>1, <2>2, <2>3
<1>2. CASE Execute
  BY <1>2, ExecuteStep DEF Execute, Keeps, ResultStep
<1>3. CASE Fetch
  BY <1>3, FetchStep DEF Fetch, ResultStep
<1>4. CASE \E orientation \in {"NEXT", "PRIOR"} : FetchScroll(orientation)
  BY <1>4, FetchStep DEF FetchScroll, ResultStep, Keeps, appVars
<1>5. CASE \E c \in 0..(MaxCols + 1), t \in ReadTypes, b \in ReadBuffers : GetData(c, t, b)
  BY <1>5, GetDataCases DEF ResultStep, Keeps, Reads
<1>6. CASE \E c \in 0..MaxCols, b \in Bindings : BindCol(c, b)
  BY <1>6 DEF BindCol, ResultStep, Keeps
<1>7. CASE \E n \in 0..MaxParams, isInput \in BOOLEAN, p \in ParamBindings :
              BindParameter(n, isInput, p)
  BY <1>7 DEF BindParameter, ResultStep, Keeps, appVars
<1>8. CASE \E option \in {"CLOSE", "UNBIND", "RESET_PARAMS", "OTHER"} : FreeStmt(option)
  BY <1>8 DEF FreeStmt, ResultStep, Keeps
<1>9. CASE CloseCursor
  BY <1>9 DEF CloseCursor, ResultStep, Keeps
<1>10. CASE \E n \in RowLimits : SetMaxRows(n)
  BY <1>10 DEF SetMaxRows, ResultStep, Keeps, appVars
<1>11. CASE \E attr \in Attributes, given \in BOOLEAN : SetStmtAttr(attr, given)
  BY <1>11 DEF SetStmtAttr, ResultStep, Keeps, appVars
<1>12. CASE CatalogQuery
  BY <1>12, ResultsAssumption DEF CatalogQuery, ResultStep, Keeps, Installs
<1>13. CASE CatalogStatic
  BY <1>13, ResultsAssumption DEF CatalogStatic, ResultStep, Installs
<1>14. CASE ReportsOnly
  BY <1>14 DEF ReportsOnly, MoreResults, Describe, GetStmtAttr, Unsupported, ResultStep,
               Keeps, appVars
<1> QED
  BY <1>1, <1>2, <1>3, <1>4, <1>5, <1>6, <1>7, <1>8, <1>9, <1>10, <1>11, <1>12, <1>13, <1>14
  DEF Next, ReportsOnly

\* TypeOK is preserved wherever the cursor is in range.
LEMMA NextTypeOK == ASSUME TypeOK, CursorInRange, Next PROVE TypeOK'
<1>1. CASE \E text \in Texts \cup {NoText} : ExecDirect(text) \/ Prepare(text)
  BY <1>1, ExecDirectOK, PrepareOK
<1>2. CASE Execute \/ Fetch \/ CloseCursor \/ CatalogQuery \/ CatalogStatic \/ ReportsOnly
  BY <1>2, ExecuteOK, FetchOK, CloseCursorOK, CatalogQueryOK, CatalogStaticOK, ReportsOnlyOK
<1>3. CASE \E orientation \in {"NEXT", "PRIOR"} : FetchScroll(orientation)
  BY <1>3, FetchScrollOK
<1>4. CASE \E c \in 0..(MaxCols + 1), t \in ReadTypes, b \in ReadBuffers : GetData(c, t, b)
  BY <1>4, GetDataOK
<1>5. CASE \E c \in 0..MaxCols, b \in Bindings : BindCol(c, b)
  BY <1>5, BindColOK
<1>6. CASE \E n \in 0..MaxParams, isInput \in BOOLEAN, p \in ParamBindings :
              BindParameter(n, isInput, p)
  BY <1>6, BindParameterOK
<1>7. CASE \E option \in {"CLOSE", "UNBIND", "RESET_PARAMS", "OTHER"} : FreeStmt(option)
  BY <1>7, FreeStmtOK
<1>8. CASE \E n \in RowLimits : SetMaxRows(n)
  BY <1>8, SetMaxRowsOK
<1>9. CASE \E attr \in Attributes, given \in BOOLEAN : SetStmtAttr(attr, given)
  BY <1>9, SetStmtAttrOK
<1> QED
  BY <1>1, <1>2, <1>3, <1>4, <1>5, <1>6, <1>7, <1>8, <1>9 DEF Next, ReportsOnly

-----------------------------------------------------------------------------
(* The cursor *)

LEMMA CursorStep ==
  ASSUME TypeOK, CursorInRange, ResultStep
  PROVE  CursorInRange'
<1>1. RowCount \in Nat /\ cursor \in Int
  BY DEF RowCount, TypeOK, ResultOK, ResultSets
<1>2. CASE Keeps
  BY <1>2 DEF Keeps, resultVars, CursorInRange, RowCount
<1>3. CASE Close
  BY <1>3, NoRowsOK DEF Close, CursorInRange, RowCount
<1>4. CASE Installs
  BY <1>4 DEF Installs, Install, CursorInRange, RowCount, ResultSets
<1>5. CASE MovesToEnd
  BY <1>1, <1>5 DEF MovesToEnd, CursorInRange, RowCount
<1>6. CASE MovesToRow
  BY <1>1, <1>6 DEF MovesToRow, AtEnd, CursorInRange, RowCount
<1>7. CASE Reads
  BY <1>7 DEF Reads, GetDataStep, CursorInRange, RowCount
<1> QED  BY <1>2, <1>3, <1>4, <1>5, <1>6, <1>7 DEF ResultStep

LEMMA ClosedStep == ASSUME ClosedIsClean, ResultStep PROVE ClosedIsClean'
<1>1. CASE Keeps
  BY <1>1 DEF Keeps, resultVars, ClosedIsClean
<1>2. CASE Close
  BY <1>2 DEF Close, ClearOffsets, ClosedIsClean
<1>3. CASE Installs
  BY <1>3 DEF Installs, Install, ClosedIsClean
<1>4. CASE MovesToEnd \/ MovesToRow
  BY <1>4 DEF MovesToEnd, MovesToRow, ClosedIsClean
<1>5. CASE Reads
  BY <1>5 DEF Reads, Converts, OnRow, GetDataStep, ClosedIsClean
<1> QED  BY <1>1, <1>2, <1>3, <1>4, <1>5 DEF ResultStep

-----------------------------------------------------------------------------
(* Chunked reading *)

\* A call of SQLGetData on a value that is not NULL either delivers a part of it,
\* and is then a chunked copy, or leaves the offset alone.
Delivers(t, buf, o) ==
    /\ o.rc \in {SUCCESS, WITH_INFO} /\ o.ind # NULL_DATA
    /\ buf.ptr /\ t # "FIXED"

LEMMA FixedKeepsOffset ==
  ASSUME NEW offset, NEW cell, NEW buf
  PROVE  ConvertFixed(offset, cell, buf).offset = offset
  BY DEF ConvertFixed, Outcome, Plain

LEMMA RefusedKeepsOffset ==
  ASSUME NEW offset
  PROVE  LET o == Plain(ERROR, "07006", NotSet, offset)
         IN  o.offset = offset /\ o.rc \notin {SUCCESS, WITH_INFO}
  BY DEF Plain, Outcome, ERROR, SUCCESS, WITH_INFO

LEMMA CopyDeliversOrKeeps ==
  ASSUME NEW t \in Chunked, NEW total \in Nat, NEW offset \in Nat \cup {Consumed},
         offset < SizeMax, NEW buf \in Buffers
  PROVE  LET o == CopyChunked(offset, total, t, buf, TRUE)
         IN  /\ ~Delivers(t, buf, o) => o.offset = offset
             /\ offset = Consumed => o.rc = NO_DATA /\ o.offset = offset /\ o.ind = NotSet
<1> DEFINE o == CopyChunked(offset, total, t, buf, TRUE)
<1>1. offset < 0 => o.rc = NO_DATA /\ o.offset = offset /\ o.ind = NotSet
  BY DEF CopyChunked, Plain, Outcome
<1>2. ~buf.ptr \/ buf.len < 0 => o.offset = offset
  BY DEF CopyChunked, Plain, Outcome
<1>3. ~(offset < 0 \/ ~buf.ptr \/ buf.len < 0) =>
        o.rc \in {SUCCESS, WITH_INFO} /\ o.ind = IndFor(buf, SizeT(total - offset))
  BY DEF CopyChunked, Outcome
<1>4. offset >= 0 => IndFor(buf, SizeT(total - offset)) # NULL_DATA
  BY SizeMaxAssumption DEF IndFor, SizeT, NULL_DATA, NotSet
<1>5. t # "FIXED" /\ Consumed < 0 /\ (offset >= 0 \/ offset < 0)
  BY DEF Chunked, Consumed
<1> HIDE DEF o
<1>6. ~Delivers(t, buf, o) => o.offset = offset
  BY <1>1, <1>2, <1>3, <1>4, <1>5 DEF Delivers
<1>7. offset = Consumed => o.rc = NO_DATA /\ o.offset = offset /\ o.ind = NotSet
  BY <1>1, <1>5
<1> QED  BY <1>6, <1>7 DEF o

LEMMA DeliversOrKeeps ==
  ASSUME NEW cell \in Cells, ~cell.null, NEW colType \in ColumnTypes, NEW cType \in CTypes,
         NEW offset \in Nat \cup {Consumed}, offset < SizeMax, NEW buf \in Buffers
  PROVE  LET t == Resolve(cType, colType)
             o == ConvertCell(offset, cell, colType, cType, buf, TRUE)
         IN  IF Delivers(t, buf, o)
             THEN t \in Chunked /\ o = CopyChunked(offset, Total(cell, colType, t), t, buf, TRUE)
             ELSE o.offset = offset
<1> DEFINE t == Resolve(cType, colType)
           copy == CopyChunked(offset, Total(cell, colType, t), t, buf, TRUE)
           fixed == ConvertFixed(offset, cell, buf)
           refused == Plain(ERROR, "07006", NotSet, offset)
           o == ConvertCell(offset, cell, colType, cType, buf, TRUE)
<1>1. o = IF t \in Chunked THEN copy ELSE IF t = "FIXED" THEN fixed ELSE refused
  BY DEF ConvertCell
<1>2. t \in Chunked => (~Delivers(t, buf, copy) => copy.offset = offset)
  <2> SUFFICES ASSUME t \in Chunked PROVE ~Delivers(t, buf, copy) => copy.offset = offset
    OBVIOUS
  <2>1. Total(cell, colType, t) \in Nat
    BY TotalType
  <2> HIDE DEF t
  <2> QED  BY <2>1, CopyDeliversOrKeeps
<1>3. fixed.offset = offset
  BY FixedKeepsOffset
<1>4. refused.offset = offset /\ refused.rc \notin {SUCCESS, WITH_INFO}
  BY RefusedKeepsOffset
<1>5. IF Delivers(t, buf, o) THEN t \in Chunked /\ o = copy ELSE o.offset = offset
  <2> HIDE DEF t, copy, fixed, refused, o
  <2>1. CASE t \in Chunked
    BY <1>1, <1>2, <2>1
  <2>2. CASE t \notin Chunked /\ t = "FIXED"
    BY <1>1, <1>3, <2>2 DEF Delivers
  <2>3. CASE t \notin Chunked /\ t # "FIXED"
    BY <1>1, <1>4, <2>3 DEF Delivers
  <2> QED  BY <2>1, <2>2, <2>3
<1> QED  BY <1>5

\* What the application makes of either.
LEMMA ReceivedFields ==
  ASSUME NEW g, NEW t, NEW b, NEW o
  PROVE  LET r == Received(g, t, b, o)
         IN  IF Delivers(t, b, o)
             THEN /\ r.types = g.types \cup {t} /\ r.bytes = g.bytes + o.count
                  /\ r.gapless <=> g.gapless /\ (o.count > 0 => o.from = g.bytes)
                  /\ r.complete <=> o.rc = SUCCESS
             ELSE /\ r.types = g.types /\ r.bytes = g.bytes
                  /\ r.gapless <=> g.gapless
                  /\ r.complete = g.complete
  BY DEF Received, Delivers

\* OffsetsMatch, for one column.
Matches(g, offset, cell, colType) ==
    ~cell.null =>
        /\ g.types = {} => offset = 0 /\ g.bytes = 0 /\ g.gapless /\ ~g.complete
        /\ \A t \in Chunked : g.types = {t} =>
              /\ g.gapless
              /\ IF g.complete
                 THEN g.bytes = Total(cell, colType, t) /\ offset = Consumed
                 ELSE g.bytes < Total(cell, colType, t) /\ offset = g.bytes

LEMMA OffsetsMatchByColumn ==
  OffsetsMatch <=>
    (OnRow => \A c \in 1..Len(rs.columns) :
                Matches(got[c], getDataOffsets[c], CellAt(c, cursor), rs.columns[c]))
  BY Zenon DEF OffsetsMatch, Matches, UnreadMatches, ReadMatches

\* SQLGetData keeps a column's offset and its view in step.
LEMMA MatchesStep ==
  ASSUME NEW g \in ColumnViews, NEW cell \in Cells, NEW colType \in ColumnTypes,
         NEW cType \in CTypes, NEW offset \in Nat \cup {Consumed}, offset < SizeMax,
         NEW buf \in Buffers, Matches(g, offset, cell, colType)
  PROVE  LET t == Resolve(cType, colType)
             o == ConvertCell(offset, cell, colType, cType, buf, TRUE)
         IN  Matches(Received(g, t, buf, o), o.offset, cell, colType)
<1> DEFINE t == Resolve(cType, colType)
           total == Total(cell, colType, t)
           o == ConvertCell(offset, cell, colType, cType, buf, TRUE)
           r == Received(g, t, buf, o)
<1> SUFFICES ASSUME ~cell.null PROVE Matches(r, o.offset, cell, colType)
  BY DEF Matches
<1>1. CASE ~Delivers(t, buf, o)
  <2>1. o.offset = offset
    BY <1>1, DeliversOrKeeps
  <2>2. /\ r.types = g.types /\ r.bytes = g.bytes
        /\ r.gapless <=> g.gapless
        /\ r.complete = g.complete
    BY <1>1, ReceivedFields
  <2> HIDE DEF t, o, r
  <2> QED  BY <2>1, <2>2 DEF Matches
<1>2. CASE Delivers(t, buf, o)
  <2>1. t \in Chunked /\ o = CopyChunked(offset, total, t, buf, TRUE)
    BY <1>2, DeliversOrKeeps
  <2>2. total \in Nat
    BY <2>1, TotalType
  <2>3. /\ r.types = g.types \cup {t} /\ r.bytes = g.bytes + o.count
        /\ r.gapless <=> g.gapless /\ (o.count > 0 => o.from = g.bytes)
        /\ r.complete <=> o.rc = SUCCESS
    BY <1>2, ReceivedFields
  <2>4. CASE g.types \subseteq {t}
    <3>1. ~g.complete
      <4>1. SUFFICES ASSUME g.complete PROVE FALSE
        OBVIOUS
      <4>2. offset = Consumed
        BY <2>1, <2>4, <4>1 DEF Matches
      <4>3. o.rc = NO_DATA
        <5>1. CopyChunked(offset, total, t, buf, TRUE).rc = NO_DATA
          <6> HIDE DEF t, total
          <6> QED  BY <2>1, <2>2, <4>2, CopyDeliversOrKeeps
        <5> HIDE DEF t, total, o
        <5> QED  BY <2>1, <5>1
      <4> QED  BY <1>2, <4>3 DEF Delivers, NO_DATA, SUCCESS, WITH_INFO
    <3>2. g.gapless /\ g.bytes \in Nat /\ offset = g.bytes /\ offset <= total
      BY <2>1, <2>2, <2>4, <3>1 DEF Matches, ColumnViews
    <3>3. \/ o.rc = SUCCESS /\ o.from = offset /\ o.count = total - offset
              /\ o.offset = Consumed
          \/ o.rc = WITH_INFO /\ o.from = offset /\ o.count \in Nat
              /\ o.count < total - offset /\ o.offset = offset + o.count
      <4>1. offset \in Nat /\ offset <= total /\ t \in Chunked
        BY <2>1, <3>2
      <4> DEFINE copy == CopyChunked(offset, total, t, buf, TRUE)
      <4>2. \/ /\ copy.rc = SUCCESS /\ buf.ptr /\ copy.from = offset
               /\ copy.count = total - offset /\ copy.offset = Consumed
            \/ /\ copy.rc = WITH_INFO /\ buf.ptr /\ copy.from = offset
               /\ copy.count \in Nat /\ copy.count < total - offset
               /\ copy.offset = offset + copy.count
            \/ /\ copy.rc \in {SUCCESS, ERROR} /\ (copy.rc = SUCCESS <=> ~buf.ptr)
               /\ copy.count = 0 /\ copy.offset = offset
        <5> HIDE DEF t, total, o
        <5> QED  BY <2>2, <4>1, ChunkContinues, Zenon
      <4>3. o = copy
        BY <2>1
      <4> HIDE DEF t, total, o, copy
      <4> QED  BY <1>2, <4>2, <4>3 DEF Delivers, SUCCESS, WITH_INFO, ERROR
    <3>4. r.types = {t}
      BY <2>3, <2>4
    <3>5. r.gapless /\ IF r.complete THEN r.bytes = total /\ o.offset = Consumed
                       ELSE r.bytes < total /\ o.offset = r.bytes
      <4> HIDE DEF t, total, o, r
      <4> QED  BY <2>2, <2>3, <3>2, <3>3 DEF SUCCESS, WITH_INFO
    <3> HIDE DEF t, o, r
    <3>6. \A u : r.types = {u} => u = t
      BY <3>4
    <3> QED  BY <3>4, <3>5, <3>6 DEF Matches
  <2>5. CASE ~(g.types \subseteq {t})
    <3>1. r.types # {} /\ \A u : r.types # {u}
      BY <2>3, <2>5
    <3> HIDE DEF o, r
    <3> QED  BY <3>1 DEF Matches
  <2> QED  BY <2>4, <2>5
<1> QED  BY <1>1, <1>2

LEMMA OffsetsStep ==
  ASSUME TypeOK, CursorInRange, OffsetsMatch, ResultStep
  PROVE  OffsetsMatch'
<1>1. CASE Keeps \/ Close \/ Installs
  <2>1. CASE Keeps
    BY <2>1 DEF Keeps, resultVars, OffsetsMatch, UnreadMatches, ReadMatches, OnRow, RowCount, CellAt
  <2>2. CASE Close
    BY <2>2 DEF Close, OffsetsMatch, OnRow
  <2>3. CASE Installs
    BY <2>3 DEF Installs, Install, OffsetsMatch, OnRow
  <2> QED  BY <1>1, <2>1, <2>2, <2>3
<1>2. CASE MovesToEnd
  <2>1. ~OnRow'
    BY <1>2 DEF MovesToEnd, OnRow, RowCount, TypeOK, ResultOK, ResultSets
  <2> QED  BY <2>1 DEF OffsetsMatch
<1>3. CASE MovesToRow
  <2>1. \A c \in Cols : getDataOffsets'[c] = 0 /\ got'[c] = NothingGot
    BY <1>3 DEF MovesToRow, NoOffsets, GotNothing
  <2>2. 1..Len(rs'.columns) \subseteq Cols
    BY <1>3, BoundsAssumption DEF MovesToRow, TypeOK, ResultOK, ResultSets, Cols
  <2>3. \A t : {} # {t}
    OBVIOUS
  <2>4. ASSUME NEW c \in 1..Len(rs'.columns)
        PROVE  /\ getDataOffsets'[c] = 0 /\ got'[c].bytes = 0
               /\ got'[c].gapless /\ ~got'[c].complete /\ got'[c].types = {}
    BY <2>1, <2>2 DEF NothingGot
  <2> QED  BY <2>3, <2>4, Zenon DEF OffsetsMatch, UnreadMatches
<1>4. CASE Reads
  <2>1. PICK c \in 0..(MaxCols + 1), t \in ReadTypes, b \in ReadBuffers :
          Converts(c, t, b) /\ GetDataStep(c, t, b)
    BY <1>4 DEF Reads
  <2> DEFINE cell == CellAt(c, cursor)
             type == Resolve(t, rs.columns[c])
             o == ConvertCell(getDataOffsets[c], cell, rs.columns[c], t, b, TRUE)
  <2>2. /\ c \in Cols /\ cell \in Cells /\ rs.columns[c] \in ColumnTypes
        /\ getDataOffsets[c] \in Nat \cup {Consumed} /\ getDataOffsets[c] < SizeMax
    BY <2>1, ConversionOK DEF TypeOK
  <2>3. t \in CTypes /\ b \in Buffers /\ OnRow /\ c \in 1..Len(rs.columns)
    BY <2>1 DEF Converts
  <2>4. \A d \in 1..Len(rs.columns) :
          Matches(got[d], getDataOffsets[d], CellAt(d, cursor), rs.columns[d])
    BY <2>3, OffsetsMatchByColumn
  <2>5. got[c] \in ColumnViews
    BY <2>2 DEF TypeOK, ViewOK
  <2>6. Matches(Received(got[c], type, b, o), o.offset, cell, rs.columns[c])
    <3>1. Matches(got[c], getDataOffsets[c], cell, rs.columns[c])
      BY <2>3, <2>4
    <3> HIDE DEF cell
    <3> QED  BY <2>2, <2>3, <2>5, <3>1, MatchesStep
  <2>7. /\ getDataOffsets' = [getDataOffsets EXCEPT ![c] = o.offset]
        /\ got' = [got EXCEPT ![c] = Received(got[c], type, b, o)]
        /\ UNCHANGED <<hasResult, rs, cursor>>
    BY <2>1 DEF GetDataStep
  <2>8. \A d : CellAt(d, cursor)' = CellAt(d, cursor)
    BY <2>7 DEF CellAt
  <2>9. \A d \in 1..Len(rs.columns) :
          Matches(got'[d], getDataOffsets'[d], CellAt(d, cursor)', rs'.columns[d])
    <3>0. 1..Len(rs.columns) \subseteq Cols
      BY BoundsAssumption DEF TypeOK, ResultOK, ResultSets, Cols
    <3>1. TAKE d \in 1..Len(rs.columns)
    <3>2. d \in DOMAIN got /\ d \in DOMAIN getDataOffsets
      BY <3>0 DEF TypeOK, ResultOK, ViewOK
    <3> HIDE DEF o, type
    <3>3. CASE d = c
      <4>1. got'[d] = Received(got[c], type, b, o) /\ getDataOffsets'[d] = o.offset
        BY <2>7, <3>2, <3>3
      <4> QED  BY <2>6, <2>7, <2>8, <3>3, <4>1
    <3>4. CASE d # c
      <4>1. got'[d] = got[d] /\ getDataOffsets'[d] = getDataOffsets[d]
        BY <2>7, <3>2, <3>4
      <4> QED  BY <2>4, <2>7, <2>8, <4>1
    <3> QED  BY <3>3, <3>4
  <2>10. OffsetsMatch'
    BY <2>7, <2>9, Zenon DEF OffsetsMatch, Matches, UnreadMatches, ReadMatches
  <2> QED  BY <2>10
<1> QED  BY <1>1, <1>2, <1>3, <1>4 DEF ResultStep

-----------------------------------------------------------------------------
(* The inductive invariant, and what follows from it *)

\* TypeOK needs CursorInRange: a fetch indexes the rows with the cursor.  Both
\* and OffsetsMatch are needed for what SQLGetData delivers next.
IInv == TypeOK /\ ClosedIsClean /\ CursorInRange /\ OffsetsMatch

LEMMA IInvInit == Init => IInv
<1> SUFFICES ASSUME Init PROVE IInv
  OBVIOUS
<1>1. RowCount = 0 /\ cursor = -1
  BY NoRowsOK DEF Init, RowCount
<1>2. ClosedIsClean /\ CursorInRange
  BY <1>1 DEF Init, ClosedIsClean, CursorInRange
<1>3. OffsetsMatch
  BY <1>1 DEF OffsetsMatch, OnRow
<1> QED  BY <1>2, <1>3, InitOK DEF IInv

LEMMA IInvStep == IInv /\ [Next]_vars => IInv'
<1> SUFFICES ASSUME IInv, [Next]_vars PROVE IInv'
  OBVIOUS
<1>1. TypeOK'
  BY NextTypeOK, StutterOK DEF IInv
<1>2. ResultStep
  <2>1. UNCHANGED vars => Keeps
    BY DEF vars, appVars, Keeps
  <2> QED  BY <2>1, NextResultStep DEF IInv, ResultStep
<1> QED  BY <1>1, <1>2, CursorStep, ClosedStep, OffsetsStep DEF IInv

LEMMA Invariance == Spec => []IInv
  BY IInvInit, IInvStep, PTL DEF Spec

\* Every variable keeps to its values, whatever calls are made in whatever order.
THEOREM TypeCorrect == Spec => []TypeOK
<1>1. IInv => TypeOK
  BY DEF IInv
<1> QED  BY <1>1, Invariance, PTL

\* A statement without a result keeps nothing of an earlier one.
THEOREM ClosedLeavesNothing == Spec => []ClosedIsClean
<1>1. IInv => ClosedIsClean
  BY DEF IInv
<1> QED  BY <1>1, Invariance, PTL

\* The rows are never indexed out of range.
THEOREM CursorStaysInRange == Spec => []CursorInRange
<1>1. IInv => CursorInRange
  BY DEF IInv
<1> QED  BY <1>1, Invariance, PTL

\* The offset of a column is what the application has of it.
THEOREM OffsetsAgree == Spec => []OffsetsMatch
<1>1. IInv => OffsetsMatch
  BY DEF IInv
<1> QED  BY <1>1, Invariance, PTL

\* A value read in chunks is received whole, for every length of value and buffer
\* and any calls in between.
THEOREM ChunksAreWhole == Spec => []ChunksReassemble
<1>1. IInv => ChunksReassemble
  <2> SUFFICES ASSUME IInv, OnRow, NEW c \in 1..Len(rs.columns), NEW t \in Chunked,
                      got[c].types = {t}, ~CellAt(c, cursor).null
               PROVE  LET total == Total(CellAt(c, cursor), rs.columns[c], t)
                      IN  /\ got[c].gapless
                          /\ got[c].bytes <= total
                          /\ got[c].complete <=> got[c].bytes = total
    BY DEF ChunksReassemble
  <2>1. c \in Cols /\ cursor \in Nat /\ cursor < RowCount
    BY BoundsAssumption DEF OnRow, IInv, TypeOK, ResultOK, ResultSets, Cols
  <2>2. got[c].bytes \in Nat
    BY <2>1 DEF IInv, TypeOK, ViewOK, ColumnViews
  <2>3. CellAt(c, cursor) \in Cells /\ rs.columns[c] \in ColumnTypes
    BY <2>1, CellOK DEF IInv, TypeOK, ResultOK, ResultSets
  <2>4. Total(CellAt(c, cursor), rs.columns[c], t) \in Nat
    BY <2>3, TotalType
  <2>5. ReadMatches(c, Total(CellAt(c, cursor), rs.columns[c], t))
    BY DEF IInv, OffsetsMatch
  <2> QED  BY <2>2, <2>4, <2>5 DEF ReadMatches
<1> QED  BY <1>1, Invariance, PTL

-----------------------------------------------------------------------------
(* What one call returns *)

\* Only the conversion of SQLGetData names a column in its answer.
LEMMA OnlyReadsName == ASSUME Next, ret'.col # 0 PROVE Reads
<1>0. \A fn, rc, state : Return(fn, rc, state) \/ ReturnQueried(fn, rc, state) => ret'.col = 0
  BY DEF Return, ReturnQueried, Call, Querying
<1>1. CASE \E text \in Texts \cup {NoText} : ExecDirect(text) \/ Prepare(text)
  BY <1>0, <1>1 DEF ExecDirect, Prepare, ExecuteStatement
<1>2. CASE Execute
  BY <1>0, <1>2 DEF Execute, ExecuteStatement
<1>3. CASE Fetch \/ \E orientation \in {"NEXT", "PRIOR"} : FetchScroll(orientation)
  <2>1. \A fn : FetchNextRow(fn) => ret'.col = 0
    BY <1>0 DEF FetchNextRow, Call
  <2> QED  BY <1>0, <1>3, <2>1 DEF Fetch, FetchScroll
<1>4. CASE \E c \in 0..(MaxCols + 1), t \in ReadTypes, b \in ReadBuffers : GetData(c, t, b)
  BY <1>0, <1>4, GetDataCases DEF Reads
<1>5. CASE \E c \in 0..MaxCols, b \in Bindings : BindCol(c, b)
  BY <1>0, <1>5 DEF BindCol
<1>6. CASE \E n \in 0..MaxParams, isInput \in BOOLEAN, p \in ParamBindings :
              BindParameter(n, isInput, p)
  BY <1>0, <1>6 DEF BindParameter
<1>7. CASE \E option \in {"CLOSE", "UNBIND", "RESET_PARAMS", "OTHER"} : FreeStmt(option)
  BY <1>0, <1>7 DEF FreeStmt
<1>8. CASE CloseCursor \/ \E n \in RowLimits : SetMaxRows(n)
  BY <1>0, <1>8 DEF CloseCursor, SetMaxRows
<1>9. CASE \E attr \in Attributes, given \in BOOLEAN : SetStmtAttr(attr, given)
  BY <1>0, <1>9 DEF SetStmtAttr
<1>10. CASE CatalogQuery \/ CatalogStatic
  BY <1>0, <1>10 DEF CatalogQuery, CatalogStatic
<1>11. CASE ReportsOnly
  BY <1>0, <1>11 DEF ReportsOnly, MoreResults, Describe, GetStmtAttr, Unsupported
<1> QED
  BY <1>1, <1>2, <1>3, <1>4, <1>5, <1>6, <1>7, <1>8, <1>9, <1>10, <1>11 DEF Next, ReportsOnly

\* A chunked read: SQL_NO_DATA exactly after the value was complete, and until
\* then the length reported is that of the rest.
LEMMA ChunkedReadAnswers ==
  ASSUME IInv, Next, NEW c \in Cols, ChunkedRead(c)
  PROVE  /\ ret'.rc = NO_DATA <=> got[c].complete
         /\ ret'.ind # NotSet =>
              ret'.ind = Total(CellAt(c, cursor), rs.columns[c], ret'.cType) - got[c].bytes
<1>1. c # 0 /\ ret'.col = c
  BY DEF ChunkedRead
<1>2. PICK d \in 0..(MaxCols + 1), t \in ReadTypes, b \in ReadBuffers :
        Converts(d, t, b) /\ GetDataStep(d, t, b)
  BY <1>1, OnlyReadsName DEF Reads
<1> DEFINE cell == CellAt(c, cursor)
           type == Resolve(t, rs.columns[c])
           offset == getDataOffsets[c]
           total == Total(cell, rs.columns[c], type)
           o == ConvertCell(offset, cell, rs.columns[c], t, b, TRUE)
           copy == CopyChunked(offset, total, type, b, TRUE)
<1>3. d = c
  BY <1>1, <1>2 DEF GetDataStep, Call
<1>4. /\ cell \in Cells /\ rs.columns[c] \in ColumnTypes
      /\ offset \in Nat \cup {Consumed} /\ offset < SizeMax
  BY <1>2, <1>3, ConversionOK DEF IInv, TypeOK
<1>5. ret'.cType = type /\ ret'.rc = o.rc /\ ret'.ind = o.ind
  <2>1. ret' = Call("SQLGetData", c, type, o.rc, o.ind)
    BY <1>2, <1>3 DEF GetDataStep
  <2> HIDE DEF type, o
  <2> QED  BY <2>1 DEF Call
<1>6. ~cell.null /\ type \in Chunked /\ got[c].types \subseteq {type}
  BY <1>5 DEF ChunkedRead
<1>7. o = copy
  BY <1>6 DEF ConvertCell
<1>8. total \in Nat /\ got[c].bytes \in Nat
  BY <1>4, <1>6, TotalType DEF IInv, TypeOK, ViewOK, ColumnViews
<1>9. Matches(got[c], offset, cell, rs.columns[c])
  BY <1>2, <1>3, OffsetsMatchByColumn DEF IInv, Converts
<1>10. b \in Buffers
  BY <1>2 DEF Converts
<1>11. CASE got[c].complete
  <2>1. offset = Consumed
    BY <1>6, <1>9, <1>11 DEF Matches
  <2>2. copy.rc = NO_DATA /\ copy.ind = NotSet
    <3> HIDE DEF type, total, offset
    <3> QED  BY <1>4, <1>6, <1>8, <1>10, <2>1, CopyDeliversOrKeeps
  <2> HIDE DEF o, copy
  <2> QED  BY <1>5, <1>7, <1>11, <2>2
<1>12. CASE ~got[c].complete
  <2>1. offset = got[c].bytes /\ offset \in Nat /\ offset <= total
    BY <1>6, <1>8, <1>9, <1>12 DEF Matches
  <2>2. copy.rc \in {SUCCESS, WITH_INFO, ERROR} /\ copy.ind = IndFor(b, total - offset)
    <3> HIDE DEF type, total, offset
    <3> QED  BY <1>4, <1>6, <1>8, <1>10, <2>1, ChunkContinues, ZenonT(30)
  <2>3. copy.rc # NO_DATA
    <3> HIDE DEF copy
    <3> QED  BY <2>2 DEF NO_DATA, SUCCESS, WITH_INFO, ERROR
  <2>4. copy.ind # NotSet => copy.ind = total - offset
    <3> HIDE DEF copy, total, offset
    <3> QED  BY <2>2 DEF IndFor
  <2> HIDE DEF o, copy, offset, type
  <2> QED  BY <1>5, <1>7, <1>12, <2>1, <2>3, <2>4
<1> QED  BY <1>11, <1>12

\* The loop over a column's chunks ends with SQL_NO_DATA, neither early nor late.
THEOREM NoDataAfterTheLastChunk == Spec => NoDataIffConsumed
<1>1. IInv /\ [Next]_vars =>
        [\A c \in Cols : ChunkedRead(c) => (ret'.rc = NO_DATA <=> got[c].complete)]_vars
  BY ChunkedReadAnswers
<1> QED  BY <1>1, Invariance, PTL DEF Spec, NoDataIffConsumed

\* Every length reported is what is left to read.
THEOREM LengthsAreOfTheRest == Spec => LengthIsWhatRemains
<1>1. IInv /\ [Next]_vars =>
        [\A c \in Cols : ChunkedRead(c) /\ ret'.ind # NotSet =>
            ret'.ind = Total(CellAt(c, cursor), rs.columns[c], ret'.cType) - got[c].bytes]_vars
  BY ChunkedReadAnswers
<1> QED  BY <1>1, Invariance, PTL DEF Spec, LengthIsWhatRemains

-----------------------------------------------------------------------------
(* What the calls return: codes agree with the diagnostics, failures keep  *)
(* the old result or close it, the row limit bounds what is installed, and *)
(* the statement implements a forward-only cursor.  A step is classified by*)
(* the function it belongs to: one that executes, one that fetches, one    *)
(* that converts a cell, or another, which reports at most one record of   *)
(* its own (Reported).                                                     *)

\* A return code and a state go together: errors are no warnings.
Agrees(rc, state) ==
    /\ rc = ERROR <=> state \notin Warnings \cup {NoState}
    /\ rc = WITH_INFO <=> state \in Warnings

Executes == {"SQLExecDirect", "SQLExecute", "SQLPrepare", "SQLTables"}

\* A call with at most one record of its own, that sent a query or none.
Answered(fn, rc, state) == Return(fn, rc, state) \/ ReturnQueried(fn, rc, state)
Reported(fns) ==
    \E fn \in fns, rc \in ReturnCodes, state \in SqlStates :
        Agrees(rc, state) /\ Answered(fn, rc, state)

\* A call that neither fetches nor replaces a result with the answer to a query.
Others == Functions \ (Executes \cup Fetches)

ExecuteCall ==
    \/ \E text \in Texts \cup {NoText} : ExecDirect(text) \/ Prepare(text)
    \/ Execute
    \/ CatalogQuery

FetchCall == Fetch \/ \E orientation \in {"NEXT", "PRIOR"} : FetchScroll(orientation)

-----------------------------------------------------------------------------
(* The classes of calls *)

LEMMA ReportedBy ==
  ASSUME NEW fn, NEW fns, fn \in fns, NEW rc \in ReturnCodes, NEW state \in SqlStates,
         Agrees(rc, state), Return(fn, rc, state)
  PROVE  Reported(fns)
  BY DEF Reported, Answered

\* The pairs the other calls return.
LEMMA Pairs ==
  /\ ERROR \in ReturnCodes /\ SUCCESS \in ReturnCodes /\ WITH_INFO \in ReturnCodes
  /\ NO_DATA \in ReturnCodes /\ NoState \in SqlStates
  /\ Agrees(SUCCESS, NoState) /\ Agrees(NO_DATA, NoState)
  /\ \A state \in {"07009", "24000", "HYC00", "HY092", "HY010", "HY091", "HY106", "HY009"} :
        state \in SqlStates /\ Agrees(ERROR, state)
  /\ \A state \in {"01004", "01S02"} : state \in SqlStates /\ Agrees(WITH_INFO, state)
  BY DEF Agrees, Warnings, NoState, ERROR, SUCCESS, WITH_INFO, NO_DATA, ReturnCodes,
         SqlStates, ConvertStates

LEMMA OtherCalls ==
  ASSUME Next
  PROVE  ExecuteCall \/ FetchCall \/ Reads \/ (Reported(Others) /\ (Keeps \/ Close \/ Installs))
<1>1. CASE \E c \in 0..(MaxCols + 1), t \in ReadTypes, b \in ReadBuffers : GetData(c, t, b)
  <2>1. PICK c \in 0..(MaxCols + 1), t \in ReadTypes, b \in ReadBuffers : GetData(c, t, b)
    BY <1>1
  <2>2. \/ Converts(c, t, b) /\ GetDataStep(c, t, b)
        \/ Keeps /\ \E state \in {"24000", "07009"} : Return("SQLGetData", ERROR, state)
    BY <2>1, GetDataCases DEF Keeps, GetData, resultVars
  <2>3. "SQLGetData" \in Others
    BY DEF Others, Functions, Executes, Fetches
  <2> QED  BY <2>2, <2>3, Pairs, ReportedBy DEF Reads
<1>2. CASE \E c \in 0..MaxCols, b \in Bindings : BindCol(c, b)
  <2>1. "SQLBindCol" \in Others
    BY DEF Others, Functions, Executes, Fetches
  <2> QED  BY <1>2, <2>1, Pairs, ReportedBy DEF BindCol, Keeps
<1>3. CASE \E n \in 0..MaxParams, isInput \in BOOLEAN, p \in ParamBindings :
              BindParameter(n, isInput, p)
  <2>1. "SQLBindParameter" \in Others
    BY DEF Others, Functions, Executes, Fetches
  <2> QED  BY <1>3, <2>1, Pairs, ReportedBy DEF BindParameter, Keeps, appVars
<1>4. CASE \E option \in {"CLOSE", "UNBIND", "RESET_PARAMS", "OTHER"} : FreeStmt(option)
  <2>1. "SQLFreeStmt" \in Others
    BY DEF Others, Functions, Executes, Fetches
  <2> QED  BY <1>4, <2>1, Pairs, ReportedBy DEF FreeStmt, Keeps
<1>5. CASE CloseCursor
  <2>1. "SQLCloseCursor" \in Others
    BY DEF Others, Functions, Executes, Fetches
  <2> QED  BY <1>5, <2>1, Pairs, ReportedBy DEF CloseCursor, Keeps
<1>6. CASE \/ \E n \in RowLimits : SetMaxRows(n)
           \/ \E attr \in Attributes, given \in BOOLEAN : SetStmtAttr(attr, given)
  <2>1. "SQLSetStmtAttr" \in Others
    BY DEF Others, Functions, Executes, Fetches
  <2> QED  BY <1>6, <2>1, Pairs, ReportedBy DEF SetMaxRows, SetStmtAttr, Keeps, appVars
<1>7. CASE CatalogStatic
  <2>1. "SQLGetTypeInfo" \in Others
    BY DEF Others, Functions, Executes, Fetches
  <2> QED  BY <1>7, <2>1, Pairs, ReportedBy, ResultsAssumption DEF CatalogStatic, Installs
<1>8. CASE ReportsOnly
  <2>1. {"SQLMoreResults", "SQLDescribeCol", "SQLColAttribute", "SQLGetStmtAttr", "SQLSetPos"}
           \subseteq Others
    BY DEF Others, Functions, Executes, Fetches
  <2>2. Keeps
    BY <1>8 DEF ReportsOnly, MoreResults, Describe, GetStmtAttr, Unsupported, Keeps, appVars
  <2>3. CASE MoreResults \/ GetStmtAttr \/ Unsupported
    BY <2>1, <2>2, <2>3, Pairs, ReportedBy DEF MoreResults, GetStmtAttr, Unsupported
  <2>4. CASE \E c \in 0..(MaxCols + 1) : Describe(c)
    BY <2>1, <2>2, <2>4, Pairs, ReportedBy DEF Describe
  <2> QED  BY <1>8, <2>3, <2>4 DEF ReportsOnly
<1> QED
  BY <1>1, <1>2, <1>3, <1>4, <1>5, <1>6, <1>7, <1>8
  DEF Next, ExecuteCall, FetchCall, ReportsOnly

\* What an executing call returns, and what it does to the result: refused with
\* the old one kept, failed at the broker and closed, prepared and closed, or
\* answered.
Refused(fn, rc, state) == Keeps /\ rc = ERROR /\ Return(fn, rc, state)
FailedAtBroker(fn, rc, state) == Close /\ rc = ERROR /\ ReturnQueried(fn, rc, state)
Prepared(fn, rc, state) ==
    Close /\ rc = SUCCESS /\ fn = "SQLPrepare" /\ Return(fn, rc, state)
CatalogBuilt(fn, rc, state) ==
    Installs /\ rc = SUCCESS /\ fn = "SQLTables" /\ Return(fn, rc, state)
QueryAnswered(fn, rc, state) ==
    /\ fn \in {"SQLExecDirect", "SQLExecute"} /\ rc = SUCCESS
    /\ ReturnQueried(fn, rc, state)
    /\ \E r \in QueryResults : Install(Trim(r))

ExecuteOutcome ==
    \E fn \in Executes, rc \in ReturnCodes, state \in SqlStates :
        /\ Agrees(rc, state)
        /\ \/ Refused(fn, rc, state) \/ FailedAtBroker(fn, rc, state)
           \/ Prepared(fn, rc, state) \/ CatalogBuilt(fn, rc, state)
           \/ QueryAnswered(fn, rc, state)

LEMMA OutcomeAnswered ==
  ASSUME NEW fn, NEW rc, NEW state,
         \/ Refused(fn, rc, state) \/ FailedAtBroker(fn, rc, state)
         \/ Prepared(fn, rc, state) \/ CatalogBuilt(fn, rc, state)
         \/ QueryAnswered(fn, rc, state)
  PROVE  Answered(fn, rc, state)
  BY DEF Refused, FailedAtBroker, Prepared, CatalogBuilt, QueryAnswered, Answered

\* The function and return code a call leaves.
LEMMA AnsweredCall ==
  ASSUME NEW fn, NEW rc, NEW state, Answered(fn, rc, state)
  PROVE  ret'.fn = fn /\ ret'.rc = rc
  BY DEF Answered, Return, ReturnQueried, Call, Querying

\* The errors an execution may report.
LEMMA ErrorPairs ==
  /\ \A state \in {"HY009", "HY010", "07002", "HYC00", "07006", "HY090", "HY000"} :
        state \in SqlStates /\ Agrees(ERROR, state)
  /\ \A state \in QueryErrors \cup CatalogErrors : state \in SqlStates /\ Agrees(ERROR, state)
  BY DEF Agrees, Warnings, NoState, ERROR, WITH_INFO, SqlStates, ConvertStates, QueryErrors,
         CatalogErrors

LEMMA ExecuteStatementOutcome ==
  ASSUME NEW fn \in {"SQLExecDirect", "SQLExecute"}, NEW text, ExecuteStatement(fn, text)
  PROVE  ExecuteOutcome
<1>0. fn \in Executes
  BY DEF Executes
<1>1. PICK mem \in [Indicated(text) -> Indicators] : ExecuteStatement(fn, text)!(mem)
  BY DEF ExecuteStatement
<1>2. CASE \E n \in 1..text :
              /\ Substitution(n, mem) # NoState
              /\ Return(fn, ERROR, Substitution(n, mem))
              /\ UNCHANGED <<resultVars, got, filled>>
  <2>1. PICK n \in 1..text : /\ Substitution(n, mem) # NoState
                             /\ Return(fn, ERROR, Substitution(n, mem))
                             /\ UNCHANGED <<resultVars, got, filled>>
    BY <1>2
  <2> DEFINE state == Substitution(n, mem)
  <2>2. state \in {"07002", "HYC00", "07006", "HY090", "HY000"}
    BY <2>1, SubstitutionStates
  <2>3. state \in SqlStates /\ Agrees(ERROR, state)
    BY <2>2, ErrorPairs
  <2>4. Refused(fn, ERROR, state)
    BY <2>1, <2>3 DEF Refused, Keeps
  <2> HIDE DEF state
  <2> QED  BY <1>0, <2>3, <2>4, Pairs DEF ExecuteOutcome
<1>3. CASE \E state \in QueryErrors : Close /\ ReturnQueried(fn, ERROR, state)
  <2>1. PICK state \in QueryErrors : Close /\ ReturnQueried(fn, ERROR, state)
    BY <1>3
  <2>2. FailedAtBroker(fn, ERROR, state) /\ state \in SqlStates /\ Agrees(ERROR, state)
    BY <1>0, <2>1, ErrorPairs DEF FailedAtBroker
  <2> QED  BY <1>0, <2>1, <2>2, Pairs DEF ExecuteOutcome
<1>4. CASE \E r \in QueryResults : Install(Trim(r)) /\ ReturnQueried(fn, SUCCESS, NoState)
  <2>1. QueryAnswered(fn, SUCCESS, NoState)
    BY <1>4 DEF QueryAnswered
  <2> QED  BY <1>0, <2>1, Pairs DEF ExecuteOutcome
<1> QED  BY <1>1, <1>2, <1>3, <1>4

LEMMA ExecuteCallOutcome == ASSUME ExecuteCall PROVE ExecuteOutcome
<1>0. {"SQLExecDirect", "SQLExecute", "SQLPrepare", "SQLTables"} = Executes
  BY DEF Executes
<1>1. CASE \E text \in Texts \cup {NoText} : ExecDirect(text)
  <2>1. PICK text \in Texts \cup {NoText} : ExecDirect(text)
    BY <1>1
  <2>2. CASE text # NoText
    BY <2>1, <2>2, ExecuteStatementOutcome DEF ExecDirect
  <2>3. CASE text = NoText
    <3>1. Refused("SQLExecDirect", ERROR, "HY009")
      BY <2>1, <2>3, ErrorPairs DEF ExecDirect, Refused, Keeps
    <3> QED  BY <1>0, <3>1, Pairs, ErrorPairs DEF ExecuteOutcome
  <2> QED  BY <2>2, <2>3
<1>2. CASE \E text \in Texts \cup {NoText} : Prepare(text)
  <2>1. PICK text \in Texts \cup {NoText} : Prepare(text)
    BY <1>2
  <2>2. CASE text # NoText
    <3>1. Prepared("SQLPrepare", SUCCESS, NoState)
      BY <2>1, <2>2 DEF Prepare, Prepared
    <3> QED  BY <1>0, <3>1, Pairs DEF ExecuteOutcome
  <2>3. CASE text = NoText
    <3>1. Refused("SQLPrepare", ERROR, "HY009")
      BY <2>1, <2>3, ErrorPairs DEF Prepare, Refused, Keeps
    <3> QED  BY <1>0, <3>1, Pairs, ErrorPairs DEF ExecuteOutcome
  <2> QED  BY <2>2, <2>3
<1>3. CASE Execute
  <2>1. CASE ~prepared \/ sql = NoText
    <3>1. Refused("SQLExecute", ERROR, "HY010")
      BY <1>3, <2>1, ErrorPairs DEF Execute, Refused, Keeps
    <3> QED  BY <1>0, <3>1, Pairs, ErrorPairs DEF ExecuteOutcome
  <2>2. CASE ~(~prepared \/ sql = NoText)
    BY <1>3, <2>2, ExecuteStatementOutcome DEF Execute
  <2> QED  BY <2>1, <2>2
<1>4. CASE CatalogQuery
  <2>1. CASE \E r \in CatalogResults : Install(r) /\ Return("SQLTables", SUCCESS, NoState)
    <3>1. CatalogBuilt("SQLTables", SUCCESS, NoState)
      BY <2>1, ResultsAssumption DEF CatalogBuilt, Installs
    <3> QED  BY <1>0, <2>1, <3>1, Pairs DEF ExecuteOutcome
  <2>2. CASE \E state \in CatalogErrors : /\ Return("SQLTables", ERROR, state)
                                         /\ UNCHANGED <<resultVars, got, filled>>
    <3>1. PICK state \in CatalogErrors : /\ Return("SQLTables", ERROR, state)
                                         /\ UNCHANGED <<resultVars, got, filled>>
      BY <2>2
    <3>2. Refused("SQLTables", ERROR, state)
      BY <3>1 DEF Refused, Keeps
    <3> QED  BY <1>0, <3>1, <3>2, Pairs, ErrorPairs DEF ExecuteOutcome
  <2> QED  BY <1>4, <2>1, <2>2 DEF CatalogQuery
<1> QED  BY <1>1, <1>2, <1>3, <1>4 DEF ExecuteCall

\* The ways in which a fetch ends: refused, past the last row, or on a row.
FetchRefused ==
    /\ Keeps /\ (~hasResult \/ diag' = {Record(0, "HY106")})
    /\ \E fn \in Fetches, state \in {"24000", "HY106"} : Return(fn, ERROR, state)

FetchEnded == MovesToEnd /\ \E fn \in Fetches : Return(fn, NO_DATA, NoState)

FetchMoved ==
    /\ MovesToRow
    /\ \E fn \in Fetches : ret' = Call(fn, 0, "none", RowOutcome(cursor + 1), NotSet)
    /\ diag' = UNION {Records(c, BoundOutcome(c, cursor + 1).state) : c \in DOMAIN bindings}
    /\ filled' = {c \in DOMAIN bindings : BoundOutcome(c, cursor + 1).rc # ERROR}
    /\ UNCHANGED bindings

LEMMA FetchCallOutcome ==
  ASSUME FetchCall
  PROVE  FetchRefused \/ FetchEnded \/ FetchMoved
<1>1. ASSUME NEW fn \in Fetches, FetchNextRow(fn), UNCHANGED inputVars
      PROVE  FetchRefused \/ FetchEnded \/ FetchMoved
  <2>1. CASE ~hasResult
    BY <1>1, <2>1 DEF FetchNextRow, FetchRefused, Keeps, appVars
  <2>2. CASE hasResult /\ AtEnd
    BY <1>1, <2>2 DEF FetchNextRow, FetchEnded, MovesToEnd
  <2>3. CASE hasResult /\ ~AtEnd
    BY <1>1, <2>3 DEF FetchNextRow, FetchMoved, MovesToRow, ClearOffsets, inputVars
  <2> QED  BY <2>1, <2>2, <2>3
<1>2. CASE Fetch
  BY <1>1, <1>2 DEF Fetch, Fetches
<1>3. CASE \E orientation \in {"NEXT", "PRIOR"} : FetchScroll(orientation)
  <2>1. CASE FetchScroll("NEXT")
    BY <1>1, <2>1 DEF FetchScroll, Fetches
  <2>2. CASE FetchScroll("PRIOR")
    <3>1. Return("SQLFetchScroll", ERROR, "HY106") /\ Keeps
      BY <2>2 DEF FetchScroll, Keeps, appVars
    <3>2. diag' = {Record(0, "HY106")}
      BY <3>1 DEF Return, Records, NoState
    <3> QED  BY <3>1, <3>2 DEF FetchRefused, Fetches
  <2> QED  BY <1>3, <2>1, <2>2
<1> QED  BY <1>2, <1>3 DEF FetchCall

-----------------------------------------------------------------------------
(* Return codes and diagnostics *)

\* Whatever the cell, the type and the buffer, a conversion returns an error
\* exactly with an error's state, and a warning with a warning's.
LEMMA ConversionsAgree ==
  ASSUME NEW offset, NEW cell, NEW colType, NEW cType, NEW buf, NEW isGetData \in BOOLEAN
  PROVE  LET o == ConvertCell(offset, cell, colType, cType, buf, isGetData)
         IN  Agrees(o.rc, o.state)
<1> DEFINE Good(o) == Agrees(o.rc, o.state)
<1>1. \A rc, state, ind, n : Agrees(rc, state) => Good(Plain(rc, state, ind, n))
  BY DEF Plain, Outcome
<1>2. \A rc, state, ind, from, count, written, n :
          Agrees(rc, state) => Good(Outcome(rc, state, ind, from, count, written, n))
  BY DEF Outcome
<1>3. /\ Agrees(SUCCESS, NoState) /\ Agrees(NO_DATA, NoState)
      /\ Agrees(WITH_INFO, "01004") /\ Agrees(WITH_INFO, "01S07")
      /\ Agrees(ERROR, "HY090") /\ Agrees(ERROR, "22002") /\ Agrees(ERROR, "22018")
      /\ Agrees(ERROR, "22003") /\ Agrees(ERROR, "07006")
  BY DEF Agrees, Warnings, NoState, ERROR, SUCCESS, WITH_INFO, NO_DATA
<1> HIDE DEF Good
<1>4. Good(ConvertNull(offset, buf, isGetData))
  BY <1>1, <1>3 DEF ConvertNull
<1>5. \A total, t : Good(CopyChunked(offset, total, t, buf, isGetData))
  BY <1>1, <1>2, <1>3 DEF CopyChunked
<1>6. Good(ConvertFixed(offset, cell, buf))
  BY <1>1, <1>2, <1>3 DEF ConvertFixed
<1>7. Good(ConvertCell(offset, cell, colType, cType, buf, isGetData))
  BY <1>1, <1>3, <1>4, <1>5, <1>6 DEF ConvertCell
<1> QED  BY <1>7 DEF Good

LEMMA BoundOutcomesAgree ==
  ASSUME NEW c, NEW pos
  PROVE  Agrees(BoundOutcome(c, pos).rc, BoundOutcome(c, pos).state)
<1>1. Agrees(ERROR, "07009")
  BY Pairs
<1> QED  BY <1>1, ConversionsAgree DEF BoundOutcome, Plain, Outcome

\* A call with at most one record.
LEMMA OneRecordMatches ==
  ASSUME NEW col, NEW rc, NEW state, Agrees(rc, state), ret'.rc = rc,
         diag' = Records(col, state)
  PROVE  DiagMatchesReturn'
<1>1. CASE state = NoState
  <2>1. diag' = {}
    BY <1>1 DEF Records
  <2>2. rc # ERROR /\ rc # WITH_INFO
    BY <1>1 DEF Agrees, Warnings, NoState
  <2> QED  BY <2>1, <2>2 DEF DiagMatchesReturn
<1>2. CASE state # NoState
  <2>1. {r.state : r \in diag'} = {state}
    BY <1>2 DEF Records, Record
  <2> HIDE DEF Agrees
  <2>2. rc = ERROR <=> state \notin Warnings
    BY <1>2 DEF Agrees
  <2>3. rc = WITH_INFO <=> state \in Warnings
    BY DEF Agrees
  <2> QED  BY <2>1, <2>2, <2>3 DEF DiagMatchesReturn
<1> QED  BY <1>1, <1>2

\* A fetch of several bound columns: the worst of what their conversions return
\* goes with the union of what they report.
LEMMA FetchMatches == ASSUME FetchMoved PROVE DiagMatchesReturn'
<1> DEFINE st(c) == BoundOutcome(c, cursor + 1).state
           rc(c) == BoundOutcome(c, cursor + 1).rc
           D == DOMAIN bindings
           states == {r.state : r \in diag'}
<1>1. \A c \in D : Agrees(rc(c), st(c))
  BY BoundOutcomesAgree
<1>2. ret'.rc = RowOutcome(cursor + 1)
  BY DEF FetchMoved, Call
<1>3. RowOutcome(cursor + 1) = IF \E c \in D : rc(c) = ERROR THEN ERROR
                               ELSE IF \E c \in D : rc(c) = WITH_INFO THEN WITH_INFO ELSE SUCCESS
  BY DEF RowOutcome
<1>4. diag' = UNION {Records(c, st(c)) : c \in D}
  BY DEF FetchMoved
<1> HIDE DEF st, rc, D
<1>5. \A state : state \in states <=> \E c \in D : st(c) = state /\ state # NoState
  <2>1. ASSUME NEW r \in diag'
        PROVE  \E c \in D : st(c) = r.state /\ r.state # NoState
    <3>1. PICK c \in D : r \in Records(c, st(c))
      BY <1>4
    <3> QED  BY <3>1 DEF Records, Record
  <2>2. ASSUME NEW c \in D, st(c) # NoState
        PROVE  \E r \in diag' : r.state = st(c)
    <3>1. Record(c, st(c)) \in diag'
      BY <1>4, <2>2 DEF Records
    <3> QED  BY <3>1 DEF Record
  <2> QED  BY <2>1, <2>2
<1> HIDE DEF states
<1>6. (\E c \in D : rc(c) = ERROR) <=> \E state \in states : state \notin Warnings
  BY <1>1, <1>5 DEF Agrees
<1>7. (\E c \in D : rc(c) = WITH_INFO) <=> \E state \in states : state \in Warnings
  <2>1. NoState \notin Warnings
    BY DEF NoState, Warnings
  <2> QED  BY <1>1, <1>5, <2>1 DEF Agrees
<1>8. /\ ret'.rc = ERROR <=> \E state \in states : state \notin Warnings
      /\ ret'.rc = WITH_INFO <=> states # {} /\ states \subseteq Warnings
  BY <1>2, <1>3, <1>6, <1>7 DEF ERROR, WITH_INFO, SUCCESS
<1> QED  BY <1>8 DEF DiagMatchesReturn, states

LEMMA ReportedMatches == ASSUME NEW fns, Reported(fns) PROVE DiagMatchesReturn'
<1>1. PICK fn \in fns, rc \in ReturnCodes, state \in SqlStates :
          Agrees(rc, state) /\ Answered(fn, rc, state)
  BY DEF Reported
<1> QED  BY <1>1, OneRecordMatches DEF Answered, Return, ReturnQueried, Call, Querying

LEMMA MatchStep == ASSUME Next PROVE DiagMatchesReturn'
<1>1. CASE ExecuteCall
  <2>1. Reported(Executes)
    BY <1>1, ExecuteCallOutcome, OutcomeAnswered DEF ExecuteOutcome, Reported
  <2> QED  BY <2>1, ReportedMatches
<1>2. CASE FetchCall
  <2>1. FetchRefused => Reported(Fetches)
    BY Pairs DEF FetchRefused, Reported, Answered
  <2>2. FetchEnded => Reported(Fetches)
    BY Pairs DEF FetchEnded, Reported, Answered
  <2> QED  BY <1>2, <2>1, <2>2, FetchCallOutcome, FetchMatches, ReportedMatches
<1>3. CASE Reads
  <2>1. PICK c \in 0..(MaxCols + 1), t \in ReadTypes, b \in ReadBuffers : GetDataStep(c, t, b)
    BY <1>3 DEF Reads
  <2> DEFINE o == ConvertCell(getDataOffsets[c], CellAt(c, cursor), rs.columns[c], t, b, TRUE)
  <2>2. Agrees(o.rc, o.state)
    BY ConversionsAgree
  <2>3. diag' = Records(0, o.state)
        /\ ret' = Call("SQLGetData", c, Resolve(t, rs.columns[c]), o.rc, o.ind)
    BY <2>1 DEF GetDataStep
  <2> HIDE DEF o
  <2>4. ret'.rc = o.rc
    BY <2>3 DEF Call
  <2> QED  BY <2>2, <2>3, <2>4, OneRecordMatches
<1>4. CASE Reported(Others)
  BY <1>4, ReportedMatches
<1> QED  BY <1>1, <1>2, <1>3, <1>4, OtherCalls

\* The return code of every call is the worst of the records it leaves, also of
\* a fetch that converts any number of bound columns.
THEOREM ReturnsAgree == Spec => []DiagMatchesReturn
<1>1. Init => DiagMatchesReturn
  BY DEF Init, DiagMatchesReturn, Call, SUCCESS, ERROR, WITH_INFO
<1>2. DiagMatchesReturn /\ [Next]_vars => DiagMatchesReturn'
  BY MatchStep DEF vars, DiagMatchesReturn
<1> QED  BY <1>1, <1>2, PTL DEF Spec

-----------------------------------------------------------------------------
(* Fetches, failures and the row limit *)

\* The function of the last call, for each class.
LEMMA ReportedFunction == ASSUME NEW fns, Reported(fns) PROVE ret'.fn \in fns
  BY AnsweredCall DEF Reported

LEMMA ReadFunction == ASSUME Reads PROVE ret'.fn = "SQLGetData"
  BY DEF Reads, GetDataStep, Call

LEMMA FetchFunction ==
  ASSUME FetchRefused \/ FetchEnded \/ FetchMoved
  PROVE  ret'.fn \in Fetches
  BY DEF FetchRefused, FetchEnded, FetchMoved, Return, Call

LEMMA Apart ==
  /\ Executes \cap Fetches = {} /\ Others \cap Fetches = {} /\ Others \cap Executes = {}
  /\ "SQLGetData" \notin Fetches /\ "SQLGetData" \notin Executes
  BY DEF Executes, Fetches, Others

\* Which class a call belongs to is seen from the function it names.
LEMMA ByFunction ==
  ASSUME Next
  PROVE  /\ ret'.fn \in Fetches => FetchRefused \/ FetchEnded \/ FetchMoved
         /\ ret'.fn \in Executes => ExecuteOutcome
         /\ ret'.fn \notin Fetches => Keeps \/ Close \/ Installs \/ Reads \/ ExecuteOutcome
<1>1. ExecuteOutcome => ret'.fn \in Executes
  BY OutcomeAnswered, AnsweredCall DEF ExecuteOutcome
<1>2. Reads => ret'.fn = "SQLGetData"
  BY ReadFunction
<1>3. Reported(Others) => ret'.fn \in Others
  BY ReportedFunction
<1>4. FetchCall => (FetchRefused \/ FetchEnded \/ FetchMoved) /\ ret'.fn \in Fetches
  BY FetchCallOutcome, FetchFunction
<1>5. ExecuteCall => ExecuteOutcome
  BY ExecuteCallOutcome
<1> QED  BY <1>1, <1>2, <1>3, <1>4, <1>5, OtherCalls, Apart

LEMMA MovedConvertsAll ==
  ASSUME TypeOK, FetchMoved
  PROVE  /\ DOMAIN bindings' \ filled' = {r.col : r \in {d \in diag' : d.state \notin Warnings}}
         /\ filled' \subseteq 1..Len(rs'.columns)
<1> DEFINE st(c) == BoundOutcome(c, cursor + 1).state
           rc(c) == BoundOutcome(c, cursor + 1).rc
           D == DOMAIN bindings
<1>1. \A c \in D : rc(c) = ERROR <=> st(c) # NoState /\ st(c) \notin Warnings
  <2>1. \A c \in D : Agrees(rc(c), st(c))
    BY BoundOutcomesAgree
  <2> HIDE DEF st, rc, D
  <2> QED  BY <2>1 DEF Agrees
<1>2. /\ diag' = UNION {Records(c, st(c)) : c \in D}
      /\ filled' = {c \in D : rc(c) # ERROR} /\ DOMAIN bindings' = D
      /\ rs' = rs
  BY DEF FetchMoved, MovesToRow
<1>3. \A c \in D : c > Len(rs.columns) => rc(c) = ERROR
  BY DEF BoundOutcome, Plain, Outcome
<1>4. D \subseteq Nat \ {0} /\ Len(rs.columns) \in Nat
  BY BoundsAssumption DEF TypeOK, InputsOK, ResultOK, ResultSets, Cols
<1> HIDE DEF st, rc, D
<1>5. filled' \subseteq 1..Len(rs'.columns)
  BY <1>2, <1>3, <1>4
<1>6. ASSUME NEW c \in D, rc(c) = ERROR
      PROVE  c \in {r.col : r \in {d \in diag' : d.state \notin Warnings}}
  <2>1. Record(c, st(c)) \in diag'
    BY <1>1, <1>2, <1>6 DEF Records
  <2>2. Record(c, st(c)).col = c /\ Record(c, st(c)).state = st(c)
    BY DEF Record
  <2> QED  BY <1>1, <1>6, <2>1, <2>2
<1>7. ASSUME NEW d \in diag', d.state \notin Warnings
      PROVE  d.col \in D /\ rc(d.col) = ERROR
  <2>1. PICK c \in D : d \in Records(c, st(c))
    BY <1>2
  <2>2. st(c) # NoState /\ d.col = c /\ d.state = st(c)
    BY <2>1 DEF Records, Record
  <2> QED  BY <1>1, <1>7, <2>2
<1>8. DOMAIN bindings' \ filled' = {r.col : r \in {d \in diag' : d.state \notin Warnings}}
  BY <1>2, <1>6, <1>7
<1> QED  BY <1>5, <1>8

LEMMA ConvertsStep == ASSUME IInv, Next PROVE FetchConvertsEveryBinding'
<1>1. CASE FetchMoved
  BY <1>1, MovedConvertsAll DEF IInv, FetchConvertsEveryBinding
<1>2. CASE FetchEnded
  <2>1. ~OnRow'
    BY <1>2 DEF FetchEnded, MovesToEnd, OnRow, RowCount, IInv, TypeOK, ResultOK, ResultSets
  <2> QED  BY <2>1 DEF FetchConvertsEveryBinding
<1>3. CASE FetchRefused
  <2>1. ~OnRow' \/ Record(0, "HY106") \in diag'
    BY <1>3 DEF FetchRefused, Keeps, resultVars, OnRow
  <2> QED  BY <2>1 DEF FetchConvertsEveryBinding
<1>4. CASE ret'.fn \notin Fetches
  BY <1>4 DEF FetchConvertsEveryBinding
<1> QED  BY <1>1, <1>2, <1>3, <1>4, ByFunction

\* A fetch that moves to a row delivers every bound column or reports it, for
\* any number of columns bound, whatever the others come to.
THEOREM EveryBindingIsConverted == Spec => []FetchConvertsEveryBinding
<1>1. Init => FetchConvertsEveryBinding
  BY DEF Init, FetchConvertsEveryBinding, OnRow
<1>2. FetchConvertsEveryBinding /\ IInv /\ [Next]_vars => FetchConvertsEveryBinding'
  <2>1. ASSUME FetchConvertsEveryBinding, UNCHANGED vars PROVE FetchConvertsEveryBinding'
    BY <2>1 DEF vars, resultVars, inputVars, appVars, FetchConvertsEveryBinding, OnRow, RowCount
  <2> QED  BY <2>1, ConvertsStep
<1> QED  BY <1>1, <1>2, Invariance, PTL DEF Spec

\* A call that fails without a query keeps the old result, whatever it reports,
\* and one whose query failed has closed it.
THEOREM FailuresKeepOrClose == Spec => FailureKeepsOrCloses
<1>1. ASSUME Next, ret'.rc = ERROR,
             ret'.fn \in {"SQLExecDirect", "SQLExecute", "SQLPrepare", "SQLTables"}
      PROVE  IF ret'.queried THEN ~hasResult' ELSE UNCHANGED <<resultVars, got>>
  <2>1. ExecuteOutcome
    BY <1>1, ByFunction DEF Executes
  <2>2. PICK fn \in Executes, rc \in ReturnCodes, state \in SqlStates :
            \/ Refused(fn, rc, state) \/ FailedAtBroker(fn, rc, state)
            \/ Prepared(fn, rc, state) \/ CatalogBuilt(fn, rc, state)
            \/ QueryAnswered(fn, rc, state)
    BY <2>1 DEF ExecuteOutcome
  <2>3. rc # SUCCESS
    BY <1>1, <2>2, OutcomeAnswered, AnsweredCall DEF ERROR, SUCCESS
  <2>4. CASE Refused(fn, rc, state)
    <3>1. ~ret'.queried
      BY <2>4 DEF Refused, Return, Call
    <3> QED  BY <2>4, <3>1 DEF Refused, Keeps
  <2>5. CASE FailedAtBroker(fn, rc, state)
    <3>1. ret'.queried
      BY <2>5 DEF FailedAtBroker, ReturnQueried, Querying
    <3> QED  BY <2>5, <3>1 DEF FailedAtBroker, Close
  <2> QED  BY <2>2, <2>3, <2>4, <2>5 DEF Prepared, CatalogBuilt, QueryAnswered
<1> QED  BY <1>1, PTL DEF Spec, FailureKeepsOrCloses

\* For any row limit the rows of an answer are cut to it, and no further.
THEOREM RowLimitIsHonoured == Spec => RowLimitHonoured
<1>1. ASSUME IInv, Next, ret'.rc = SUCCESS, ret'.fn \in {"SQLExecDirect", "SQLExecute"}
      PROVE  \E r \in QueryResults :
                /\ rs'.columns = r.columns
                /\ Len(rs'.rows) = IF maxRows = 0 THEN Len(r.rows)
                                  ELSE Lesser(maxRows, Len(r.rows))
  <2>1. ExecuteOutcome
    BY <1>1, ByFunction DEF Executes
  <2>2. PICK fn \in Executes, rc \in ReturnCodes, state \in SqlStates :
            \/ Refused(fn, rc, state) \/ FailedAtBroker(fn, rc, state)
            \/ Prepared(fn, rc, state) \/ CatalogBuilt(fn, rc, state)
            \/ QueryAnswered(fn, rc, state)
    BY <2>1 DEF ExecuteOutcome
  <2>3. ret'.fn = fn /\ ret'.rc = rc
    BY <2>2, OutcomeAnswered, AnsweredCall
  <2>4. QueryAnswered(fn, rc, state)
    BY <1>1, <2>2, <2>3 DEF Refused, FailedAtBroker, Prepared, CatalogBuilt, ERROR, SUCCESS
  <2>5. PICK r \in QueryResults : rs' = Trim(r)
    BY <2>4 DEF QueryAnswered, Install
  <2>6. r \in ResultSets /\ Len(r.columns) <= MaxCols /\ maxRows \in Nat
    <3>1. r \in QueryResults \cup CatalogResults
      BY <2>5
    <3>2. maxRows \in Nat
      BY <1>1 DEF IInv, TypeOK, InputsOK
    <3> QED  BY <3>1, <3>2, ResultsAssumption
  <2>7. /\ Trim(r).columns = r.columns
        /\ Len(Trim(r).rows) = IF maxRows = 0 THEN Len(r.rows) ELSE Lesser(maxRows, Len(r.rows))
    BY <2>6, TrimOK
  <2> QED  BY <2>5, <2>7
<1> QED  BY <1>1, Invariance, PTL DEF Spec, RowLimitHonoured

-----------------------------------------------------------------------------
(* The refinement of Cursor *)

\* What the mapping reads.
LEMMA CursorTypes ==
  ASSUME TypeOK
  PROVE  RowCount \in Nat /\ cursor \in Int
  BY DEF TypeOK, ResultOK, ResultSets, RowCount

LEMMA ClosedRows == ASSUME Close PROVE RowCount' = 0 /\ cursor' = -1 /\ hasResult' = FALSE
  BY NoRowsOK DEF Close, RowCount

LEMMA InstalledRows ==
  ASSUME Installs
  PROVE  RowCount' \in Nat /\ cursor' = -1 /\ hasResult' = TRUE
  BY DEF Installs, Install, RowCount, ResultSets

LEMMA KeptRows ==
  ASSUME Keeps \/ Reads
  PROVE  RowCount' = RowCount /\ cursor' = cursor /\ hasResult' = hasResult
  BY DEF Keeps, Reads, GetDataStep, resultVars, RowCount

\* Every call that does not fetch opens a result, closes one or leaves it alone.
LEMMA NotFetching ==
  ASSUME IInv, Next, ret'.fn \notin Fetches
  PROVE  ForwardOnly!Next
<1>1. Told' = "nothing"
  BY DEF Told
<1>2. RowCount \in Nat /\ cursor \in Int
  BY CursorTypes DEF IInv
<1>3. CASE Keeps \/ Reads
  BY <1>1, <1>3, KeptRows DEF ForwardOnly!Next, ForwardOnly!Other
<1>4. CASE Close
  BY <1>1, <1>4, ClosedRows DEF ForwardOnly!Next, ForwardOnly!Close, Lesser
<1>5. CASE Installs
  BY <1>1, <1>5, InstalledRows DEF ForwardOnly!Next, ForwardOnly!Open, Lesser
<1>6. CASE ExecuteOutcome
  <2>1. \A r \in QueryResults : Install(Trim(r)) => Installs
    BY TrimOK, ResultsAssumption DEF IInv, TypeOK, InputsOK, Installs
  <2>2. Keeps \/ Close \/ Installs
    BY <1>6, <2>1 DEF ExecuteOutcome, Refused, FailedAtBroker, Prepared, CatalogBuilt, QueryAnswered
  <2> QED  BY <1>3, <1>4, <1>5, <2>2
<1> QED  BY <1>3, <1>4, <1>5, <1>6, ByFunction

\* Every fetch announces the next row, the end or nothing.
LEMMA Fetching ==
  ASSUME IInv, Next, ret'.fn \in Fetches
  PROVE  ForwardOnly!Next
<1>1. RowCount \in Nat /\ cursor \in Int /\ cursor >= -1 /\ cursor <= RowCount
  BY CursorTypes DEF IInv, CursorInRange
<1>2. CASE FetchRefused
  <2>1. PICK fn \in Fetches, state \in {"24000", "HY106"} : Return(fn, ERROR, state)
    BY <1>2 DEF FetchRefused
  <2>2. ret'.rc # NO_DATA /\ diag' = {Record(0, state)}
    BY <2>1 DEF Return, Call, Records, NoState, ERROR, NO_DATA
  <2>3. Told' = "nothing"
    BY <2>2 DEF Told, Record
  <2>4. Keeps
    BY <1>2 DEF FetchRefused
  <2> QED  BY <2>3, <2>4, KeptRows DEF ForwardOnly!Next, ForwardOnly!Other
<1>3. CASE FetchEnded
  <2>1. ret'.fn \in Fetches /\ ret'.rc = NO_DATA
    BY <1>3 DEF FetchEnded, Return, Call
  <2>2. Told' = "end"
    BY <2>1 DEF Told
  <2>3. /\ hasResult /\ cursor + 1 >= RowCount /\ cursor' = RowCount
        /\ hasResult' = hasResult /\ RowCount' = RowCount
    BY <1>3 DEF FetchEnded, MovesToEnd, AtEnd, RowCount
  <2> QED  BY <1>1, <2>2, <2>3 DEF ForwardOnly!Next, ForwardOnly!Exhaust, Lesser
<1>4. CASE FetchMoved
  <2>1. /\ hasResult /\ cursor + 1 < RowCount /\ cursor' = cursor + 1
        /\ hasResult' = hasResult /\ RowCount' = RowCount
    BY <1>1, <1>4 DEF FetchMoved, MovesToRow, AtEnd, RowCount
  <2>2. ret'.rc # NO_DATA
    <3>1. ret'.rc = RowOutcome(cursor + 1)
      BY <1>4 DEF FetchMoved, Call
    <3> QED  BY <3>1 DEF RowOutcome, ERROR, WITH_INFO, SUCCESS, NO_DATA
  <2>3. \A r \in diag' : r.col # 0
    <3>1. ASSUME NEW r \in diag'
          PROVE  r.col # 0
      <4>1. PICK c \in DOMAIN bindings : r \in Records(c, BoundOutcome(c, cursor + 1).state)
        BY <1>4 DEF FetchMoved
      <4>2. c # 0
        BY BoundsAssumption DEF IInv, TypeOK, InputsOK, Cols
      <4> QED  BY <4>1, <4>2 DEF Records, Record
    <3> QED  BY <3>1
  <2>4. Told' = "row"
    BY <2>2, <2>3 DEF Told
  <2> QED  BY <1>1, <2>1, <2>4 DEF ForwardOnly!Next, ForwardOnly!Deliver, Lesser
<1> QED  BY <1>2, <1>3, <1>4, ByFunction

\* The statement announces every row of every result once, in order, and its end
\* after the last, for results of any length and any calls in between.
THEOREM StatementIsACursor == Spec => ImplementsCursor
<1>1. Init => ForwardOnly!Init
  <2>1. ASSUME Init PROVE ForwardOnly!Init
    <3>1. hasResult = FALSE /\ cursor = -1 /\ RowCount = 0
      BY <2>1, NoRowsOK DEF Init, RowCount
    <3>2. Told = "nothing"
      BY <2>1 DEF Init, Told, Call, Fetches
    <3> QED  BY <3>1, <3>2 DEF ForwardOnly!Init, Lesser
  <2> QED  BY <2>1
<1>2. IInv /\ [Next]_vars => [ForwardOnly!Next]_(ForwardOnly!cursorVars)
  <2>1. ASSUME UNCHANGED vars PROVE UNCHANGED ForwardOnly!cursorVars
    BY <2>1 DEF vars, resultVars, RowCount, Told, ForwardOnly!cursorVars
  <2> QED  BY <2>1, NotFetching, Fetching
<1> QED  BY <1>1, <1>2, Invariance, PTL DEF Spec, ImplementsCursor, ForwardOnly!Spec
=============================================================================
