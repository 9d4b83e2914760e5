------------------------------- MODULE Convert -------------------------------
(***************************************************************************)
(* The conversion of one result cell into an application buffer            *)
(* (convert.cpp), as operators without state: given the cell, the type of  *)
(* its column, the C type and the buffer of the call and the offset kept   *)
(* for the column, an operator returns everything the call does: its       *)
(* return code, the diagnostic it adds, the indicator it writes, the bytes *)
(* it copies and the offset it leaves behind.                              *)
(*                                                                         *)
(* A value is abstracted to the lengths of its renderings: the properties  *)
(* are about which bytes of a value are delivered, never about which       *)
(* characters they are.  Text is taken to be one byte per character.       *)
(***************************************************************************)
EXTENDS Integers

CONSTANTS UnitSize,   \* sizeof(SQLWCHAR): 2 or 4
          SizeMax     \* 2^w, the number of values of size_t

ASSUME UnitSizeAssumption == UnitSize \in {2, 4}
ASSUME SizeMaxAssumption == SizeMax \in Nat \ {0}

SUCCESS   == "SQL_SUCCESS"
WITH_INFO == "SQL_SUCCESS_WITH_INFO"
ERROR     == "SQL_ERROR"
NO_DATA   == "SQL_NO_DATA"
ReturnCodes == {SUCCESS, WITH_INFO, ERROR, NO_DATA}

NoState   == "none"              \* the call adds no diagnostic record
Warnings  == {"01004", "01S02", "01S07"}

\* The states a conversion may report.
ConvertStates ==
    {NoState, "01004", "01S07", "07006", "22002", "22003", "22018", "HY090"}

NULL_DATA == -1                  \* SQL_NULL_DATA
NotSet    == -2                  \* the indicator is not written
Unmarked  == 0                   \* variant: no mark for a column read to its end
Consumed  == -1                  \* "-1 means fully consumed" (handles.h)

(***************************************************************************)
(* C types: the three that are copied in chunks, one that stands for the   *)
(* fixed-length ones, SQL_C_DEFAULT, and one the driver does not know.     *)
(* The type of a column is given by the C type it converts to by default.  *)
(***************************************************************************)
Chunked     == {"CHAR", "WCHAR", "BINARY"}
CTypes      == Chunked \cup {"FIXED", "DEFAULT", "BAD"}
ColumnTypes == {"CHAR", "BINARY", "FIXED"}

\* A cell: null or not, the number of characters of its text, whether that
\* text is hexadecimal, and what the conversion to a number makes of it.
Cells == [null : BOOLEAN, chars : Nat, hex : BOOLEAN,
          num : {"exact", "fraction", "range", "text"}]

NullCell == [null |-> TRUE, chars |-> 0, hex |-> FALSE, num |-> "text"]

\* The buffer of a call: target pointer given or not, its length, indicator
\* pointer given or not.
Buffers == [ptr : BOOLEAN, len : Int, ind : BOOLEAN]

Outcome(rc, state, ind, from, count, written, offset) ==
    [rc |-> rc, state |-> state, ind |-> ind, from |-> from, count |-> count,
     written |-> written, offset |-> offset]

\* A call that copies nothing and leaves the offset alone.
Plain(rc, state, ind, offset) == Outcome(rc, state, ind, 0, 0, 0, offset)

\* size_t arithmetic: a difference below zero wraps.
SizeT(n) == IF n < 0 THEN n + SizeMax ELSE n

\* SQL_C_DEFAULT stands for the default C type of the column.
Resolve(cType, colType) == IF cType = "DEFAULT" THEN colType ELSE cType

Unit(cType) == IF cType = "WCHAR" THEN UnitSize ELSE 1

TerminatorBytes(cType) == IF cType = "BINARY" THEN 0 ELSE Unit(cType)

\* Bytes of the cell's rendering: text, wide text, or raw bytes, which are
\* half as many when a BYTES column holds valid hexadecimal text.
Total(cell, colType, cType) ==
    IF cType = "BINARY" /\ colType = "BINARY" /\ cell.hex
    THEN cell.chars \div 2
    ELSE cell.chars * Unit(cType)

\* Whole units that fit in a buffer once room is left for the terminator; the
\* variant leaves room for it twice.
UsableTwoTerminators(len, cType) ==
    LET room == len - 2 * TerminatorBytes(cType)
    IN  IF room > 0 THEN room - (room % Unit(cType)) ELSE 0

Usable(len, cType) ==
    LET room == len - TerminatorBytes(cType)
    IN  IF room > 0 THEN room - (room % Unit(cType)) ELSE 0

TerminatorWritten(len, cType) ==
    IF len >= TerminatorBytes(cType) THEN TerminatorBytes(cType) ELSE 0

Lesser(a, b) == IF a < b THEN a ELSE b

\* The offset a partial chunk leaves; and a variant that forgets where the
\* chunk began.
AdvanceFromZero(start, n) == n
Advance(start, n) == start + n

IndFor(buf, n) == IF buf.ind THEN n ELSE NotSet

(***************************************************************************)
(* copyChunked: "offset" is the column's entry of getDataOffsets, 0 when   *)
(* it has none (the code treats the two alike).  A bound column            *)
(* (isGetData = FALSE) neither reads nor writes it.                        *)
(***************************************************************************)
CopyChunked(offset, total, cType, buf, isGetData) ==
    LET start     == IF isGetData THEN offset ELSE 0
        remaining == SizeT(total - start)
        ind       == IndFor(buf, remaining)
        n         == Lesser(remaining, Usable(buf.len, cType))
        Copied(rc, state, newOffset) ==
            Outcome(rc, state, ind, start, n, n + TerminatorWritten(buf.len, cType),
                    IF isGetData THEN newOffset ELSE offset)
    IN  IF start < 0 THEN Plain(NO_DATA, NoState, NotSet, offset)
        ELSE IF ~buf.ptr THEN Plain(SUCCESS, NoState, ind, offset)
        ELSE IF buf.len < 0 THEN Plain(ERROR, "HY090", ind, offset)
        ELSE IF n < remaining THEN Copied(WITH_INFO, "01004", Advance(start, n))
        ELSE Copied(SUCCESS, NoState, Consumed)

\* A NULL cell: the offset is marked before the indicator is looked at.
ConvertNull(offset, buf, isGetData) ==
    LET newOffset == IF isGetData THEN Consumed ELSE offset
    IN  IF isGetData /\ offset < 0 THEN Plain(NO_DATA, NoState, NotSet, offset)
        ELSE IF ~buf.ind THEN Plain(ERROR, "22002", NotSet, newOffset)
        ELSE Plain(SUCCESS, NoState, NULL_DATA, newOffset)

\* A fixed-length target: integers, floats, dates and times.  FixedSize is
\* the size reported, the same for all of them in the model.
FixedSize == 8

ConvertFixed(offset, cell, buf) ==
    LET size == IndFor(buf, FixedSize)
        Wrote(rc, state) ==
            Outcome(rc, state, size, 0, 0, IF buf.ptr THEN FixedSize ELSE 0, offset)
    IN  IF cell.num = "text" THEN Plain(ERROR, "22018", NotSet, offset)
        ELSE IF cell.num = "range" THEN Plain(ERROR, "22003", NotSet, offset)
        ELSE IF cell.num = "fraction" THEN Wrote(WITH_INFO, "01S07")
        ELSE Wrote(SUCCESS, NoState)

ConvertCell(offset, cell, colType, cType, buf, isGetData) ==
    LET t == Resolve(cType, colType)
    IN  IF cell.null THEN ConvertNull(offset, buf, isGetData)
        ELSE IF t \in Chunked
             THEN CopyChunked(offset, Total(cell, colType, t), t, buf, isGetData)
        ELSE IF t = "FIXED" THEN ConvertFixed(offset, cell, buf)
        ELSE Plain(ERROR, "07006", NotSet, offset)
=============================================================================
