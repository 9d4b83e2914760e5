------------------------------ MODULE WideText ------------------------------
(***************************************************************************)
(* Text between the application and the driver: the conversions of UTF-16  *)
(* and UTF-8 (unicode_conv.cpp), the helpers that copy text out            *)
(* (api_helpers.h), the wide entry points around them (odbc_unicode.cpp)   *)
(* and the readers of diagnostics (odbc_handles.cpp).                      *)
(*                                                                         *)
(* There is a character for each number of bytes in UTF-8: "one", "two",   *)
(* "four", and the replacement character of three.  A byte is              *)
(* <<character, which of its bytes>>; a unit of UTF-16 is a character, or  *)
(* half of one of four bytes: "high", "low".  SQLWCHAR has two bytes.      *)
(* The texts the driver gives out are shorter than what a SQLSMALLINT can  *)
(* say; its arguments need not be.                                         *)
(***************************************************************************)
EXTENDS Integers, Sequences

CONSTANTS
    Intermediate,  \* size of the wide functions' own buffers: 1024, 2048, 4096
    ShortSize,     \* how many values a SQLSMALLINT has
    MaxText,       \* bound: length of a text, in characters or units
    MaxBuffer      \* bound: length of the application's buffer

Characters == {"one", "two", "four"}
Units == {"one", "two", "high", "low"}
Texts(chars) == UNION {[1..k -> chars] : k \in 0..MaxText}

SQL_NTS == -3

Sizes == [one |-> 1, two |-> 2, replacement |-> 3, four |-> 4]
SizeOf(c) == Sizes[c]

-----------------------------------------------------------------------------
(* Conversions *)

BytesOf(c) == [b \in 1..SizeOf(c) |-> <<c, b>>]
UnitsOf(c) == IF c = "four" THEN <<"high", "low">> ELSE <<c>>

Concat(Op(_), text) ==
    LET all[k \in 0..Len(text)] == IF k = 0 THEN <<>> ELSE all[k - 1] \o Op(text[k])
    IN  all[Len(text)]

Utf8(text) == Concat(BytesOf, text)
Utf16(text) == Concat(UnitsOf, text)

\* wideToUtf8: a pair of surrogates is one character, one alone is replaced.
\* The variant looks at the next unit without taking it.
NoPairs(w, k) == FALSE
PairAt(w, k) == k < Len(w) /\ w[k] = "high" /\ w[k + 1] = "low"

WideToUtf8(w) ==
    LET rest[k \in 1..Len(w) + 2] ==
            IF k > Len(w) THEN <<>>
            ELSE IF PairAt(w, k) THEN BytesOf("four") \o rest[k + 2]
            ELSE BytesOf(IF w[k] \in {"high", "low"} THEN "replacement" ELSE w[k]) \o rest[k + 1]
    IN  rest[1]

\* utf8ToWide: a first byte with all that must follow it is a character, any
\* other byte is replaced on its own.  The variant wants one byte more.
WholeAndMore(s, k) ==
    LET c == s[k][1] IN
    /\ s[k][2] = 1
    /\ k + SizeOf(c) - 1 < Len(s)
    /\ \A j \in k + 1..k + SizeOf(c) - 1 : s[j][2] > 1

Whole(s, k) ==
    LET c == s[k][1] IN
    /\ s[k][2] = 1
    /\ k + SizeOf(c) - 1 <= Len(s)
    /\ \A j \in k + 1..k + SizeOf(c) - 1 : s[j][2] > 1

Utf8ToWide(s) ==
    LET rest[k \in 1..Len(s) + 4] ==
            IF k > Len(s) THEN <<>>
            ELSE IF Whole(s, k) THEN UnitsOf(s[k][1]) \o rest[k + SizeOf(s[k][1])]
            ELSE <<"replacement">> \o rest[k + 1]
    IN  rest[1]

-----------------------------------------------------------------------------
(* Copying out *)

\* copyStringToBuffer, and copyWideToBuffer... with room in units: what is
\* put before the terminator, and whether the rest was cut off.  The variant
\* leaves no room for the terminator.
RoomForAll(room) == room
RoomForText(room) == room - 1

Copy(s, null, room) ==
    LET most == RoomForText(room)
        k == IF Len(s) <= most THEN Len(s) ELSE most
    IN  IF null THEN [cut |-> FALSE, out |-> <<>>]
        ELSE IF room <= 0 THEN [cut |-> s # <<>>, out |-> <<>>]
        ELSE [cut |-> k < Len(s), out |-> SubSeq(s, 1, k)]

\* SQLGetDiagRec and SQLGetDiagField do not look at a buffer without room.
CopyIfRoom(s, null, room) == Copy(s, null \/ room <= 0, room)

VARIABLES
    fn,            \* the kind of function called
    text,          \* what it has to say
    null, bufLen,  \* the application's buffer, in the unit of the function
    utf8,          \* the text in the driver's own buffer
    out, len,      \* what the application gets: text, and its length
    ret,
    pc

vars == <<fn, text, null, bufLen, utf8, out, len, ret, pc>>
call == <<fn, text, null, bufLen>>

\* Functions that go through a buffer of their own; that measure in units of
\* UTF-16, or in bytes of them; that read diagnostics; that take text.
Via == {"viaChars", "viaBytes", "diagChars", "diagBytes"}
InChars == {"chars", "viaChars", "diagChars"}
InBytes == {"bytes", "viaBytes", "diagBytes"}
Diag == {"diag", "diagChars", "diagBytes"}
Functions == {"string", "diag"} \cup InChars \cup InBytes

Init ==
    /\ \/ /\ fn \in Functions /\ text \in Texts(Characters)
          /\ null \in BOOLEAN /\ bufLen \in 0..MaxBuffer
       \/ fn = "argument" /\ text \in Texts(Units) /\ null = FALSE /\ bufLen = 0
    /\ utf8 = <<>> /\ out = <<>> /\ len = 0
    /\ ret = "none" /\ pc = "call"

Info(cut) == IF cut THEN "SQL_SUCCESS_WITH_INFO" ELSE "SQL_SUCCESS"

\* The return code of a narrow call stands unless the copy cuts something
\* off; the variant forgets it.
CopyAlone(cut, rc) == Info(cut)
Either(cut, rc) == IF cut THEN Info(TRUE) ELSE rc

CopyFor(s, room) == IF fn \in Diag THEN CopyIfRoom(s, null, room) ELSE Copy(s, null, room)

Return(s, room, unitSize, rc) ==
    LET copy == CopyFor(s, room) IN
    /\ out' = copy.out
    /\ len' = Len(s) * unitSize
    /\ ret' = Either(copy.cut, rc)
    /\ pc' = "done"
    /\ UNCHANGED <<call, utf8>>

\* SQLDescribeCol, SQLGetInfo, SQLDriverConnect, SQLGetDiagRec, ...
Narrow ==
    /\ pc = "call" /\ fn \in {"string", "diag"}
    /\ Return(Utf8(text), bufLen, 1, "SQL_SUCCESS")

\* The wide functions that call the narrow one first.
CallNarrow ==
    LET copy == Copy(Utf8(text), FALSE, Intermediate) IN
    /\ pc = "call" /\ fn \in Via
    /\ utf8' = copy.out
    /\ ret' = Info(copy.cut)
    /\ pc' = "convert"
    /\ UNCHANGED <<call, out, len>>

\* SQLNativeSqlW, SQLGetCursorNameW, SQLGetConnectAttrW have the text itself.
HasText ==
    /\ pc = "call" /\ fn \in {"chars", "bytes"}
    /\ utf8' = Utf8(text)
    /\ ret' = "SQL_SUCCESS"
    /\ pc' = "convert"
    /\ UNCHANGED <<call, out, len>>

\* A length in bytes is halved to units.
UnitsIn(bytes) == bytes \div 2

\* copyWideToBufferChars and SQLGetDiagRecW.
ConvertChars ==
    /\ pc = "convert" /\ fn \in InChars
    /\ Return(Utf8ToWide(utf8), bufLen, 1, ret)

ConvertBytes ==
    /\ pc = "convert" /\ fn \in InBytes
    /\ Return(Utf8ToWide(utf8), UnitsIn(bufLen), 2, ret)

-----------------------------------------------------------------------------
(* Taking text in *)

\* Utf8Arg::len is a SQLSMALLINT.
Short(x) == IF x % ShortSize < ShortSize \div 2 THEN x % ShortSize
            ELSE (x % ShortSize) - ShortSize

\* fromSqlString(Utf8Arg::ptr(), Utf8Arg::len()): no text for a negative
\* length, up to the terminator for SQL_NTS.
FromSqlString(s, length) ==
    IF length = SQL_NTS THEN s ELSE IF length < 0 THEN <<>> ELSE SubSeq(s, 1, length)

Argument ==
    LET s == WideToUtf8(text) IN
    /\ pc = "call" /\ fn = "argument"
    /\ out' = FromSqlString(s, Short(Len(s)))
    /\ ret' = "SQL_SUCCESS" /\ pc' = "done"
    /\ UNCHANGED <<call, utf8, len>>

Next == Narrow \/ CallNarrow \/ HasText \/ ConvertChars \/ ConvertBytes \/ Argument

Spec == Init /\ [][Next]_vars

-----------------------------------------------------------------------------
(* Properties *)

Room == IF fn \in InBytes THEN bufLen \div 2 ELSE bufLen
FullText == IF fn \in {"string", "diag"} THEN Utf8(text) ELSE Utf16(text)
IsPrefix(a, b) == Len(a) <= Len(b) /\ a = SubSeq(b, 1, Len(a))
FitsInside == fn \in Via => Len(Utf8(text)) < Intermediate
TextOut == pc = "done" /\ fn \in Functions

\* Text and terminator are within the buffer, nothing is written without one,
\* and it is the text's beginning, in whole units.
StaysInBuffer ==
    TextOut =>
        /\ IF null \/ Room = 0 THEN out = <<>> ELSE Len(out) < Room
        /\ FitsInside => IsPrefix(out, FullText)

\* A text that is not delivered whole is never taken for whole, whether the
\* function's own buffer cut it or the application's; readers of diagnostics
\* excepted that are given no room.  The length reported is the text's own, in
\* the unit of the function, as long as the function's own buffer holds it.
LossIsTold ==
    /\ TextOut /\ ~null /\ (fn \in Diag => Room > 0) =>
           (ret = "SQL_SUCCESS" <=> out = FullText)
    /\ TextOut /\ FitsInside => len = Len(FullText) * (IF fn \in InBytes THEN 2 ELSE 1)

\* The text with surrogates that stand alone replaced.
Replaced ==
    LET pair(k) == k \in 1..Len(text) - 1 /\ text[k] = "high" /\ text[k + 1] = "low"
        lone(k) == text[k] \in {"high", "low"} /\ ~pair(k) /\ ~pair(k - 1)
    IN  [k \in DOMAIN text |-> IF lone(k) THEN "replacement" ELSE text[k]]

\* What the driver takes in is what the application gave, with surrogates
\* that stand alone replaced; given back it is the same again.
\* (That is, a text whose length a SQLSMALLINT can say; longer ones do not.)
ArgumentArrives ==
    pc = "done" /\ fn = "argument" /\ Len(WideToUtf8(text)) < ShortSize \div 2 =>
        Utf8ToWide(out) = Replaced

=============================================================================
