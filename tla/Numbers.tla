------------------------------ MODULE Numbers ------------------------------
(***************************************************************************)
(* The conversion of a cell to an integer C type (convert.cpp): the cell is*)
(* read as a long long, through a double unless it is a JSON integer, and  *)
(* then written to the width that was asked for.                           *)
(*                                                                         *)
(* Widths are parameters, so that all of the ranges can be small.  A number*)
(* is counted in halves: 3 is one and a half.  A double has Mantissa exact *)
(* values up to a power of two, then every second, every fourth and so on. *)
(***************************************************************************)
EXTENDS Integers

CONSTANTS
    Signed, Unsigned,  \* C types that writeInteger, writeUnsignedInteger serve
    Size,              \* how many values each has
    LongSize,          \* how many values long long has
    Mantissa,          \* how many halves a double holds exactly
    Limit,             \* the 9.3e18 of integerFromCell, in halves
    Kinds,             \* the kinds of cells of a run
    MaxNumber          \* bound: the largest magnitude of a cell, in halves

ASSUME NumbersAssumption ==
    /\ LongSize \in Nat /\ LongSize % 2 = 0 /\ LongSize > 2
    /\ \A t \in Signed \cup Unsigned : Size[t] \in Nat /\ Size[t] \in 2..LongSize
    /\ \A t \in Signed : Size[t] % 2 = 0
    /\ Signed \cap Unsigned = {}
    /\ {"SQL_C_SBIGINT", "SQL_C_BIT"} \cap (Signed \cup Unsigned) = {}
    /\ Mantissa \in Nat /\ Mantissa > 1 /\ Limit \in Nat /\ Limit > LongSize /\ MaxNumber \in Nat

CTypes == Signed \cup Unsigned \cup {"SQL_C_SBIGINT", "SQL_C_BIT"}

VARIABLES
    cell, cType,
    v, hadFraction,  \* what integerFromCell gives
    ret, stored,     \* return code and the application's number
    pc

vars == <<cell, cType, v, hadFraction, ret, stored, pc>>

-----------------------------------------------------------------------------
(* Numbers *)

LongMin == -(LongSize \div 2)
LongMax == LongSize \div 2 - 1
InLong(x) == LongMin <= x /\ x <= LongMax

Abs(h) == IF h < 0 THEN -h ELSE h
\* std::trunc, of a number in halves; and what is cut off.
Trunc(h) == IF h < 0 THEN -((-h) \div 2) ELSE h \div 2
Fraction(h) == h % 2 # 0

\* The nearest double: ties go to the even one.
Spacing(h) ==
    LET up[s \in 1..Abs(h) + 1] == IF Abs(h) <= Mantissa * s THEN s ELSE up[2 * s] IN up[1]
Nearest(h) ==
    LET s == Spacing(h)
        below == Abs(h) \div s
        rest == Abs(h) % s
        near == IF 2 * rest > s \/ (2 * rest = s /\ below % 2 = 1) THEN below + 1 ELSE below
    IN  IF h < 0 THEN -(near * s) ELSE near * s

-----------------------------------------------------------------------------
(* Cells *)

\* What the JSON parser makes of a number: integers of 64 bits are unsigned
\* unless they are negative, all others are doubles.  The other cells: text
\* that is a number, TRUE and FALSE, anything else.
Halves == -MaxNumber..MaxNumber
Cell(kind, h) == [kind |-> kind, value |-> h]
Cells ==
    {Cell("integer", 2 * x) : x \in LongMin..-1}
    \cup {Cell("unsigned", 2 * x) : x \in 0..LongSize - 1}
    \cup {Cell("float", Nearest(h)) : h \in Halves}
    \cup {Cell("string", h) : h \in Halves}
    \cup {Cell(kind, h) : kind \in {"boolean", "word"}, h \in {0, 2}}
    \cup {Cell("other", 0)}

\* is_number_integer holds of both kinds of integers.
IsNumberInteger == cell.kind \in {"integer", "unsigned"}

Init ==
    /\ cell \in {c \in Cells : c.kind \in Kinds} /\ cType \in CTypes
    /\ v = 0 /\ hadFraction = FALSE
    /\ ret = "none" /\ stored = 0
    /\ pc = "read"

-----------------------------------------------------------------------------
(* integerFromCell *)

\* A cast between signed and unsigned keeps the bits.
Wrapped(x, lo, size) == lo + ((x - lo) % size)

Got(x, fraction) ==
    /\ v' = x /\ hadFraction' = fraction
    /\ pc' = "write"
    /\ UNCHANGED <<cell, cType, ret, stored>>

\* get<long long>; the test for unsigned ones comes second in the code and
\* is never reached.
ReadInteger ==
    /\ pc = "read" /\ IsNumberInteger
    /\ Got(Wrapped(Trunc(cell.value), LongMin, LongSize), FALSE)

ReadBoolean ==
    /\ pc = "read" /\ cell.kind = "boolean"
    /\ Got(Trunc(cell.value), FALSE)

\* numericFromCell
Double == IF cell.kind = "float" THEN cell.value ELSE Nearest(cell.value)
WithinLimit == cell.kind \in {"float", "string"} /\ Abs(Double) <= Limit

\* A double that a long long cannot hold: the cast is undefined and gives the
\* smallest (x86) or the nearest (ARM).
Casts(x) ==
    IF InLong(x) THEN {x} ELSE {LongMin, IF x < 0 THEN LongMin ELSE LongMax}

ReadDouble ==
    /\ pc = "read" /\ WithinLimit
    /\ \E x \in Casts(Trunc(Double)) : Got(x, Fraction(Double))

\* SQL_C_BIT also knows TRUE and FALSE.
ReadWord ==
    /\ pc = "read" /\ cell.kind = "word" /\ cType = "SQL_C_BIT"
    /\ Got(Trunc(cell.value), FALSE)

Unreadable ==
    \/ cell.kind \in {"float", "string"} /\ ~WithinLimit
    \/ cell.kind = "word" /\ cType # "SQL_C_BIT"
    \/ cell.kind = "other"

\* 22018
Reject ==
    /\ pc = "read" /\ Unreadable
    /\ ret' = "SQL_ERROR" /\ pc' = "done"
    /\ UNCHANGED <<cell, cType, v, hadFraction, stored>>

-----------------------------------------------------------------------------
(* writeInteger, writeUnsignedInteger, and the cases without a check *)

Success == IF hadFraction THEN "SQL_SUCCESS_WITH_INFO" ELSE "SQL_SUCCESS"

\* min() and max() of a type.  The variant lets the first
\* value beyond pass.
Lowest(t) == IF t \in Signed THEN -(Size[t] \div 2) ELSE 0
Highest(t) == Lowest(t) + Size[t] - 1

FitsOrNext(t, x) == Lowest(t) <= x /\ x <= Highest(t) + 1
Fits(t, x) == Lowest(t) <= x /\ x <= Highest(t)

Stored(rc, x) ==
    /\ ret' = rc /\ stored' = x /\ pc' = "done"
    /\ UNCHANGED <<cell, cType, v, hadFraction>>

\* 22003, and nothing is written.
OutOfRange == Stored("SQL_ERROR", stored)

WriteInteger ==
    /\ pc = "write" /\ cType \in Signed
    /\ \/ Fits(cType, v) /\ Stored(Success, Wrapped(v, Lowest(cType), Size[cType]))
       \/ ~Fits(cType, v) /\ OutOfRange

\* v < 0 is tested before v is taken for unsigned.
WriteUnsignedInteger ==
    /\ pc = "write" /\ cType \in Unsigned
    /\ \/ /\ v >= 0 /\ Fits(cType, Wrapped(v, 0, LongSize))
          /\ Stored(Success, Wrapped(v, 0, Size[cType]))
       \/ ~(v >= 0 /\ Fits(cType, Wrapped(v, 0, LongSize))) /\ OutOfRange

WriteLong ==
    /\ pc = "write" /\ cType = "SQL_C_SBIGINT"
    /\ Stored(Success, v)

\* A fraction is not reported.
WriteBit ==
    /\ pc = "write" /\ cType = "SQL_C_BIT"
    /\ \/ v \in {0, 1} /\ Stored("SQL_SUCCESS", v)
       \/ v \notin {0, 1} /\ OutOfRange

Next ==
    \/ ReadInteger \/ ReadBoolean \/ ReadDouble \/ ReadWord \/ Reject
    \/ WriteInteger \/ WriteUnsignedInteger \/ WriteLong \/ WriteBit

Spec == Init /\ [][Next]_vars

-----------------------------------------------------------------------------
(* Properties *)

\* What is read is a long long, what is written is of its type.
TypeOK ==
    /\ v \in LongMin..LongMax /\ hadFraction \in BOOLEAN
    /\ ret \in {"none", "SQL_SUCCESS", "SQL_SUCCESS_WITH_INFO", "SQL_ERROR"}
    /\ \A t \in Signed \cup Unsigned : cType = t => stored \in Lowest(t)..Highest(t)

\* The numbers a type has.
Representable(t, x) ==
    \/ t \in Signed \cup Unsigned /\ Fits(t, x)
    \/ t = "SQL_C_SBIGINT" /\ InLong(x)
    \/ t = "SQL_C_BIT" /\ x \in {0, 1}

IsNumber == cell.kind \in {"integer", "unsigned", "float", "string", "boolean"}
Number == Trunc(cell.value)
Told == ret # "SQL_SUCCESS" \/ cType = "SQL_C_BIT"

\* A number that fits into a long long, and into a double if it is read
\* through one, is delivered exactly if the type has it and refused if not;
\* a fraction that is cut off is told of.
NumbersExact ==
    pc = "done" /\ IsNumber /\ InLong(Number)
    /\ (cell.kind = "string" => Nearest(cell.value) = cell.value) =>
        /\ ret = "SQL_ERROR" <=> ~Representable(cType, Number)
        /\ ret # "SQL_ERROR" => stored = Number
        /\ ret # "SQL_ERROR" /\ Fraction(cell.value) => Told

\* "Integers with range checking": a JSON number that a type has not is never
\* delivered as one that it has.
RangeChecked ==
    pc = "done" /\ cell.kind \in {"integer", "unsigned", "float"} /\ ret # "SQL_ERROR" =>
        stored = Number

=============================================================================
