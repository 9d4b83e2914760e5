---------------------------- MODULE ValuesProofs ----------------------------
(***************************************************************************)
(* The conversions of values.  For C types and a long long of any width: a *)
(* number is read and written exactly or refused (Numbers).  For every     *)
(* number of milliseconds, every text and every calendar: the structs of   *)
(* Timestamps are well formed, and name the moment they were made of, and  *)
(* so does the literal a struct is written as.                             *)
(***************************************************************************)
EXTENDS Numbers, Timestamps, Induction, TLAPS

-----------------------------------------------------------------------------
(* Arithmetic *)

\* A cast gives a value of the type it casts to, and keeps one that the type has.
LEMMA WrappedFits ==
    ASSUME NEW x \in Int, NEW lo \in Int, NEW n \in Nat, n > 0
    PROVE  /\ Wrapped(x, lo, n) \in lo..lo + n - 1
           /\ x \in lo..lo + n - 1 => Wrapped(x, lo, n) = x
<1>1. (x - lo) % n \in Int /\ 0 <= (x - lo) % n /\ (x - lo) % n < n
  BY SMT
<1>2. ASSUME x \in lo..lo + n - 1 PROVE (x - lo) % n = x - lo
  BY <1>2, SMT
<1> QED BY <1>1, <1>2, SMT DEF Wrapped

LEMMA TruncIsInt == ASSUME NEW h \in Int PROVE Trunc(h) \in Int
  BY SMT DEF Trunc

LEMMA LongBounds ==
    /\ LongMin \in Int /\ LongMax \in Int /\ LongSize \in Nat
    /\ LongMin <= 0 /\ 1 <= LongMax /\ LongMax = LongMin + LongSize - 1 /\ LongMin = -(LongMax + 1)
  BY NumbersAssumption, SMT DEF LongMin, LongMax

\* A number that a long long has is within the limit for doubles.
LEMMA LongWithinLimit ==
    ASSUME NEW h \in Int, InLong(Trunc(h))
    PROVE  Abs(h) <= Limit
<1>1. LongSize \in Nat /\ LongSize % 2 = 0 /\ Limit \in Nat /\ Limit > LongSize
  BY NumbersAssumption, SMT
<1>2. -(LongSize + 1) <= h /\ h <= LongSize + 1
  BY <1>1, SMT DEF InLong, Trunc, LongMin, LongMax
<1> QED BY <1>1, <1>2, SMT DEF Abs

\* The C types of writeInteger and writeUnsignedInteger.
LEMMA Ranges ==
    ASSUME NEW t \in Signed \cup Unsigned
    PROVE  /\ Lowest(t) \in Int /\ Size[t] \in Nat /\ Size[t] > 0
           /\ Lowest(t) <= 0 /\ 0 <= Highest(t) /\ Highest(t) = Lowest(t) + Size[t] - 1
<1>1. Size[t] \in Nat /\ Size[t] >= 2
  BY NumbersAssumption, SMT
<1> QED BY <1>1, SMT DEF Lowest, Highest

LEMMA OwnTypes ==
    \A t \in Signed \cup Unsigned : t # "SQL_C_SBIGINT" /\ t # "SQL_C_BIT"
  BY NumbersAssumption, Zenon

-----------------------------------------------------------------------------
(* Rounding *)

\* Rounding gives a number: the search for the spacing of doubles ends.
SpacingFrom(h) ==
    LET up[s \in 1..Abs(h) + 1] == IF Abs(h) <= Mantissa * s THEN s ELSE up[2 * s] IN up

LEMMA SpacingIs ==
  ASSUME NEW h \in Int
  PROVE  Spacing(h) \in Nat \ {0}
<1> DEFINE a == Abs(h)
           D == 1..a + 1
           S == Nat \ {0}
           rank == [s \in D |-> a + 1 - s]
           G == [y \in D \X [D -> S] |-> IF a <= Mantissa * y[1] THEN y[1] ELSE y[2][2 * y[1]]]
           L == SpacingFrom(h)
<1>1. a \in Nat
  BY DEF Abs
<1>2. Spacing(h) = L[1]
  BY DEF Spacing, SpacingFrom
<1>3. \A s \in D, f \in [D -> S] : G[<<s, f>>] = IF a <= Mantissa * s THEN s ELSE f[2 * s]
  OBVIOUS
<1> HIDE DEF a, L
<1>4. \A s \in D : ~(a <= Mantissa * s) => 2 * s \in D /\ rank[2 * s] < rank[s]
  <2> SUFFICES ASSUME NEW s \in D, ~(a <= Mantissa * s) PROVE 2 * s \in D /\ rank[2 * s] < rank[s]
    OBVIOUS
  <2>1. Mantissa \in Nat /\ Mantissa > 1
    BY NumbersAssumption
  <2>2. s \in Int /\ 1 <= s
    BY <1>1
  <2>3. Mantissa * s \in Int /\ 2 * s <= Mantissa * s
    BY <2>1, <2>2
  <2>4. 2 * s \in D
    BY <1>1, <2>2, <2>3
  <2> QED BY <1>1, <2>2, <2>4
<1>5. rank \in [D -> Nat] /\ 1 \in D /\ S # {} /\ \A s \in D : s \in S
  BY <1>1
<1> HIDE DEF D, S, rank, G
<1>6. Into(D, S, G)
  <2>1. ASSUME NEW s \in D, NEW f \in [D -> S] PROVE G[<<s, f>>] \in S
    BY <1>3, <1>4, <1>5
  <2> QED BY <2>1, Zenon DEF Into
<1>7. Below(D, S, rank, G)
  <2> SUFFICES ASSUME NEW s \in D, NEW f \in [D -> S], NEW g \in [D -> S],
                      \A y \in D : rank[y] < rank[s] => f[y] = g[y]
               PROVE  G[<<s, f>>] = G[<<s, g>>]
    BY Zenon DEF Below
  <2>1. ~(a <= Mantissa * s) => f[2 * s] = g[2 * s]
    BY <1>4
  <2> QED BY <1>3, <2>1
<1>8. \E f \in [D -> S] : Follows(f, D, G)
  BY <1>5, <1>6, <1>7, Recursion
<1>9. PICK f \in [D -> S] : f = [s \in D |-> G[<<s, f>>]]
  BY <1>8, Zenon DEF Follows
<1>10. [s \in D |-> G[<<s, f>>]] = [s \in D |-> IF a <= Mantissa * s THEN s ELSE f[2 * s]]
  BY <1>3
<1>11. f = [s \in D |-> IF a <= Mantissa * s THEN s ELSE f[2 * s]]
  BY <1>9, <1>10
<1>12. L = [s \in D |-> IF a <= Mantissa * s THEN s ELSE L[2 * s]]
  BY <1>11, Zenon DEF L, SpacingFrom, D, a
<1>13. L[1] \in S
  <2>1. \A s \in D : L[s] = IF a <= Mantissa * s THEN s ELSE L[2 * s]
    BY <1>12
  <2> DEFINE B == {n \in Nat : \A s \in D : rank[s] < n => L[s] \in S}
  <2>2. \A n \in Nat : n \in B <=> \A s \in D : rank[s] < n => L[s] \in S
    OBVIOUS
  <2> HIDE DEF B
  <2>3. 0 \in B
    <3>1. \A s \in D : ~(rank[s] < 0)
      BY <1>5
    <3> QED BY <2>2, <3>1
  <2>4. ASSUME NEW n \in Nat, n \in B PROVE n + 1 \in B
    <3>1. ASSUME NEW s \in D, rank[s] < n + 1 PROVE L[s] \in S
      <4>1. CASE a <= Mantissa * s
        BY <1>5, <2>1, <4>1
      <4>2. CASE ~(a <= Mantissa * s)
        <5>1. 2 * s \in D /\ rank[2 * s] < rank[s]
          BY <1>4, <4>2
        <5>2. rank[2 * s] < n
          <6>1. rank[2 * s] \in Nat /\ rank[s] \in Nat
            BY <1>5, <5>1
          <6> QED BY <3>1, <5>1, <6>1
        <5>3. L[2 * s] \in S
          BY <2>2, <2>4, <5>1, <5>2
        <5> QED BY <2>1, <4>2, <5>3
      <4> QED BY <4>1, <4>2
    <3>2. n + 1 \in Nat
      OBVIOUS
    <3> QED BY <2>2, <3>1, <3>2
  <2>5. Nat \subseteq B
    BY <2>3, <2>4, SetInduction
  <2>6. rank[1] + 1 \in Nat /\ rank[1] < rank[1] + 1
    BY <1>5
  <2> QED BY <1>5, <2>2, <2>5, <2>6
<1> QED BY <1>2, <1>13 DEF S

LEMMA NearestIs == ASSUME NEW h \in Int PROVE Nearest(h) \in Int
<1>1. Spacing(h) \in Nat \ {0} /\ Abs(h) \in Nat
  BY SpacingIs DEF Abs
<1>2. \A s \in Nat \ {0}, x \in Nat : x \div s \in Int /\ x % s \in Int
  OBVIOUS
<1> DEFINE near == IF 2 * (Abs(h) % Spacing(h)) > Spacing(h)
                       \/ (2 * (Abs(h) % Spacing(h)) = Spacing(h) /\ (Abs(h) \div Spacing(h)) % 2 = 1)
                   THEN Abs(h) \div Spacing(h) + 1 ELSE Abs(h) \div Spacing(h)
<1>3. near \in Int
  BY <1>1, <1>2
<1>4. Nearest(h) = IF h < 0 THEN -(near * Spacing(h)) ELSE near * Spacing(h)
  BY DEF Nearest
<1> HIDE DEF near
<1>5. near * Spacing(h) \in Int
  BY <1>1, <1>3
<1> QED BY <1>4, <1>5

-----------------------------------------------------------------------------
(* The inductive invariant *)

CellOK ==
    /\ cell.value \in Int
    /\ cell.kind \in {"integer", "unsigned"} => cell.value % 2 = 0
    /\ cell.kind \in {"boolean", "word"} => cell.value \in {0, 2}
    /\ cell.kind = "string" => Nearest(cell.value) \in Int

\* The cells that NumbersExact speaks of.
Exact == IsNumber /\ InLong(Number) /\ (cell.kind = "string" => Nearest(cell.value) = cell.value)

ReadOK ==
    pc = "write" /\ Exact => v = Number /\ (hadFraction <=> Fraction(cell.value))

IInv == TypeOK /\ CellOK /\ cType \in CTypes /\ ReadOK /\ NumbersExact

LEMMA InitOk == Init => IInv
<1> SUFFICES ASSUME Init PROVE IInv
  OBVIOUS
<1>1. TypeOK /\ cType \in CTypes /\ ReadOK /\ NumbersExact
  <2>1. v = 0 /\ hadFraction = FALSE /\ ret = "none" /\ stored = 0 /\ pc = "read" /\ cType \in CTypes
    BY DEF Init
  <2>2. \A t \in Signed \cup Unsigned : 0 \in Lowest(t)..Highest(t)
    BY Ranges, SMT
  <2>3. 0 \in LongMin..LongMax
    BY LongBounds, SMT
  <2>4. TypeOK
    BY <2>1, <2>2, <2>3, Zenon DEF TypeOK
  <2> QED BY <2>1, <2>4, SMT DEF ReadOK, NumbersExact
<1>2. cell \in Cells
  BY DEF Init
<1>3. \A h \in Halves : h \in Int /\ Nearest(h) \in Int
  BY NumbersAssumption, NearestIs DEF Halves
<1>4. CellOK
  <2>1. ASSUME NEW x \in LongMin..-1, cell = Cell("integer", 2 * x) PROVE CellOK
    BY <2>1, LongBounds, SMT DEF CellOK, Cell
  <2>2. ASSUME NEW x \in 0..LongSize - 1, cell = Cell("unsigned", 2 * x) PROVE CellOK
    BY <2>2, LongBounds, SMT DEF CellOK, Cell
  <2>3. ASSUME NEW h \in Halves, cell = Cell("float", Nearest(h)) PROVE CellOK
    BY <1>3, <2>3, SMT DEF CellOK, Cell
  <2>4. ASSUME NEW h \in Halves, cell = Cell("string", h) PROVE CellOK
    BY <1>3, <2>4, SMT DEF CellOK, Cell
  <2>5. ASSUME NEW kind \in {"boolean", "word"}, NEW h \in {0, 2}, cell = Cell(kind, h)
        PROVE  CellOK
    BY <2>5, SMT DEF CellOK, Cell
  <2>6. ASSUME cell = Cell("other", 0) PROVE CellOK
    BY <2>6, SMT DEF CellOK, Cell
  <2> QED BY <1>2, <2>1, <2>2, <2>3, <2>4, <2>5, <2>6 DEF Cells
<1> QED BY <1>1, <1>4 DEF IInv

\* What integerFromCell gives is a long long; of the cells in question it is
\* the number.
LEMMA GotOk ==
    ASSUME IInv, NEW x \in LongMin..LongMax, NEW fraction \in BOOLEAN, Got(x, fraction),
           Exact => x = Number /\ (fraction <=> Fraction(cell.value))
    PROVE  IInv'
<1>1. /\ v' = x /\ pc' = "write" /\ cell' = cell /\ cType' = cType /\ ret' = ret
      /\ stored' = stored
  BY DEF Got
<1>2. hadFraction' = fraction
  BY DEF Got
<1>3. CellOK' /\ cType' \in CTypes /\ NumbersExact'
  BY <1>1, SMT DEF IInv, CellOK, NumbersExact
<1>4. (Exact <=> Exact') /\ Number' = Number /\ (Fraction(cell.value) <=> Fraction(cell.value)')
  BY <1>1 DEF Exact, IsNumber, Number, Fraction
<1>5. ReadOK'
  BY <1>1, <1>2, <1>4, Zenon DEF ReadOK
<1>6. TypeOK'
  <2>1. v' \in LongMin..LongMax /\ hadFraction' \in BOOLEAN
    BY <1>1, <1>2, Zenon
  <2> QED BY <1>1, <2>1, Zenon DEF TypeOK, IInv
<1> QED BY <1>3, <1>5, <1>6, Zenon DEF IInv

LEMMA ReadIntegerOk == IInv /\ ReadInteger => IInv'
<1> SUFFICES ASSUME IInv, ReadInteger PROVE IInv'
  OBVIOUS
<1> DEFINE x == Wrapped(Trunc(cell.value), LongMin, LongSize)
<1>1. cell.value \in Int /\ cell.value % 2 = 0
  BY Zenon DEF IInv, CellOK, ReadInteger, IsNumberInteger
<1>2. Trunc(cell.value) \in Int /\ ~Fraction(cell.value)
  BY <1>1, TruncIsInt, SMT DEF Fraction
<1>3. LongSize > 0
  BY NumbersAssumption, SMT
<1>4. x \in LongMin..LongMax /\ (InLong(Trunc(cell.value)) => x = Trunc(cell.value))
  BY <1>2, <1>3, LongBounds, WrappedFits, SMT DEF InLong
<1>5. Got(x, FALSE)
  BY DEF ReadInteger
<1> HIDE DEF x
<1> QED BY <1>2, <1>4, <1>5, GotOk DEF Exact, Number

LEMMA ReadBooleanOk == IInv /\ (ReadBoolean \/ ReadWord) => IInv'
<1> SUFFICES ASSUME IInv, ReadBoolean \/ ReadWord PROVE IInv'
  OBVIOUS
<1> DEFINE x == Trunc(cell.value)
<1>1. cell.value \in {0, 2}
  BY Zenon DEF IInv, CellOK, ReadBoolean, ReadWord
<1>2. x \in {0, 1} /\ ~Fraction(cell.value)
  BY <1>1, SMT DEF Trunc, Fraction
<1>3. x \in LongMin..LongMax
  BY <1>2, LongBounds, SMT
<1>4. Got(x, FALSE)
  BY Zenon DEF ReadBoolean, ReadWord
<1>5. x = Number
  BY DEF Number
<1> HIDE DEF x
<1> QED BY <1>2, <1>3, <1>4, <1>5, GotOk

LEMMA ReadDoubleOk == IInv /\ ReadDouble => IInv'
<1> SUFFICES ASSUME IInv, NEW x \in Casts(Trunc(Double)), Got(x, Fraction(Double)), WithinLimit
             PROVE  IInv'
  BY DEF ReadDouble
<1>1. Double \in Int
  BY Zenon DEF IInv, CellOK, WithinLimit, Double
<1>2. Trunc(Double) \in Int
  BY <1>1, TruncIsInt
<1>3. x \in LongMin..LongMax /\ (InLong(Trunc(Double)) => x = Trunc(Double))
  BY <1>2, LongBounds, SMT DEF Casts, InLong
<1>4. Exact => Double = cell.value
  BY Zenon DEF Exact, Double, WithinLimit
<1>5. Exact => x = Number /\ (Fraction(Double) <=> Fraction(cell.value))
  BY <1>3, <1>4, Zenon DEF Exact, Number
<1>6. Fraction(Double) \in BOOLEAN
  BY DEF Fraction
<1> QED BY <1>3, <1>5, <1>6, GotOk

\* What a call ends with.
LEMMA StoredOk ==
    ASSUME IInv, NEW rc \in {"SQL_SUCCESS", "SQL_SUCCESS_WITH_INFO", "SQL_ERROR"}, NEW x,
           Stored(rc, x),
           \A t \in Signed \cup Unsigned : cType = t => x \in Lowest(t)..Highest(t),
           Exact => /\ rc = "SQL_ERROR" <=> ~Representable(cType, Number)
                    /\ rc # "SQL_ERROR" => x = Number
                    /\ rc = "SQL_SUCCESS" => ~Fraction(cell.value) \/ cType = "SQL_C_BIT"
    PROVE  IInv'
<1>1. /\ v' = v /\ hadFraction' = hadFraction /\ cell' = cell /\ cType' = cType
      /\ ret' = rc /\ stored' = x /\ pc' = "done"
  BY DEF Stored
<1>2. TypeOK' /\ CellOK' /\ cType' \in CTypes
  BY <1>1, Zenon DEF IInv, TypeOK, CellOK
<1>3. ReadOK'
  BY <1>1, SMT DEF ReadOK
<1>4. Number' = Number /\ (Exact => Exact') /\ (Exact' => Exact)
  BY <1>1 DEF Number, Exact, IsNumber
<1>5. NumbersExact'
  <2> SUFFICES ASSUME Exact
               PROVE  /\ rc = "SQL_ERROR" <=> ~Representable(cType, Number)
                      /\ rc # "SQL_ERROR" => x = Number
                      /\ rc # "SQL_ERROR" /\ Fraction(cell.value) =>
                             rc # "SQL_SUCCESS" \/ cType = "SQL_C_BIT"
    BY <1>1, <1>4, Zenon DEF NumbersExact, Told, Exact
  <2> QED BY Zenon
<1> QED BY <1>2, <1>3, <1>5, Zenon DEF IInv

LEMMA RejectOk == IInv /\ Reject => IInv'
<1> SUFFICES ASSUME IInv, Reject PROVE IInv'
  OBVIOUS
<1>1. ~Exact
  <2> SUFFICES ASSUME Exact PROVE FALSE
    OBVIOUS
  <2>1. cell.kind \in {"float", "string"} /\ ~WithinLimit
    BY Zenon DEF Reject, Unreadable, Exact, IsNumber
  <2>2. Double = cell.value
    BY <2>1, Zenon DEF Exact, Double
  <2>3. cell.value \in Int /\ InLong(Trunc(cell.value))
    BY Zenon DEF IInv, CellOK, Exact, Number
  <2> QED BY <2>1, <2>2, <2>3, LongWithinLimit DEF WithinLimit
<1>2. Stored("SQL_ERROR", stored)
  BY SMT DEF Reject, Stored
<1>3. \A t \in Signed \cup Unsigned : cType = t => stored \in Lowest(t)..Highest(t)
  BY Zenon DEF IInv, TypeOK
<1> QED BY <1>1, <1>2, <1>3, StoredOk

\* 22003, of a number that the type has not.
LEMMA OutOfRangeOk ==
    ASSUME IInv, OutOfRange, Exact => ~Representable(cType, Number)
    PROVE  IInv'
<1>1. \A t \in Signed \cup Unsigned : cType = t => stored \in Lowest(t)..Highest(t)
  BY Zenon DEF IInv, TypeOK
<1> QED BY <1>1, StoredOk DEF OutOfRange

\* Of a number that it has.
LEMMA SuccessOk ==
    ASSUME IInv, pc = "write", NEW x \in Int, Stored(Success, x), v = x,
           Exact => Representable(cType, Number),
           \A t \in Signed \cup Unsigned : cType = t => x \in Lowest(t)..Highest(t)
    PROVE  IInv'
<1>1. Exact => x = Number /\ (hadFraction <=> Fraction(cell.value))
  BY Zenon DEF IInv, ReadOK
<1>2. Success \in {"SQL_SUCCESS", "SQL_SUCCESS_WITH_INFO", "SQL_ERROR"}
  BY Zenon DEF Success
<1>3. Success # "SQL_ERROR" /\ (Success = "SQL_SUCCESS" => ~hadFraction)
  BY Zenon DEF Success
<1> QED BY <1>1, <1>2, <1>3, StoredOk, Zenon

LEMMA WriteIntegerOk == IInv /\ WriteInteger => IInv'
<1> SUFFICES ASSUME IInv, WriteInteger PROVE IInv'
  OBVIOUS
<1>1. pc = "write" /\ cType \in Signed /\ (Exact => v = Number) /\ v \in Int
  BY LongBounds DEF WriteInteger, IInv, ReadOK, TypeOK
<1>2. Exact => (Representable(cType, Number) <=> Fits(cType, v))
  <2>1. Representable(cType, v) <=> Fits(cType, v)
    BY <1>1, OwnTypes, Zenon DEF Representable
  <2> QED BY <1>1, <2>1
<1>3. CASE Fits(cType, v) /\ Stored(Success, Wrapped(v, Lowest(cType), Size[cType]))
  <2>1. Wrapped(v, Lowest(cType), Size[cType]) = v /\ v \in Lowest(cType)..Highest(cType)
    <3>1. /\ Lowest(cType) \in Int /\ Size[cType] \in Nat /\ Size[cType] > 0
          /\ Highest(cType) = Lowest(cType) + Size[cType] - 1
      BY <1>1, Ranges
    <3>2. v \in Lowest(cType)..Lowest(cType) + Size[cType] - 1
      BY <1>1, <1>3, <3>1, SMT DEF Fits
    <3> QED BY <1>1, <3>1, <3>2, WrappedFits
  <2> QED BY <1>1, <1>2, <1>3, <2>1, SuccessOk
<1>4. CASE ~Fits(cType, v) /\ OutOfRange
  BY <1>2, <1>4, OutOfRangeOk
<1> QED BY <1>3, <1>4 DEF WriteInteger

LEMMA WriteUnsignedIntegerOk == IInv /\ WriteUnsignedInteger => IInv'
<1> SUFFICES ASSUME IInv, WriteUnsignedInteger PROVE IInv'
  OBVIOUS
<1> DEFINE ok == v >= 0 /\ Fits(cType, Wrapped(v, 0, LongSize))
<1>1. /\ pc = "write" /\ cType \in Unsigned /\ (Exact => v = Number)
      /\ v \in Int /\ v \in LongMin..LongMax
  BY LongBounds DEF WriteUnsignedInteger, IInv, ReadOK, TypeOK
<1>2. CASE cType \in Signed
  BY <1>1, <1>2, NumbersAssumption
<1>3. CASE cType \notin Signed
  <2>1. Lowest(cType) = 0 /\ Highest(cType) = Size[cType] - 1 /\ Size[cType] \in Nat /\ Size[cType] > 0
    BY <1>1, <1>3, Ranges, SMT DEF Lowest, Highest
  <2>2. v >= 0 => Wrapped(v, 0, LongSize) = v
    BY <1>1, LongBounds, WrappedFits, SMT
  <2>3. ok <=> Fits(cType, v)
    BY <1>1, <2>1, <2>2, SMT DEF Fits
  <2>4. Exact => (Representable(cType, Number) <=> Fits(cType, v))
    <3>1. Representable(cType, v) <=> Fits(cType, v)
      BY <1>1, OwnTypes, Zenon DEF Representable
    <3> QED BY <1>1, <3>1
  <2>5. CASE ok /\ Stored(Success, Wrapped(v, 0, Size[cType]))
    <3>1. v \in 0..0 + Size[cType] - 1 /\ v \in Lowest(cType)..Highest(cType)
      BY <1>1, <2>1, <2>3, <2>5, SMT DEF Fits
    <3>2. Wrapped(v, 0, Size[cType]) = v
      BY <1>1, <2>1, <3>1, WrappedFits, SMT
    <3> QED BY <1>1, <2>3, <2>4, <2>5, <3>1, <3>2, SuccessOk
  <2>6. CASE ~ok /\ OutOfRange
    BY <2>3, <2>4, <2>6, OutOfRangeOk
  <2> QED BY <2>5, <2>6 DEF WriteUnsignedInteger
<1> QED BY <1>2, <1>3

LEMMA WriteLongOk == IInv /\ WriteLong => IInv'
<1> SUFFICES ASSUME IInv, WriteLong PROVE IInv'
  OBVIOUS
<1>1. /\ pc = "write" /\ cType = "SQL_C_SBIGINT" /\ (Exact => v = Number)
      /\ v \in LongMin..LongMax /\ Stored(Success, v)
  BY DEF WriteLong, IInv, ReadOK, TypeOK
<1>2. v \in Int /\ InLong(v)
  BY <1>1, LongBounds, SMT DEF InLong
<1>3. Exact => Representable(cType, Number)
  BY <1>1, <1>2, Zenon DEF Representable
<1>4. \A t \in Signed \cup Unsigned : cType # t
  BY <1>1, OwnTypes, Zenon
<1> QED BY <1>1, <1>2, <1>3, <1>4, SuccessOk

LEMMA WriteBitOk == IInv /\ WriteBit => IInv'
<1> SUFFICES ASSUME IInv, WriteBit PROVE IInv'
  OBVIOUS
<1>1. pc = "write" /\ cType = "SQL_C_BIT" /\ (Exact => v = Number)
  BY Zenon DEF WriteBit, IInv, ReadOK
<1>2. \A t \in Signed \cup Unsigned : cType # t
  BY <1>1, OwnTypes, Zenon
<1>3. Exact => (Representable(cType, Number) <=> v \in {0, 1})
  <2>1. Representable(cType, v) <=> v \in {0, 1}
    BY <1>1, <1>2, Zenon DEF Representable
  <2> QED BY <1>1, <2>1, Zenon
<1>4. CASE v \in {0, 1} /\ Stored("SQL_SUCCESS", v)
  <2>1. Exact => Representable(cType, Number) /\ v = Number
    BY <1>1, <1>3, <1>4, Zenon
  <2> QED BY <1>1, <1>2, <1>4, <2>1, StoredOk
<1>5. CASE v \notin {0, 1} /\ OutOfRange
  BY <1>3, <1>5, OutOfRangeOk
<1> QED BY <1>4, <1>5, Zenon DEF WriteBit

LEMMA StepOk == IInv /\ [Next]_vars => IInv'
<1> SUFFICES ASSUME IInv, [Next]_vars PROVE IInv'
  OBVIOUS
<1>1. CASE UNCHANGED vars
  BY <1>1, Zenon DEF vars, IInv, TypeOK, CellOK, ReadOK, Exact, IsNumber, Number, NumbersExact, Told
<1> QED BY <1>1, ReadIntegerOk, ReadBooleanOk, ReadDoubleOk, RejectOk, WriteIntegerOk,
           WriteUnsignedIntegerOk, WriteLongOk, WriteBitOk, Zenon DEF Next

-----------------------------------------------------------------------------
(* Theorems *)

THEOREM Invariant == Spec => []IInv
<1>1. Init => IInv
  BY InitOk
<1>2. IInv /\ [Next]_vars => IInv'
  BY StepOk
<1> QED BY <1>1, <1>2, PTL DEF Spec

\* What integerFromCell reads is a long long and what writeInteger and
\* writeUnsignedInteger store is of the C type, for types of any width.
THEOREM TypeCorrect == Spec => []TypeOK
<1>1. IInv => TypeOK
  BY DEF IInv
<1> QED BY <1>1, Invariant, PTL

\* A number that a long long has, and a double if it is read through one, is
\* stored exactly if the C type has it and refused if not, for any widths and
\* any limit beyond those of a long long.
THEOREM ExactOrRefused == Spec => []NumbersExact
<1>1. IInv => NumbersExact
  BY DEF IInv
<1> QED BY <1>1, Invariant, PTL

-----------------------------------------------------------------------------
(* Timestamps: arithmetic *)

\* A quotient that is cut off, with a second borrowed for a remainder below
\* zero, rounds down: timestampFromEpochMillis.
LEMMA SplitRoundsDown ==
    ASSUME NEW ms \in Int
    PROVE  Seconds(ms) = ms \div 1000 /\ Rest(ms) = ms % 1000
<1>1. CASE ms >= 0
  BY <1>1, SMT DEF Seconds, Rest, Quotient, Remainder
<1>2. CASE ms < 0
  <2> DEFINE q == (-ms) \div 1000
             r == (-ms) % 1000
  <2>1. q \in Int /\ r \in Int /\ 0 <= r /\ r < 1000 /\ ms = -(1000 * q) - r
    BY SMT
  <2>2. Quotient(ms, 1000) = -q /\ Remainder(ms, 1000) = -r
    BY <1>2, <2>1, SMT DEF Quotient, Remainder
  <2>3. CASE r = 0
    BY <2>1, <2>2, <2>3, SMT DEF Seconds, Rest
  <2>4. CASE r > 0
    BY <2>1, <2>2, <2>4, SMT DEF Seconds, Rest
  <2> QED BY <2>1, <2>3, <2>4, SMT
<1> QED BY <1>1, <1>2, SMT

\* The day of a moment, and the part of the day that has passed.
LEMMA DayAndTime ==
    ASSUME NEW ms \in Int
    PROVE  /\ DayOf(Seconds(ms)) = ms \div 86400000
           /\ TimeOf(Seconds(ms)) \in [hour : Int, minute : Int, second : Int]
           /\ TimeOk(TimeOf(Seconds(ms)))
           /\ TimeOfDay(TimeOf(Seconds(ms))) * 1000 + Rest(ms) = ms % 86400000
           /\ Rest(ms) \in Int /\ 0 <= Rest(ms) /\ Rest(ms) < 1000
<1> DEFINE s == ms \div 1000
           r == ms % 1000
           d == s \div 86400
           p == s % 86400
<1>1. Seconds(ms) = s /\ Rest(ms) = r
  BY SplitRoundsDown, SMT
<1>2. s \in Int /\ r \in Int /\ 0 <= r /\ r < 1000 /\ ms = 1000 * s + r
  BY SMT
<1> HIDE DEF s, r
<1>3. d \in Int /\ p \in Int /\ 0 <= p /\ p < 86400 /\ s = 86400 * d + p
  BY <1>2, SMT
<1>4. s % 3600 = p % 3600 /\ s % 60 = p % 60
  BY <1>2, <1>3, SMT
<1> HIDE DEF d, p
<1>5. d = ms \div 86400000 /\ 1000 * p + r = ms % 86400000
  BY <1>2, <1>3, SMT
<1> DEFINE h == p \div 3600
           m == (p % 3600) \div 60
           c == p % 60
<1>6. /\ h \in Int /\ m \in Int /\ c \in Int
      /\ 0 <= h /\ h <= 23 /\ 0 <= m /\ m <= 59 /\ 0 <= c /\ c <= 59
      /\ (h * 60 + m) * 60 + c = p
  BY <1>3, SMT
<1>7. TimeOf(s) = [hour |-> h, minute |-> m, second |-> c]
  BY <1>4, SMT DEF TimeOf, p
<1>8. DayOf(s) = d
  BY SMT DEF DayOf, d
<1> HIDE DEF h, m, c
<1>9. /\ TimeOf(s) \in [hour : Int, minute : Int, second : Int] /\ TimeOk(TimeOf(s))
      /\ TimeOfDay(TimeOf(s)) = p
  BY <1>6, <1>7, SMT DEF TimeOk, NoneBelow, TimeOfDay
<1> QED BY <1>1, <1>2, <1>3, <1>5, <1>8, <1>9, SMT

-----------------------------------------------------------------------------
(* The inductive invariant *)

\* What has been read of the digits is less than the next power of ten, so
\* that nine digits stay below a second.
BelowPower(x, k) ==
    /\ k = 0 => x < 1
    /\ k = 1 => x < 10
    /\ k = 2 => x < 100
    /\ k = 3 => x < 1000
    /\ k = 4 => x < 10000
    /\ k = 5 => x < 100000
    /\ k = 6 => x < 1000000
    /\ k = 7 => x < 10000000
    /\ k = 8 => x < 100000000
    /\ k = 9 => x < 1000000000

TextOk(t) ==
    /\ t.date \in [year : Int, month : Int, day : Int]
    /\ t.time \in [hour : Int, minute : Int, second : Int] /\ t.form \in {"timestamp", "date"}
    /\ t.form = "date" => t.time = Midnight
    /\ Len(t.fraction) \in Nat
    /\ \A k \in 1..Len(t.fraction) : t.fraction[k] \in Nat /\ t.fraction[k] < 10

Reading ==
    /\ TextOk(text)
    /\ pos \in Nat /\ 1 <= pos
    /\ digits \in Nat /\ digits <= 9
    /\ value \in Nat /\ BelowPower(value, digits)

\* A cell in milliseconds is read as such, and its text only once the
\* application has its struct.
MillisFirst ==
    /\ stage = "millis" => answer.kind = "millis" /\ answer.ms \in Millis
    /\ answer.kind = "millis" /\ given = Nothing => stage \in {"millis", "made"}

StampInv ==
    /\ Reading
    /\ MillisFirst
    /\ stage \in {"digits", "pad", "made", "read"} => InRange(ts)
    /\ stage = "bound" \/ given # Nothing => InRange(given)
    /\ MomentKept

LEMMA InitReading == ASSUME StampInit PROVE TextOk(text)
<1> USE TimestampsAssumption
<1>1. CASE text = NoText
  <2>1. Len(text.fraction) = 0
    BY <1>1, SMT DEF NoText
  <2> QED BY <1>1, <2>1, SMT DEF NoText, TextOk, Nothing, Struct, Midnight
<1>2. CASE text \in [date : Dates, form : {"timestamp"}, time : Times, fraction : Fractions]
  <2>1. PICK k \in 0..MaxDigits : text.fraction \in [1..k -> Digits]
    BY <1>2, SMT DEF Fractions
  <2>2. text.fraction \in Seq(Digits) /\ Len(text.fraction) \in Nat
    BY <2>1, SMT
  <2>3. \A j \in 1..Len(text.fraction) : text.fraction[j] \in Nat /\ text.fraction[j] < 10
    BY <2>2, SMT DEF Digits
  <2>4. text.date \in Dates /\ text.time \in Times /\ text.form = "timestamp"
    BY <1>2, SMT
  <2> QED BY <2>2, <2>3, <2>4, SMT DEF TextOk
<1>3. CASE text \in [date : Dates, form : {"date"}, time : {Midnight}, fraction : {<<>>}]
  <2>1. Len(text.fraction) = 0
    BY <1>3, SMT
  <2> QED BY <1>3, <2>1, SMT DEF TextOk, Midnight
<1>4. text = NoText \/ text \in Texts
  BY SMT DEF StampInit
<1> QED BY <1>1, <1>2, <1>3, <1>4, SMT DEF Texts

LEMMA StampInitOk == StampInit => StampInv
<1> SUFFICES ASSUME StampInit PROVE StampInv
  OBVIOUS
<1>1. Reading
  BY InitReading, SMT DEF StampInit, Reading, BelowPower
<1>2. stage \in {"millis", "text"} /\ given = Nothing
  BY SMT DEF StampInit
<1>3. ASSUME NEW ms \in Millis, answer = [kind |-> "millis", ms |-> ms]
      PROVE  MillisFirst
  <2>1. answer.kind = "millis" /\ answer.ms = ms
    BY <1>3, SMT
  <2>2. stage = "millis"
    BY <2>1, SMT DEF StampInit
  <2> QED BY <2>1, <2>2, SMT DEF MillisFirst
<1>4. ASSUME NEW t \in Texts, answer = [kind |-> "text", text |-> t], stage = "text"
      PROVE  MillisFirst
  BY <1>4, SMT DEF MillisFirst
<1>5. MillisFirst
  BY <1>3, <1>4, SMT DEF StampInit
<1> QED BY <1>1, <1>2, <1>5, SMT DEF StampInv, MomentKept

\* SQLSMALLINT
LEMMA ShortInRange ==
    ASSUME NEW d, d \in [year : Int, month : Int, day : Int], DateOk(d)
    PROVE  DateInRange(ShortDate(d))
<1>1. Short(d.year) \in Int /\ -32768 <= Short(d.year) /\ Short(d.year) < 32768
  BY SMT DEF Short
<1>2. /\ ShortDate(d) \in [year : Int, month : Int, day : Int]
      /\ ShortDate(d).year = Short(d.year)
      /\ ShortDate(d).month = d.month /\ ShortDate(d).day = d.day
  BY <1>1, SMT DEF ShortDate
<1> QED BY <1>1, <1>2, SMT DEF DateInRange, DateOk

LEMMA NothingIsNone == ASSUME NEW s, InRange(s) PROVE s # Nothing
  BY SMT DEF InRange, DateInRange, DateOk, Nothing, Struct

LEMMA MillisKeepsMoment ==
    ASSUME StampInv, FromEpochMillis
    PROVE  InRange(ts') /\ MomentKept'
<1> DEFINE ms == answer.ms
           secs == Seconds(ms)
           date == Calendar(DayOf(secs))
<1>1. answer.kind = "millis" /\ ms \in Millis /\ ms \in Int /\ answer' = answer
  <2>1. MillisFirst /\ stage = "millis" /\ answer' = answer
    BY SMT DEF StampInv, FromEpochMillis
  <2>2. \A x \in Millis : x \in Int
    BY TimestampsAssumption, SMT
  <2>3. answer.kind = "millis" /\ answer.ms \in Millis
    BY <2>1, SMT DEF MillisFirst
  <2> QED BY <2>1, <2>2, <2>3, SMT
<1> HIDE DEF ms
<1>2. /\ DayOf(secs) = ms \div 86400000
      /\ TimeOf(secs) \in [hour : Int, minute : Int, second : Int] /\ TimeOk(TimeOf(secs))
      /\ TimeOfDay(TimeOf(secs)) * 1000 + Rest(ms) = ms % 86400000
      /\ Rest(ms) \in Int /\ 0 <= Rest(ms) /\ Rest(ms) < 1000
  BY <1>1, DayAndTime, SMT DEF secs
<1>3. date \in [year : Int, month : Int, day : Int] /\ DateOk(date)
  BY <1>1, <1>2, TimestampsAssumption, SMT DEF DateOk
<1>4. DateInRange(ShortDate(date))
  BY <1>3, ShortInRange, SMT
<1>5. ts' = Struct(ShortDate(date), TimeOf(secs), Rest(ms) * 1000000)
  BY SMT DEF FromEpochMillis, ms
<1> HIDE DEF secs, date
<1>6. /\ ts'.date = ShortDate(date) /\ ts'.time = TimeOf(secs)
      /\ ts'.fraction = Rest(ms) * 1000000
  BY <1>5, SMT DEF Struct
<1>7. ts' = Struct(ts'.date, ts'.time, ts'.fraction)
  BY <1>5, <1>6, SMT
<1>8. InRange(ts')
  BY <1>2, <1>4, <1>6, <1>7, SMT DEF InRange, TimeInRange, TimeOk, NoneBelow
<1>9. ts'.fraction \div 1000000 = Rest(ms) /\ ts'.fraction % 1000000 = 0
  BY <1>2, <1>6, SMT
<1> QED BY <1>1, <1>2, <1>6, <1>8, <1>9, SMT DEF MomentKept, ms, date

\* ThreeDigits of what formatTimestamp prints are digits.
LEMMA PrintedDigits ==
    ASSUME NEW f \in Nat, f < 1000000000
    PROVE  LET d == Printed(f \div 1000000) IN
           Len(d) = 3 /\ \A k \in 1..Len(d) : d[k] \in Nat /\ d[k] < 10
<1> DEFINE m == f \div 1000000
           a == m \div 100
           b == (m \div 10) % 10
           c == m % 10
<1>1. m \in Nat /\ m < 1000
  BY SMT
<1> HIDE DEF m
<1>2. a \in Nat /\ a < 10 /\ b \in Nat /\ b < 10 /\ c \in Nat /\ c < 10
  BY <1>1, SMT
<1>3. Printed(m) = <<a, b, c>>
  BY SMT DEF Printed, ThreeDigits
<1> HIDE DEF a, b, c
<1> QED BY <1>2, <1>3, SMT DEF m

LEMMA StampStepOk == StampInv /\ [StampNext]_stampVars => StampInv'
<1> SUFFICES ASSUME StampInv, [StampNext]_stampVars PROVE StampInv'
  OBVIOUS
<1> USE DEF StampInv
<1>1. CASE FromEpochMillis
  <2>1. InRange(ts') /\ MomentKept'
    BY <1>1, MillisKeepsMoment, SMT
  <2>2. Reading'
    BY <1>1, SMT DEF FromEpochMillis, Reading
  <2>3. MillisFirst' /\ stage' = "made" /\ (given' # Nothing => InRange(given'))
    BY <1>1, SMT DEF FromEpochMillis, MillisFirst
  <2> QED BY <2>1, <2>2, <2>3, SMT
<1>2. CASE Refuse
  BY <1>2, SMT DEF Refuse, Reading, MillisFirst, MomentKept
<1>3. CASE Fields
  <2>1. Reading'
    BY <1>3, SMT DEF Fields, Reading, BelowPower
  <2>2. MillisFirst' /\ stage' = "digits" /\ (given' # Nothing => InRange(given'))
    BY <1>3, SMT DEF Fields, MillisFirst
  <2>3. text.date \in [year : Int, month : Int, day : Int] /\ DateOk(text.date)
    BY <1>3, SMT DEF Fields, Reading, TextOk, Accepted
  <2>4. DateInRange(ShortDate(text.date))
    BY <2>3, ShortInRange, SMT
  <2>5. text.time \in [hour : Int, minute : Int, second : Int] /\ TimeOk(text.time)
    BY <1>3, SMT DEF Fields, Reading, TextOk, Accepted, Midnight, TimeOk, NoneBelow
  <2>6. ts' = Struct(ShortDate(text.date), text.time, 0)
    BY <1>3, SMT DEF Fields
  <2>7. InRange(ts')
    BY <2>4, <2>5, <2>6, SMT DEF InRange, Struct, TimeInRange, TimeOk, NoneBelow
  <2> QED BY <2>1, <2>2, <2>7, SMT DEF MomentKept
<1>4. CASE ReadDigit
  <2>1. text.fraction[pos] \in Nat /\ text.fraction[pos] < 10
    BY <1>4, SMT DEF ReadDigit, Reading, TextOk
  <2>2. BelowPower(value', digits')
    BY <1>4, <2>1, SMT DEF ReadDigit, Reading, BelowPower, FewerThanNine
  <2>3. Reading'
    BY <1>4, <2>1, <2>2, SMT DEF ReadDigit, Reading, FewerThanNine
  <2> QED BY <1>4, <2>3, SMT DEF ReadDigit, MillisFirst, MomentKept
<1>5. CASE DigitsRead
  BY <1>5, SMT DEF DigitsRead, Reading, TextOk, MillisFirst, MomentKept
<1>6. CASE Pad
  <2>1. BelowPower(value', digits')
    BY <1>6, SMT DEF Pad, Reading, BelowPower, FewerThanNine
  <2>2. Reading'
    BY <1>6, <2>1, SMT DEF Pad, Reading, FewerThanNine
  <2> QED BY <1>6, <2>2, SMT DEF Pad, MillisFirst, MomentKept
<1>7. CASE Padded
  <2>1. value \in Nat /\ value < 1000000000
    BY <1>7, SMT DEF Padded, Reading, BelowPower, FewerThanNine
  <2>2. ts' = [ts EXCEPT !.fraction = value] /\ InRange(ts)
    BY <1>7, SMT DEF Padded
  <2>3. InRange(ts')
    BY <2>1, <2>2, SMT DEF InRange, Struct, TimeInRange, TimeOk, NoneBelow
  <2>4. Reading'
    BY <1>7, SMT DEF Padded, Reading
  <2>5. MillisFirst' /\ stage' \in {"made", "read"} /\ (given' # Nothing => InRange(given'))
    BY <1>7, SMT DEF Padded, MillisFirst
  <2>6. stage' = "made" => answer'.kind # "millis"
    BY <1>7, SMT DEF Padded, MillisFirst
  <2> QED BY <2>3, <2>4, <2>5, <2>6, SMT DEF MomentKept
<1>8. CASE Deliver
  <2>1. InRange(given') /\ stage' = "bound"
    BY <1>8, SMT DEF Deliver
  <2>2. given' # Nothing
    BY <2>1, NothingIsNone, SMT
  <2> QED BY <1>8, <2>1, <2>2, SMT DEF Deliver, Reading, MillisFirst, MomentKept
<1>9. CASE FormatTimestamp
  <2>1. InRange(given) /\ given # Nothing
    BY <1>9, NothingIsNone, SMT DEF FormatTimestamp
  <2>2. text'.fraction = <<>> \/ text'.fraction = Printed(given.fraction \div 1000000)
    BY <1>9, SMT DEF FormatTimestamp
  <2>3. /\ Len(text'.fraction) \in Nat
        /\ \A k \in 1..Len(text'.fraction) : text'.fraction[k] \in Nat /\ text'.fraction[k] < 10
    <3>1. CASE text'.fraction = <<>>
      BY <3>1, SMT
    <3>2. CASE text'.fraction = Printed(given.fraction \div 1000000)
      <4>1. given.fraction \in Nat /\ given.fraction < 1000000000
        BY <2>1, SMT DEF InRange
      <4> QED BY <3>2, <4>1, PrintedDigits, SMT
    <3> QED BY <2>2, <3>1, <3>2
  <2>4. text'.date = given.date /\ text'.time = given.time /\ text'.form = "timestamp"
    BY <1>9, SMT DEF FormatTimestamp
  <2>5. TextOk(text')
    BY <2>1, <2>3, <2>4, SMT DEF TextOk, InRange, DateInRange, TimeInRange
  <2>6. Reading'
    BY <1>9, <2>5, SMT DEF FormatTimestamp, Reading
  <2> QED BY <1>9, <2>1, <2>6, SMT DEF FormatTimestamp, MillisFirst, MomentKept
<1>10. CASE UNCHANGED stampVars
  BY <1>10, SMT DEF stampVars, Reading, MillisFirst, MomentKept
<1> QED BY <1>1, <1>2, <1>3, <1>4, <1>5, <1>6, <1>7, <1>8, <1>9, <1>10, SMT DEF StampNext

-----------------------------------------------------------------------------
(* Theorems *)

THEOREM StampInvariant == StampSpec => []StampInv
<1>1. StampInit => StampInv
  BY StampInitOk
<1>2. StampInv /\ [StampNext]_stampVars => StampInv'
  BY StampStepOk
<1> QED BY <1>1, <1>2, PTL DEF StampSpec

\* Whatever the milliseconds, the text and its digits, the application gets a
\* struct whose fields are in the ranges of SQL: convertCell's
\* SQL_C_TYPE_TIMESTAMP.
THEOREM StampTypeCorrect == StampSpec => []StampTypeOK
<1>1. StampInv => StampTypeOK
  BY SMT DEF StampInv, Reading, StampTypeOK
<1> QED BY <1>1, StampInvariant, PTL

\* Milliseconds before and after 1970 become the moment they count:
\* timestampFromEpochMillis.
THEOREM MomentIsKept == StampSpec => []MomentKept
<1>1. StampInv => MomentKept
  BY DEF StampInv
<1> QED BY <1>1, StampInvariant, PTL

-----------------------------------------------------------------------------
(* Fractions *)

\* What Nanoseconds adds up, digit by digit.
Sums(f) ==
    LET sum[k \in 0..9] ==
            IF k = 0 THEN 0 ELSE sum[k - 1] + (IF k <= Len(f) THEN f[k] * Powers[k] ELSE 0)
    IN  sum

DigitsOk(f) == Len(f) \in Nat /\ \A k \in 1..Len(f) : f[k] \in Nat /\ f[k] < 10

LEMMA SumRules ==
    ASSUME NEW f, DigitsOk(f)
    PROVE  /\ Sums(f) \in [0..9 -> Int] /\ Sums(f)[0] = 0
           /\ \A k \in 1..9 : Sums(f)[k] = Sums(f)[k - 1]
                                + (IF k <= Len(f) THEN f[k] * Powers[k] ELSE 0)
<1> DEFINE Add(k) == IF k <= Len(f) THEN f[k] * Powers[k] ELSE 0
           G == [x \in Int \X (1..9) |-> x[1] + Add(x[2])]
           S == Sums(f)
<1>1. \A k \in 1..9 : Add(k) \in Int
  <2> SUFFICES ASSUME NEW k \in 1..9, k <= Len(f) PROVE f[k] * Powers[k] \in Int
    OBVIOUS
  <2>1. f[k] \in Int
    BY DEF DigitsOk
  <2>2. Powers[k] \in Int
    BY DEF Powers
  <2> QED BY <2>1, <2>2
<1> HIDE DEF Add
<1>2. \A k \in 1..9, x \in Int : G[<<x, k>>] = x + Add(k)
  OBVIOUS
<1> HIDE DEF G, S
<1>3. Steps(9, Int, G)
  BY <1>1, <1>2 DEF Steps
<1>4. \E g \in [0..9 -> Int] : Chained(g, 9, 0, G)
  <2>1. 9 \in Nat /\ 0 \in Int
    OBVIOUS
  <2> QED BY <1>3, <2>1, Chain, Zenon
<1>5. PICK g \in [0..9 -> Int] : g = [k \in 0..9 |-> IF k = 0 THEN 0 ELSE G[<<g[k - 1], k>>]]
  BY <1>4 DEF Chained
<1>6. \A k \in 0..9 : k # 0 => k \in 1..9 /\ k - 1 \in 0..9
  OBVIOUS
<1>7. g = [k \in 0..9 |-> IF k = 0 THEN 0 ELSE g[k - 1] + Add(k)]
  <2>1. \A k \in 0..9 : (IF k = 0 THEN 0 ELSE G[<<g[k - 1], k>>])
                        = IF k = 0 THEN 0 ELSE g[k - 1] + Add(k)
    BY <1>2, <1>6
  <2> QED BY <1>5, <2>1
<1>8. S = [k \in 0..9 |-> IF k = 0 THEN 0 ELSE S[k - 1] + Add(k)]
  BY <1>7, Zenon DEF S, Sums, Add
<1>9. S[0] = 0 /\ \A k \in 1..9 : S[k] = S[k - 1] + Add(k)
  <2> DEFINE h == [k \in 0..9 |-> IF k = 0 THEN 0 ELSE S[k - 1] + Add(k)]
  <2>1. h[0] = 0 /\ \A k \in 1..9 : h[k] = S[k - 1] + Add(k)
    OBVIOUS
  <2> HIDE DEF h
  <2> QED BY <1>8, <2>1 DEF h
<1>10. \A k \in 0..9 : S[k] \in Int
  <2>0. S[0] \in Int
    BY <1>9
  <2>1. S[1] \in Int
    BY <1>1, <1>9, <2>0
  <2>2. S[2] \in Int
    BY <1>1, <1>9, <2>1
  <2>3. S[3] \in Int
    BY <1>1, <1>9, <2>2
  <2>4. S[4] \in Int
    BY <1>1, <1>9, <2>3
  <2>5. S[5] \in Int
    BY <1>1, <1>9, <2>4
  <2>6. S[6] \in Int
    BY <1>1, <1>9, <2>5
  <2>7. S[7] \in Int
    BY <1>1, <1>9, <2>6
  <2>8. S[8] \in Int
    BY <1>1, <1>9, <2>7
  <2>9. S[9] \in Int
    BY <1>1, <1>9, <2>8
  <2> QED BY <2>0, <2>1, <2>2, <2>3, <2>4, <2>5, <2>6, <2>7, <2>8, <2>9
<1>11. S \in [0..9 -> Int]
  <2>1. S = [k \in 0..9 |-> S[k]]
    <3> DEFINE h == [k \in 0..9 |-> IF k = 0 THEN 0 ELSE S[k - 1] + Add(k)]
    <3>1. h = [k \in 0..9 |-> h[k]]
      OBVIOUS
    <3> HIDE DEF h
    <3> QED BY <1>8, <3>1 DEF h
  <2> QED BY <1>10, <2>1
<1> QED BY <1>9, <1>11 DEF S, Add

\* A number of k digits, with nine places, is s.
Scaled(x, k, s) ==
    /\ k = 0 => x * 1000000000 = s
    /\ k = 1 => x * 100000000 = s
    /\ k = 2 => x * 10000000 = s
    /\ k = 3 => x * 1000000 = s
    /\ k = 4 => x * 100000 = s
    /\ k = 5 => x * 10000 = s
    /\ k = 6 => x * 1000 = s
    /\ k = 7 => x * 100 = s
    /\ k = 8 => x * 10 = s
    /\ k = 9 => x = s

LEMMA PowersAre ==
    /\ Powers[1] = 100000000 /\ Powers[2] = 10000000 /\ Powers[3] = 1000000
    /\ Powers[4] = 100000 /\ Powers[5] = 10000 /\ Powers[6] = 1000
    /\ Powers[7] = 100 /\ Powers[8] = 10 /\ Powers[9] = 1
  BY DEF Powers

\* A digit more, or a zero where there is none.
LEMMA OneDigitMore ==
    ASSUME NEW f, DigitsOk(f), NEW k \in 0..8, NEW x \in Nat, Scaled(x, k, Sums(f)[k])
    PROVE  /\ k + 1 <= Len(f) => Scaled(x * 10 + f[k + 1], k + 1, Sums(f)[k + 1])
           /\ k + 1 > Len(f) => Scaled(x * 10, k + 1, Sums(f)[k + 1])
<1> DEFINE S == Sums(f)
<1>1. Len(f) \in Nat /\ S \in [0..9 -> Int]
  BY SumRules DEF DigitsOk
<1>2. k + 1 \in 1..9 /\ (k + 1) - 1 = k
  OBVIOUS
<1>3. S[k + 1] = S[k] + (IF k + 1 <= Len(f) THEN f[k + 1] * Powers[k + 1] ELSE 0)
  BY <1>2, SumRules
<1>6. Scaled(x, k, S[k])
  OBVIOUS
<1> HIDE DEF S
<1>4. S[k] \in Int /\ S[k + 1] \in Int
  <2>1. k \in 0..9 /\ k + 1 \in 0..9
    OBVIOUS
  <2> QED BY <1>1, <2>1
<1>5. k + 1 <= Len(f) => f[k + 1] \in Int
  <2>1. k + 1 <= Len(f) => k + 1 \in 1..Len(f)
    BY <1>1, <1>2
  <2>2. \A j \in 1..Len(f) : f[j] \in Int
    BY DEF DigitsOk
  <2> QED BY <2>1, <2>2
<1>7. ASSUME k + 1 <= Len(f) PROVE Scaled(x * 10 + f[k + 1], k + 1, S[k + 1])
  <2> DEFINE d == f[k + 1]
             s == S[k + 1]
             P == Powers[k + 1]
  <2>1. d \in Int /\ s = S[k] + d * P
    BY <1>3, <1>5, <1>7
  <2>2. P \in Int
    BY PowersAre, <1>2
  <2> HIDE DEF d, s, P
  <2>k0. CASE k = 0
    <3>1. P = 100000000 /\ k + 1 = 1
      BY <2>k0, PowersAre DEF P
    <3>2. d * P = 100000000 * d
      BY <2>1, <3>1
    <3> QED BY <1>4, <1>6, <2>k0, <2>1, <3>1, <3>2 DEF Scaled, d, s
  <2>k1. CASE k = 1
    <3>1. P = 10000000 /\ k + 1 = 2
      BY <2>k1, PowersAre DEF P
    <3>2. d * P = 10000000 * d
      BY <2>1, <3>1
    <3> QED BY <1>4, <1>6, <2>k1, <2>1, <3>1, <3>2 DEF Scaled, d, s
  <2>k2. CASE k = 2
    <3>1. P = 1000000 /\ k + 1 = 3
      BY <2>k2, PowersAre DEF P
    <3>2. d * P = 1000000 * d
      BY <2>1, <3>1
    <3> QED BY <1>4, <1>6, <2>k2, <2>1, <3>1, <3>2 DEF Scaled, d, s
  <2>k3. CASE k = 3
    <3>1. P = 100000 /\ k + 1 = 4
      BY <2>k3, PowersAre DEF P
    <3>2. d * P = 100000 * d
      BY <2>1, <3>1
    <3> QED BY <1>4, <1>6, <2>k3, <2>1, <3>1, <3>2 DEF Scaled, d, s
  <2>k4. CASE k = 4
    <3>1. P = 10000 /\ k + 1 = 5
      BY <2>k4, PowersAre DEF P
    <3>2. d * P = 10000 * d
      BY <2>1, <3>1
    <3> QED BY <1>4, <1>6, <2>k4, <2>1, <3>1, <3>2 DEF Scaled, d, s
  <2>k5. CASE k = 5
    <3>1. P = 1000 /\ k + 1 = 6
      BY <2>k5, PowersAre DEF P
    <3>2. d * P = 1000 * d
      BY <2>1, <3>1
    <3> QED BY <1>4, <1>6, <2>k5, <2>1, <3>1, <3>2 DEF Scaled, d, s
  <2>k6. CASE k = 6
    <3>1. P = 100 /\ k + 1 = 7
      BY <2>k6, PowersAre DEF P
    <3>2. d * P = 100 * d
      BY <2>1, <3>1
    <3> QED BY <1>4, <1>6, <2>k6, <2>1, <3>1, <3>2 DEF Scaled, d, s
  <2>k7. CASE k = 7
    <3>1. P = 10 /\ k + 1 = 8
      BY <2>k7, PowersAre DEF P
    <3>2. d * P = 10 * d
      BY <2>1, <3>1
    <3> QED BY <1>4, <1>6, <2>k7, <2>1, <3>1, <3>2 DEF Scaled, d, s
  <2>k8. CASE k = 8
    <3>1. P = 1 /\ k + 1 = 9
      BY <2>k8, PowersAre DEF P
    <3>2. d * P = 1 * d
      BY <2>1, <3>1
    <3> QED BY <1>4, <1>6, <2>k8, <2>1, <3>1, <3>2 DEF Scaled, d, s
  <2> QED BY <2>k0, <2>k1, <2>k2, <2>k3, <2>k4, <2>k5, <2>k6, <2>k7, <2>k8
<1>8. ASSUME k + 1 > Len(f) PROVE Scaled(x * 10, k + 1, S[k + 1])
  <2>1. S[k + 1] = S[k]
    <3>1. ~(k + 1 <= Len(f))
      BY <1>1, <1>8
    <3> QED BY <1>3, <1>4, <3>1
  <2> QED BY <1>4, <1>6, <2>1 DEF Scaled
<1> QED BY <1>7, <1>8 DEF S

\* The first nine digits of a fraction are all that Nanoseconds reads.
LEMMA SumOfAll ==
    ASSUME NEW f, DigitsOk(f), NEW x \in Nat, Scaled(x, 9, Sums(f)[9])
    PROVE  x = Nanoseconds(f)
<1>1. Nanoseconds(f) = Sums(f)[9]
  BY DEF Nanoseconds, Sums
<1> QED BY <1>1 DEF Scaled

\* What formatTimestamp prints is the milliseconds of the struct.
LEMMA PrintedMeans ==
    ASSUME NEW m \in Nat, m < 1000
    PROVE  /\ DigitsOk(Printed(m)) /\ Nanoseconds(Printed(m)) = m * 1000000
           /\ DigitsOk(<<>>) /\ Nanoseconds(<<>>) = 0
<1> DEFINE a == m \div 100
           b == (m \div 10) % 10
           c == m % 10
           f == Printed(m)
<1>1. a \in Nat /\ a < 10 /\ b \in Nat /\ b < 10 /\ c \in Nat /\ c < 10 /\ m = 100 * a + 10 * b + c
  BY SMT
<1>2. f = <<a, b, c>>
  BY SMT DEF Printed, ThreeDigits
<1>z. DigitsOk(<<>>)
  BY DEF DigitsOk
<1> HIDE DEF a, b, c, f
<1>3. Len(f) = 3 /\ f[1] = a /\ f[2] = b /\ f[3] = c
  BY <1>2
<1>4. DigitsOk(f)
  BY <1>1, <1>3 DEF DigitsOk
<1>5. Nanoseconds(f) = m * 1000000
  <2> DEFINE S == Sums(f)
  <2>1. S[0] = 0 /\ \A k \in 1..9 : S[k] = S[k - 1] + (IF k <= Len(f) THEN f[k] * Powers[k] ELSE 0)
    BY <1>4, SumRules
  <2> HIDE DEF S
  <2>2. S[1] = a * 100000000
    BY <1>1, <1>3, <2>1, PowersAre
  <2>3. S[2] = S[1] + b * 10000000
    BY <1>1, <1>3, <2>1, PowersAre
  <2>4. S[3] = S[2] + c * 1000000
    BY <1>1, <1>3, <2>1, PowersAre
  <2>5. S[3] = m * 1000000
    BY <1>1, <2>2, <2>3, <2>4
  <2>6. \A k \in 4..9 : S[k] = S[k - 1] + 0
    BY <1>3, <2>1
  <2>7. S[4] = S[3] + 0 /\ S[5] = S[4] + 0 /\ S[6] = S[5] + 0 /\ S[7] = S[6] + 0
        /\ S[8] = S[7] + 0 /\ S[9] = S[8] + 0
    BY <2>6
  <2>8. S[9] = m * 1000000
    BY <2>5, <2>7
  <2> QED BY <2>8 DEF Nanoseconds, Sums, S
<1>6. Nanoseconds(<<>>) = 0
  <2> DEFINE S == Sums(<<>>)
  <2>1. S[0] = 0 /\ \A k \in 1..9 : S[k] = S[k - 1] + (IF k <= Len(<<>>) THEN <<>>[k] * Powers[k] ELSE 0)
    BY <1>z, SumRules
  <2> HIDE DEF S
  <2>6. \A k \in 1..9 : S[k] = S[k - 1] + 0
    <3>1. \A k \in 1..9 : ~(k <= Len(<<>>))
      OBVIOUS
    <3> QED BY <2>1, <3>1
  <2>7. S[1] = S[0] + 0 /\ S[2] = S[1] + 0 /\ S[3] = S[2] + 0
        /\ S[4] = S[3] + 0 /\ S[5] = S[4] + 0 /\ S[6] = S[5] + 0 /\ S[7] = S[6] + 0
        /\ S[8] = S[7] + 0 /\ S[9] = S[8] + 0
    BY <2>6
  <2>8. S[9] = 0
    BY <2>1, <2>7
  <2> QED BY <2>8 DEF Nanoseconds, Sums, S
<1> QED BY <1>4, <1>5, <1>z, <1>6 DEF f

-----------------------------------------------------------------------------
(* The literal *)

Printable(g) == g.fraction \div 1000000
Literal(t, g) ==
    /\ t.date = g.date /\ t.time = g.time /\ t.form = "timestamp"
    /\ t.fraction = IF Printable(g) > 0 THEN Printed(Printable(g)) ELSE <<>>

\* LiteralNamesMoment, with the struct that is read back in full.
ToMillis(g) == Struct(g.date, g.time, g.fraction - (g.fraction % 1000000))
Named ==
    /\ answer.kind = "text" /\ stage = "made" =>
           ts.fraction = Nanoseconds(answer.text.fraction)
    /\ stage = "read" => ts = ToMillis(given)
    /\ stage = "refused" => given = Nothing

LEMMA NamedIs == ASSUME StampInv, Named, stage = "read" => given # Nothing PROVE LiteralNamesMoment
<1>1. stage = "read" => given = Struct(given.date, given.time, given.fraction)
  BY SMT DEF StampInv, InRange
<1> DEFINE Cut(g) == [g EXCEPT !.fraction = g.fraction - (g.fraction % 1000000)]
<1>2. ASSUME NEW g, g = Struct(g.date, g.time, g.fraction)
      PROVE  Cut(g) = ToMillis(g)
  <2> DEFINE D == g.date
             T == g.time
             F == g.fraction
  <2>1. g = Struct(D, T, F)
    BY <1>2
  <2> HIDE DEF D, T, F, Cut
  <2>2. \A x : [Struct(D, T, F) EXCEPT !.fraction = x] = Struct(D, T, x)
    BY SMT DEF Struct
  <2> QED BY <2>1, <2>2, SMT DEF D, T, F, Cut, ToMillis
<1> HIDE DEF Cut
<1>3. stage = "read" => ts = Cut(given)
  BY <1>1, <1>2 DEF Named
<1> QED BY <1>3, SMT DEF Named, LiteralNamesMoment, Cut

\* What is read first is the cell, and then the literal; the digits that have
\* been read are the first ones of the fraction.
LiteralInv ==
    /\ stage \in {"millis", "text", "digits", "pad", "made", "bound", "read", "refused"}
    /\ stage \in {"digits", "pad"} => Scaled(value, digits, Sums(text.fraction)[digits])
    /\ stage = "digits" => pos = digits + 1
    /\ stage = "pad" => digits = 9 \/ digits >= Len(text.fraction)
    /\ stage \in {"millis", "made"} => given = Nothing
    /\ stage = "read" => given # Nothing
    /\ answer.kind = "text" /\ given = Nothing => text = answer.text
    /\ given # Nothing /\ stage \in {"text", "digits", "pad"} => Literal(text, given)
    /\ given # Nothing /\ stage \in {"digits", "pad"} => ts = Struct(given.date, given.time, 0)
    /\ Named

LEMMA LiteralInitOk == StampInit => LiteralInv
<1> SUFFICES ASSUME StampInit PROVE LiteralInv
  OBVIOUS
<1>1. stage \in {"millis", "text"} /\ given = Nothing
  BY DEF StampInit
<1>2. answer.kind = "text" => text = answer.text
  BY DEF StampInit
<1> QED BY <1>1, <1>2 DEF LiteralInv, Named

\* A year that is in range already stays, with the rest of its date.
LEMMA ShortDateKeeps == ASSUME NEW d, DateInRange(d) PROVE ShortDate(d) = d
<1>1. Short(d.year) = d.year
  BY DEF DateInRange, Short
<1> QED BY <1>1 DEF DateInRange, ShortDate

LEMMA RangeAccepted ==
    ASSUME NEW t, NEW g, InRange(g), Literal(t, g)
    PROVE  DateOk(t.date) /\ TimeOk(t.time) /\ ShortDate(t.date) = g.date
<1>1. DateInRange(g.date) /\ TimeInRange(g.time) /\ t.date = g.date /\ t.time = g.time
  BY DEF InRange, Literal
<1>2. DateOk(g.date)
  BY <1>1 DEF DateInRange, DateOk
<1>3. TimeOk(g.time)
  BY <1>1 DEF TimeInRange, TimeOk, NoneBelow
<1>4. ShortDate(g.date) = g.date
  BY <1>1, ShortDateKeeps
<1> QED BY <1>1, <1>2, <1>3, <1>4

LEMMA LiteralStepOk == StampInv /\ StampInv' /\ LiteralInv /\ [StampNext]_stampVars => LiteralInv'
<1> SUFFICES ASSUME StampInv, StampInv', LiteralInv, [StampNext]_stampVars PROVE LiteralInv'
  OBVIOUS
<1>r. Reading /\ MillisFirst /\ TextOk(text)
  BY DEF StampInv, Reading
<1>d. DigitsOk(text.fraction)
  BY <1>r DEF TextOk, DigitsOk
<1>v. value \in Nat /\ digits \in Nat /\ digits <= 9
  BY <1>r DEF Reading
<1>g. given # Nothing => InRange(given)
  BY DEF StampInv
<1>1. CASE FromEpochMillis
  <2>1. answer.kind = "millis" /\ answer' = answer /\ stage = "millis" /\ stage' = "made" /\ given' = given
    BY <1>1, <1>r DEF FromEpochMillis, MillisFirst
  <2>2. given = Nothing
    BY <2>1 DEF LiteralInv
  <2> QED BY <2>1, <2>2 DEF LiteralInv, Named
<1>2. CASE Refuse
  <2>1. given = Nothing
    <3> SUFFICES ASSUME given # Nothing PROVE FALSE
      OBVIOUS
    <3>1. stage = "text" /\ ~Accepted
      BY <1>2 DEF Refuse
    <3>2. Literal(text, given)
      BY <3>1 DEF LiteralInv
    <3> QED BY <1>g, <3>1, <3>2, RangeAccepted DEF Accepted
  <2> QED BY <1>2, <2>1 DEF Refuse, LiteralInv, Named
<1>3. CASE Fields
  <2>1. /\ stage = "text" /\ stage' = "digits" /\ UNCHANGED <<answer, text, given>>
        /\ pos' = 1 /\ digits' = 0 /\ value' = 0
        /\ ts' = Struct(ShortDate(text.date), text.time, 0)
    BY <1>3 DEF Fields
  <2>2. Scaled(value', digits', Sums(text'.fraction)[digits'])
    <3>1. Sums(text.fraction)[0] = 0
      BY <1>d, SumRules
    <3> QED BY <2>1, <3>1 DEF Scaled
  <2>3. given # Nothing => Literal(text, given)
    BY <2>1 DEF LiteralInv
  <2>4. given # Nothing => ts' = Struct(given.date, given.time, 0)
    <3>1. given # Nothing => ShortDate(text.date) = given.date /\ text.time = given.time
      BY <1>g, <2>3, RangeAccepted DEF Literal
    <3> QED BY <2>1, <3>1
  <2>5. answer.kind = "text" /\ given = Nothing => text = answer.text
    BY DEF LiteralInv
  <2> QED BY <2>1, <2>2, <2>3, <2>4, <2>5 DEF LiteralInv, Named
<1>4. CASE ReadDigit
  <2>1. /\ stage = "digits" /\ digits < 9 /\ pos <= Len(text.fraction) /\ pos' = pos + 1
        /\ value' = value * 10 + text.fraction[pos] /\ digits' = digits + 1
        /\ UNCHANGED <<answer, text, ts, given, stage>>
    BY <1>4 DEF ReadDigit, FewerThanNine
  <2>2. pos = digits + 1 /\ Scaled(value, digits, Sums(text.fraction)[digits])
    BY <2>1 DEF LiteralInv
  <2>3. Scaled(value', digits', Sums(text'.fraction)[digits'])
    <3>0. digits < 9
      BY <2>1
    <3>1. digits \in 0..8
      BY <1>v, <3>0
    <3>2. Scaled(value * 10 + text.fraction[digits + 1], digits + 1, Sums(text.fraction)[digits + 1])
      BY <1>d, <1>v, <2>1, <2>2, <3>1, OneDigitMore
    <3> QED BY <2>1, <2>2, <3>2
  <2> QED BY <2>1, <2>2, <2>3 DEF LiteralInv, Named
<1>5. CASE DigitsRead
  <2>1. /\ stage = "digits" /\ (pos > Len(text.fraction) \/ ~(digits < 9)) /\ stage' = "pad"
        /\ UNCHANGED <<answer, text, digits, value, ts, given>>
    BY <1>5 DEF DigitsRead, FewerThanNine
  <2>2. pos = digits + 1 /\ Scaled(value, digits, Sums(text.fraction)[digits])
    BY <2>1 DEF LiteralInv
  <2>3. digits = 9 \/ digits >= Len(text.fraction)
    <3>1. Len(text.fraction) \in Nat
      BY <1>d DEF DigitsOk
    <3> QED BY <1>v, <2>1, <2>2, <3>1
  <2> QED BY <2>1, <2>2, <2>3 DEF LiteralInv, Named
<1>6. CASE Pad
  <2>1. /\ stage = "pad" /\ digits < 9 /\ value' = value * 10 /\ digits' = digits + 1
        /\ UNCHANGED <<answer, text, pos, ts, given, stage>>
    BY <1>6 DEF Pad, FewerThanNine
  <2>2. digits >= Len(text.fraction) /\ Scaled(value, digits, Sums(text.fraction)[digits])
    BY <1>v, <2>1 DEF LiteralInv
  <2>3. Len(text.fraction) \in Nat
    BY <1>d DEF DigitsOk
  <2>4. Scaled(value', digits', Sums(text'.fraction)[digits'])
    <3>1. digits \in 0..8 /\ digits + 1 > Len(text.fraction)
      BY <1>v, <2>1, <2>2, <2>3
    <3>2. Scaled(value * 10, digits + 1, Sums(text.fraction)[digits + 1])
      BY <1>d, <1>v, <2>2, <3>1, OneDigitMore
    <3> QED BY <2>1, <3>2
  <2>5. digits + 1 >= Len(text.fraction)
    BY <1>v, <2>2, <2>3
  <2> QED BY <2>1, <2>4, <2>5 DEF LiteralInv, Named
<1>7. CASE Padded
  <2>1. /\ stage = "pad" /\ ~(digits < 9) /\ ts' = [ts EXCEPT !.fraction = value]
        /\ stage' = (IF given = Nothing THEN "made" ELSE "read")
        /\ UNCHANGED <<answer, text, pos, digits, value, given>>
    BY <1>7 DEF Padded, FewerThanNine
  <2>2. digits = 9
    BY <1>v, <2>1
  <2>3. value = Nanoseconds(text.fraction)
    <3>1. Scaled(value, 9, Sums(text.fraction)[9])
      BY <2>1, <2>2 DEF LiteralInv
    <3> QED BY <1>d, <1>v, <3>1, SumOfAll
  <2>4. CASE given = Nothing
    <3>1. ts'.fraction = value
      <4>1. ts = Struct(ts.date, ts.time, ts.fraction)
        BY <2>1 DEF StampInv, InRange
      <4> QED BY <2>1, <4>1 DEF Struct
    <3>2. answer.kind = "text" => text = answer.text
      BY <2>4 DEF LiteralInv
    <3>3. answer.kind = "text" => ts'.fraction = Nanoseconds(answer.text.fraction)
      BY <2>3, <3>1, <3>2
    <3> QED BY <2>1, <2>4, <3>2, <3>3 DEF LiteralInv, Named
  <2>5. CASE given # Nothing
    <3>1. ts = Struct(given.date, given.time, 0) /\ Literal(text, given)
      BY <2>1, <2>5 DEF LiteralInv
    <3>2. InRange(given)
      BY <1>g, <2>5
    <3>3. given.fraction \in Nat /\ given.fraction < 1000000000 /\ given = Struct(given.date, given.time, given.fraction)
      BY <3>2 DEF InRange
    <3>4. Printable(given) \in Nat /\ Printable(given) < 1000
          /\ Printable(given) * 1000000 = given.fraction - (given.fraction % 1000000)
      BY <3>3 DEF Printable
    <3>5. value = Printable(given) * 1000000
      <4>1. CASE Printable(given) > 0
        BY <2>3, <3>1, <3>4, <4>1, PrintedMeans DEF Literal
      <4>2. CASE ~(Printable(given) > 0)
        <5>1. Printable(given) = 0 /\ text.fraction = <<>>
          BY <3>1, <3>4, <4>2 DEF Literal
        <5> QED BY <2>3, <3>4, <5>1, PrintedMeans
      <4> QED BY <4>1, <4>2
    <3>6. ts' = Struct(given.date, given.time, value)
      BY <2>1, <3>1 DEF Struct
    <3>8. ts' = ToMillis(given)
      BY <3>4, <3>5, <3>6, SMT DEF ToMillis
    <3>9. stage' = "read" /\ given' = given
      BY <2>1, <2>5
    <3> QED BY <2>5, <3>8, <3>9 DEF LiteralInv, Named
  <2> QED BY <2>4, <2>5
<1>8. CASE Deliver
  <2>1. stage = "made" /\ stage' = "bound" /\ given' = ts /\ UNCHANGED <<answer, text, pos, digits, value, ts>>
    BY <1>8 DEF Deliver
  <2>2. given' # Nothing
    BY <2>1, NothingIsNone DEF StampInv
  <2> QED BY <2>1, <2>2 DEF LiteralInv, Named
<1>9. CASE FormatTimestamp
  <2>1. /\ stage = "bound" /\ stage' = "text" /\ UNCHANGED <<answer, pos, digits, value, given>>
        /\ text' = [date |-> given.date, form |-> "timestamp", time |-> given.time,
                    fraction |-> IF Printable(given) > 0 THEN Printed(Printable(given)) ELSE <<>>]
    BY <1>9 DEF FormatTimestamp, Printable
  <2>2. Literal(text', given) /\ given # Nothing
    BY <2>1, NothingIsNone DEF Literal, StampInv
  <2> QED BY <2>1, <2>2 DEF LiteralInv, Named
<1>10. CASE UNCHANGED stampVars
  BY <1>10, Zenon DEF stampVars, LiteralInv, Named, Literal
<1> QED BY <1>1, <1>2, <1>3, <1>4, <1>5, <1>6, <1>7, <1>8, <1>9, <1>10 DEF StampNext

\* Every text of a timestamp becomes the fraction its first nine digits name;
\* and the literal that formatTimestamp makes of a struct the driver gave out
\* is accepted, and read back as the same moment to the millisecond.
THEOREM LiteralIsMoment == StampSpec => []LiteralNamesMoment
<1>1. StampInit => LiteralInv
  BY LiteralInitOk
<1>2. StampInv /\ StampInv' /\ LiteralInv /\ [StampNext]_stampVars => LiteralInv'
  BY LiteralStepOk
<1>3. StampInv /\ LiteralInv => LiteralNamesMoment
  BY NamedIs DEF LiteralInv
<1> QED BY <1>1, <1>2, <1>3, StampInvariant, PTL DEF StampSpec
=============================================================================
