------------------------------ MODULE MCValues ------------------------------
(***************************************************************************)
(* The conversions of values: a number (Numbers) or a moment (Timestamps)  *)
(* is converted while the other module is at rest.                         *)
(*                                                                         *)
(* A long long of 5 bits, C types of 2, 4 and 5 bits, doubles that hold    *)
(* -4 to 4 in halves, integers to 8, even numbers to 16, every fourth on.  *)
(* Moments around seconds, minutes and days on both sides of 1970; texts   *)
(* with fields at their limits and fractions of up to ten digits.          *)
(***************************************************************************)
EXTENDS Numbers, Timestamps

NumbersAtRest ==
    /\ cell = Cell("other", 0) /\ cType = "SQL_C_SBIGINT"
    /\ v = 0 /\ hadFraction = FALSE /\ ret = "SQL_ERROR" /\ stored = 0
    /\ pc = "done"

TimestampsAtRest ==
    /\ answer = [kind |-> "other"] /\ text = NoText /\ pos = 1
    /\ digits = 0 /\ value = 0 /\ ts = Nothing /\ given = Nothing
    /\ stage = "refused"

ValuesInit == (Init /\ TimestampsAtRest) \/ (StampInit /\ NumbersAtRest)
ValuesNext == (Next /\ UNCHANGED stampVars) \/ (StampNext /\ UNCHANGED vars)
ValuesSpec == ValuesInit /\ [][ValuesNext]_<<vars, stampVars>>

-----------------------------------------------------------------------------
(* Constants *)

MCSigned == {"SQL_C_STINYINT", "SQL_C_SLONG"}
MCUnsigned == {"SQL_C_UTINYINT", "SQL_C_ULONG", "SQL_C_UBIGINT"}
MCSize == [t \in MCSigned \cup MCUnsigned |->
    CASE t \in {"SQL_C_STINYINT", "SQL_C_UTINYINT"} -> 4
      [] t \in {"SQL_C_SLONG", "SQL_C_ULONG"} -> 16
      [] OTHER -> 32]
MCKinds == {"integer", "unsigned", "float", "string", "boolean", "word", "other"}

\* The Gregorian calendar: years that start in March, eras of 400 years.
MCCalendar(day) ==
    LET z == day + 719468
        d == z % 146097
        y == (d - d \div 1460 + d \div 36524 - d \div 146096) \div 365
        inYear == d - (365 * y + y \div 4 - y \div 100)
        m == (5 * inYear + 2) \div 153
    IN  [year |-> y + 400 * (z \div 146097) + (IF m < 10 THEN 0 ELSE 1),
         month |-> IF m < 10 THEN m + 3 ELSE m - 9,
         day |-> inYear - (153 * m + 2) \div 5 + 1]

Near(x) == x - 2..x + 2
MCMillis ==
    UNION {Near(sign * x) : sign \in {-1, 1},
           x \in {0, 999, 1000, 59999, 60000, 3600000, 86400000, 172800000, 2147483640}}

MCDates ==
    {[year |-> y, month |-> 1, day |-> 31] : y \in {-1, 1969, 40000}}
    \cup {[year |-> 2024, month |-> m, day |-> d] : m \in {0, 12, 13}, d \in {1, 32}}
Time(h, m, s) == [hour |-> h, minute |-> m, second |-> s]
MCTimes == {Time(0, 0, 0), Time(23, 59, 60), Time(24, 0, 0), Time(0, 60, 0), Time(0, 0, 61),
            Time(9, 5, 7), Time(9, -1, 0)}

\* None, for a run that is about numbers.
NoMillis == {}
NoTexts == {}
=============================================================================
