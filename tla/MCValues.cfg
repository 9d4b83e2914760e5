\* Every kind of cell to every integer type; milliseconds and texts of dates,
\* to the application and back to the broker.
SPECIFICATION ValuesSpec
CONSTANTS
    Signed <- MCSigned
    Unsigned <- MCUnsigned
    Size <- MCSize
    LongSize = 32
    Mantissa = 8
    Limit = 40
    Kinds <- MCKinds
    MaxNumber = 80
    Calendar <- MCCalendar
    Millis <- MCMillis
    Dates <- MCDates
    Times <- MCTimes
    MaxDigits = 10
INVARIANTS
    NumbersExact
    MomentKept
    LiteralNamesMoment
CHECK_DEADLOCK FALSE
