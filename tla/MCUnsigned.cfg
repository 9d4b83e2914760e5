\* JSON integers, those above the largest long long among them.
SPECIFICATION ValuesSpec
CONSTANTS
    Signed <- MCSigned
    Unsigned <- MCUnsigned
    Size <- MCSize
    LongSize = 32
    Mantissa = 8
    Limit = 40
    Kinds = {"unsigned"}
    MaxNumber = 80
    Calendar <- MCCalendar
    Millis <- NoMillis
    Dates <- NoTexts
    Times <- NoTexts
    MaxDigits = 0
INVARIANTS
    RangeChecked
CHECK_DEADLOCK FALSE
