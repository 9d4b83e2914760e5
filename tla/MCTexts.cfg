\* One call of one function on text, for all texts within the bounds.
SPECIFICATION Spec
CONSTANTS
    PatternChars <- MCPatternChars
    ValueChars <- MCValueChars
    MaxPattern = 4
    MaxValue = 3
    SqlChars <- MCSqlChars
    MaxSql = 5
    NumberLiterals <- MCNumberLiterals
    CharacterValues <- MCCharacterValues
    EchoedKeys <- MCEchoedKeys
    EchoedValues <- MCEchoedValues
    ConnectStrings <- MCStrings
    Profiles <- MCProfiles
    Absent = Absent
    Intermediate = 8
    ShortSize = 64
    MaxText = 4
    MaxBuffer = 12
INVARIANTS
    AnswersMeaning
    MarkersInTheOpen
    LiteralsStand
    RoundTrip
    EchoReconnects
    StaysInBuffer
    LossIsTold
    ArgumentArrives
PROPERTIES
    Returns
CHECK_DEADLOCK FALSE
