\* Two statements of one connection and a controller whose tables change.
SPECIFICATION Spec
CONSTANTS
    Stmts = {s1, s2}
    NoStmt = NoStmt
    s1 = s1
    s2 = s2
    Asks <- Browse
    TablePatterns <- MCTablePatterns
    Tables = {t1, t2}
    Schemas <- MCSchemas
    NoSchema = NoSchema
    ColumnPatterns <- MCColumnPatterns
    ConnectTimeout = 60
    QueryTimeouts = {0, 5}
SYMMETRY Symmetry
INVARIANTS
    PerformsOwnRequest
PROPERTIES
    ColumnsWereThere
    FailureKeepsRows
