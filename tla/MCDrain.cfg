\* The application of Drain reads whole results.
SPECIFICATION DrainSpec
CONSTANTS
    UnitSize = 2
    SizeMax = 1000
    MaxCols = 2
    MaxParams = 0
    Texts = {0}
    QueryResults <- ReadResults
    CatalogResults <- None
    ReadTypes = {"CHAR", "WCHAR", "BINARY"}
    ReadBuffers <- DrainBuffersAll
    Bindings <- None
    ParamBindings <- None
    RowLimits <- None
    Attributes = {"ROWS_FETCHED_PTR"}
    MaxOffset = 20
    DrainTypes = {"CHAR", "WCHAR", "BINARY"}
    DrainBuffers <- DrainBuffersAll
INVARIANT
    RowRead
PROPERTY
    Terminates
\* The program ends.
CHECK_DEADLOCK FALSE
