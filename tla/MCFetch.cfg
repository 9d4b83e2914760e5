\* Fetching with bound columns, row pointers and other attributes.
SPECIFICATION Spec
CONSTANTS
    UnitSize = 2
    SizeMax = 1000
    MaxCols = 2
    MaxParams = 0
    Texts = {0}
    QueryResults <- CallResults
    CatalogResults <- None
    ReadTypes = {"CHAR"}
    ReadBuffers <- CallBuffers
    Bindings <- CallBindings
    ParamBindings <- None
    RowLimits <- None
    Attributes = {"ROW_STATUS_PTR", "CURSOR_TYPE", "ROW_BIND_TYPE", "OTHER"}
    MaxOffset = 3
INVARIANTS
    CursorInRange
    DiagMatchesReturn
    FetchConvertsEveryBinding
PROPERTIES
    ImplementsCursor
