\* Execution, preparation, parameters, row limit and catalog functions.
SPECIFICATION Spec
CONSTANTS
    UnitSize = 2
    SizeMax = 1000
    MaxCols = 1
    MaxParams = 2
    Texts = {0, 2}
    QueryResults <- OneColumn
    CatalogResults <- CallCatalog
    ReadTypes = {"CHAR"}
    ReadBuffers <- CallBuffers
    Bindings <- None
    ParamBindings <- CallParams
    RowLimits = {0, 1}
    Attributes <- None
    MaxOffset = 3
INVARIANTS
    TypeOK
    ClosedIsClean
PROPERTIES
    FailureKeepsOrCloses
    RowLimitHonoured
