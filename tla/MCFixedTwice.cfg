\* A fixed-length column read again.
SPECIFICATION Spec
CONSTANTS
    UnitSize = 2
    SizeMax = 1000
    MaxCols = 2
    MaxParams = 0
    Texts = {0}
    QueryResults <- ReadResults
    CatalogResults <- None
    ReadTypes <- ReadTypesAll
    ReadBuffers <- ReadBuffersAll
    Bindings <- None
    ParamBindings <- None
    RowLimits <- None
    Attributes <- None
    MaxOffset = 4
PROPERTY
    FixedReadOnce
