\* The handle tree and the life of connections.
SPECIFICATION Spec
CONSTANTS
    Envs = {e1, e2}
    Dbcs = {d1, d2}
    Stmts = {s1, s2}
    NoHandle = NoHandle
    Servers = {pinot}
    GivenTimeouts = {0, 5}
    DefaultTimeout = 3
    LoginTimeouts = {0, 2}
    NoClient = NoClient
SYMMETRY Symmetry
INVARIANTS
    TypeOK
    HandleTree
    StatementsHaveClient
    ClientMatchesConfig
PROPERTIES
    OnlyDescendantsDie
    FailureKeepsTree
    LoginTimeoutBounds
