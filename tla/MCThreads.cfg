\* Two threads, two connections, two statements.
SPECIFICATION FairSpec
CONSTANTS
    Threads = {t1, t2}
    NoThread = NoThread
    Env = Env
    Dbcs = {d1, d2}
    Stmts = {s1, s2}
    NoHandle = NoHandle
    Server = pinot
    DefaultTimeout = 3
    NoClient = NoClient
    FreesAlone = TRUE
INVARIANTS
    NoDeadAccess
PROPERTIES
    Linearizable
    CallsReturn
