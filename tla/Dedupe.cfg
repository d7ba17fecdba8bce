SPECIFICATION Spec
CONSTANTS
    p1 = p1
    p2 = p2
    t1 = t1
    t2 = t2
    Procs = {p1, p2}
    Turns = {t1, t2}
    Home <- TwoProcesses
    Keys = {k1}
    NoProc = NoProc
    NoKey = NoKey
    Free = Free
    Retention = 1
    ChunkRows = 1
    MaxTime = 2
    MaxFree = 1
INVARIANTS
    NoStatementOnClosed
    NoForgottenClose
PROPERTIES
    ImplementsClaimTable
    HandledOutlivesWindow
