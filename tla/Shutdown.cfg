SPECIFICATION FairShutdown
CONSTANTS
    Turns = {t1, t2}
    Reapers = {r1, r2}
    Sizes = {0, 2, 3}
    Limit = 3
    Permits = 1
    Requests = {q1}
    Reader = Reader
    Observer = Observer
INVARIANTS
    CleanMeansQuiet
    BudgetsBalance
    NoLostWakeup
PROPERTIES
    CloseEndsWell
