SPECIFICATION FairParseSpec
CONSTANTS
    Requests = {q1, q2}
    Executors = {e1, e2, e3, e4, e5}
    MaxAbandoned = 2
    MaxEdits = 2
    None = None
INVARIANTS
    WorkersBounded
PROPERTIES
    SwapsAreCurrent
    SaturationLifts
