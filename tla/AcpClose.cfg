SPECIFICATION FairSpec
CONSTANTS
    Requests = {r1}
    Closers = {c1}
    Extras = {}
PROPERTIES
    CloseEnds
