SPECIFICATION FairSpec
CONSTANTS
    s1 = s1
    s2 = s2
    s3 = s3
    j1 = j1
    p1 = p1
    d1 = d1
    a = a
    b = b
    c = c
    shared = shared
    own = own
    Tasks = {s1, s2, s3, j1, p1, d1}
    Kind <- MCKind
    Patience <- MCPatience
    RouteOf <- MCRouteOf
    ProfileOf <- MCProfileOf
    Locks = {a, b, c, shared, own}
    Permits = 1
    Capacity = Capacity
    Nobody = Nobody
CHECK_DEADLOCK FALSE
INVARIANTS
    LocksAndPermitsKept
PROPERTIES
    LocksInTurn
    EveryoneGetsThrough
