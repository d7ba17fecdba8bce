SPECIFICATION IOSpec
CONSTANTS
    s1 = s1
    s2 = s2
    n1 = n1
    Turns = {s1, s2, n1}
    Files = {photo}
    RouteOf <- MCRouteOf
    KindsOf <- MCKindsOf
    photo = photo
    Limited = {1}
    Capacity = 1
    MaxChunks = 2
    MaxClock = 1
SYMMETRY MCSymmetry
CHECK_DEADLOCK FALSE
INVARIANTS
    InUseKept
    ArtifactsGone
    RateCap
    NoticeNeverLate
    ChunksOnce
