SPECIFICATION Spec
CONSTANTS
    Turns = {t1}
    Probes = {p1}
    Reaper = Reaper
    Closer = Closer
    Instances = {1, 2, 3}
    Ids = {1, 2}
    None = None
INVARIANTS
    NoStrayProcess
    PromptsKnownSession
    OwnPolicy
    ProbeKeepsProfile
