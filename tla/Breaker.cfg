SPECIFICATION FairSpec
CONSTANTS
    Turns = {t1, t2}
    Routes = {r1}
    Profiles = {p1, p2}
    Start <- MCStart
    Threshold = 2
    Window = 1
    Recovery = 2
    MaxReloads = 3
    Absent = Absent
    None = None
PROPERTIES
    BreakerRecovers
    ClosesOnlyWhenDue
    NoPromptBeforeCooldown
    NoPromptWhileMasked
