SPECIFICATION Spec
CONSTANTS
    Routes = {1, 2}
    Policies = {"sender", "route"}
    Configurations <- MCConfigurations
    First <- MCFirst
    Turns = {t1, t2}
    Reapers = {1, 2}
    MaxFollowups = 1
    MaxReloads = 2
CHECK_DEADLOCK FALSE
INVARIANTS
    NothingForgotten
    ChainsEnd
PROPERTIES
    CutOnlyByForce
