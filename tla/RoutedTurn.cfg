SPECIFICATION FairSpec
CONSTANTS
    Turns = {t1, t2, t3}
    key = key
    slot = slot
    Keys = {key, slot}
    Identities <- MCIdentities
    None = None
    NoKey = NoKey
INVARIANTS
    OwnsWhatItTouches
    EveryClaimHasAnHeir
    IdentitiesTogether
PROPERTIES
    UsesClaimTable
    ClaimsResolve
