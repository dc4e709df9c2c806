CONSTANTS
    Keys = {k1, k2}
    NoKey = NoKey
    Runners = {r1, r2, r3}
    FaultsHappen = TRUE
SPECIFICATION FairSpec
INVARIANT Attended
INVARIANT Kept
PROPERTY Settles
