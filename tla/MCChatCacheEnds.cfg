CONSTANTS
    Requests = {r1, r2, r3}
    NoRequest = NoRequest
    Keys = {k1}
    NoKey = NoKey
    Settings <- DedupeToggled
    MaxTime = 1
SPECIFICATION FairSpec
PROPERTY Ends
