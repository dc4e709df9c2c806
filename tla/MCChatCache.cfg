CONSTANTS
    Requests = {r1, r2, r3}
    NoRequest = NoRequest
    Keys = {k1, k2}
    NoKey = NoKey
    Settings <- AlwaysDedupe
    MaxTime = 2
SPECIFICATION Spec
INVARIANT SharedFlight
INVARIANT Fresh
SYMMETRY Symmetry
