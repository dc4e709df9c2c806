CONSTANTS
    Workers = {w1, w2}
    Tokens = {t1, t2}
    NoToken = NoToken
    Limit = 1
    MaxQuota = 1
    MaxImages = 1
    AutoRemoveLimited = TRUE
    AutoRemoveInvalid = TRUE
    AbandonsHappen = TRUE
    DeletionsHappen = TRUE
    SavesFail = TRUE
SPECIFICATION Spec
INVARIANT Inductive
INVARIANT SlotAccounting
INVARIANT BoundedOvercommit
INVARIANT SkipsRefused
PROPERTY DeletedStaysDeleted
SYMMETRY Symmetry
