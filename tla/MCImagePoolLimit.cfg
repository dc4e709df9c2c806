CONSTANTS
    Workers = {w1, w2}
    Tokens = {t1}
    NoToken = NoToken
    Limit = 1
    MaxQuota = 1
    MaxImages = 1
    AutoRemoveLimited = FALSE
    AutoRemoveInvalid = FALSE
    AbandonsHappen = FALSE
    DeletionsHappen = TRUE
    SavesFail = FALSE
SPECIFICATION Spec
INVARIANT ConcurrencyLimit
SYMMETRY Symmetry
