CONSTANTS
    Workers = {w1, w2}
    Tokens = {t1, t2}
    NoToken = NoToken
    Limit = 1
    MaxQuota = 1
    MaxImages = 2
    AutoRemoveLimited = TRUE
    AutoRemoveInvalid = FALSE
    AbandonsHappen = TRUE
    DeletionsHappen = FALSE
    SavesFail = FALSE
SPECIFICATION Spec
PROPERTY ImplementsSlots
