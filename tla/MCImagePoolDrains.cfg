CONSTANTS
    Workers = {w1, w2}
    Tokens = {t1, t2}
    NoToken = NoToken
    Limit = 1
    MaxQuota = 1
    MaxImages = 2
    AutoRemoveLimited = TRUE
    AutoRemoveInvalid = TRUE
    AbandonsHappen = FALSE
    DeletionsHappen = TRUE
    SavesFail = TRUE
SPECIFICATION FairSpec
PROPERTY Drains
