CONSTANTS
    Workers = {w1, w2}
    Tokens = {t1}
    NoToken = NoToken
    Limit = 1
    MaxQuota = 1
    MaxImages = 1
    AutoRemoveLimited = FALSE
    AutoRemoveInvalid = FALSE
    AbandonsHappen = TRUE
    DeletionsHappen = FALSE
    SavesFail = FALSE
SPECIFICATION FairSpec
PROPERTY Drains
