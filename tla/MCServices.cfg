CONSTANTS
    Ids = {k1, k2}
    Secrets = {s1, s2, s3}
    Schedulers = {b1, b2}
    Admins = {a1}
    Keep = 1
    MaxObjects = 3
    Syncs = {y1, y2}
    Tokens = {t1, t2}
    Accounts = {c1}
    Requests = {r1, r2}
    Total = 2
    Window = 1
    MaxTime = 2
    ChatAccounts = {g1, g2}
    Chats = {q1}
    MaxAttempts = 3
    Jobs = {j1}
    Polls = {p1, p2}
    MaxText = 4
    MaxPings = 1
    MaxLag = 2
    MaxOutputs = 3
    Users = {u1, u2}
    MaxLogins = 2
    MaxRotations = 2
    MaxLosses = 1
    BootstrapTTL = 1
    ActiveTTL = 2
    MaxEntries = 2
    MaxNow = 2
    MaxIds = 3
    Dialogues <- SomeDialogues
    LoggedCalls = {l1, l2}
    MaxFrames = 2
    MaxUnwritten = 1
    TextTokens = {x1, x2}
    MaxTries = 2
    MaxPasses = 2
    MaxSessions = 2
    PastAnswers <- SaidBefore
    NewAnswer <- AnsweredNow
    References <- UploadedIds
    Drawable <- DrawnIds
    Paths = {i1, i2}
    NoImage = NoImage
    FaultsHappen = TRUE
SPECIFICATION Spec
INVARIANT KeysSurvive
INVARIANT RevokedStaysOut
INVARIANT RunningIsReal
INVARIANT LastBackupKept
INVARIANT ManualAccountsKept
INVARIANT QuotaConserved
INVARIANT ExhaustedComesBack
INVARIANT OneAccountAnswers
INVARIANT SettledLoginsImportNothing
INVARIANT SieveTellsAll
INVARIANT BlocksPaired
INVARIANT CompletedTellsAll
INVARIANT PairUsable
INVARIANT ConversationsKept
INVARIANT VerdictsTrue
INVARIANT SessionWhole
INVARIANT AnswerTold
INVARIANT ImagesTold
INVARIANT Found
INVARIANT Truthful
INVARIANT NoOrphans
INVARIANT StaysDeleted
SYMMETRY Symmetry
CHECK_DEADLOCK FALSE
