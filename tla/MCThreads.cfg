CONSTANTS
    Runs = {1, 2}
    MaxNames = 2
    Faults = 1
    Interactions = {i1}
    Streams = {e1}
    MaxQuestions = 2
    GptAccounts = {g1}
    CodeBuddyAccounts = {b1}
    Troubles = 1
SPECIFICATION ThreadsSpec
INVARIANT TallyExact
PROPERTY JobsEnd
PROPERTY InteractionsEnd
PROPERTY PollsAreFinal
PROPERTY LimitedComesBack
