SPECIFICATION FairSpec
CONSTANTS
    Post = {p1}
    Dimension = {metrics}
    Asker = {a1, a2}
    Worker = {w1}
    Attempts = 2
    StallLimit = 1
    MayFail = FALSE
PROPERTY AcceptedSyncPolls
