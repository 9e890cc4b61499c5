SPECIFICATION FairSpec
CONSTANTS
    Post = {p1}
    Dimension = {metrics}
    Asker = {a1}
    Worker = {w1, w2}
    Attempts = 2
    StallLimit = 1
    MayFail = TRUE
INVARIANT OneRunPerId
PROPERTIES KeepsQueue IdFreesUp DeletedPostDrains PausedFallsSilent
