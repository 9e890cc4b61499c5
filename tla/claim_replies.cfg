SPECIFICATION FairSpec
CONSTANTS
    c1 = c1
    c2 = c2
    c3 = c3
    r1 = r1
    Comment = {c1, c2, r1}
    ParentOf <- OneThread
    NoComment = NoComment
    Undated = {}
    Worker = {w1}
    Nested = TRUE
    MaxTime = 2
    MayFail = FALSE
PROPERTY RepliesArrive
