SPECIFICATION FairSpec
CONSTANTS
    c1 = c1
    c2 = c2
    c3 = c3
    r1 = r1
    Comment = {c1, c2, c3, r1}
    ParentOf <- OneThread
    NoComment = NoComment
    Undated = {c1}
    Worker = {w1}
    Nested = FALSE
    MaxTime = 3
    MayFail = TRUE
PROPERTY CommentsArrive
