SPECIFICATION Spec
CONSTANTS
    c1 = c1
    c2 = c2
    c3 = c3
    r1 = r1
    Comment = {c1, c2, c3, r1}
    ParentOf <- OneThread
    NoComment = NoComment
    Undated = {c1}
    Worker = {w1, w2}
    Nested = FALSE
    MaxTime = 2
    MayFail = TRUE
INVARIANTS TypeOK ThreadsIntact RowsWithinPeak CursorSkipsNone
SYMMETRY Symmetry
