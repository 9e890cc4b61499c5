SPECIFICATION FairSpec
CONSTANTS
    Request = {r1, r2, bye}
    SignOut = bye
    Session = {s1, s2}
    MaxExpired = 1
    None = None
INVARIANTS WaitersHaveRefresher
PROPERTIES RequestsSettle ForcedForCause
CHECK_DEADLOCK FALSE
