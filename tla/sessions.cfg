\* Sessions are used up and accounts removed: the instance may stop.
SPECIFICATION Spec
CONSTANTS
    r1 = r1
    r2 = r2
    s1 = s1
    s2 = s2
    Request = {r1, r2}
    Session = {s1, s2}
    NoSession = NoSession
    MaxFailed = 2
    MaxGuesses = 4
    MaxEpoch = 2
    MaxToken = 2
INVARIANTS RevocationHolds GuessBudget SpentTokenGone
SYMMETRY Symmetry
CHECK_DEADLOCK FALSE
