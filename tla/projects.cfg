\* Users end: the instance may stop once every account is gone.
SPECIFICATION BothSpec
CONSTANTS
    c1 = c1
    c2 = c2
    r1 = r1
    r2 = r2
    Campaign = {c1, c2}
    User = {u1}
    MemberRole = {manager, viewer}
    Request = {r1, r2}
    None = None
    Account = {a1, a2, a3}
    Handler = {h1, h2}
    NoUser = NoUser
INVARIANTS TypeOK ArchivedMeansDone ListedIsOpen RoleToldIsRoleHeld AdminLeft
PROPERTIES MembersFrozen DirectForOutsiders
SYMMETRY Symmetry
CHECK_DEADLOCK FALSE
