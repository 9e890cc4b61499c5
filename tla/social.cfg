SPECIFICATION FairSpec
CONSTANTS
    a1 = a1
    Author = {a1}
    Post = {p1, p2}
    AuthorOf <- OneAuthor
    Account = {x1, x2}
    Profile = {f1, f2}
    Request = {q1}
    Attempts = 2
    MaxFailures = 1
    None = None
INVARIANTS TypeOK NoStrayProfile
PROPERTIES NothingLost PollsSettle PostsGetLinked
CHECK_DEADLOCK FALSE
