--------------------------- MODULE SocialAccounts ---------------------------
(***************************************************************************)
(* Profiles, their social accounts and the posts linked to them: what the  *)
(* users do by hand (profiles.service.ts), the automatic linking of a      *)
(* post to its author by the runs of its metrics poll, and the poll of an  *)
(* account that replaces the made-up id of a handle by the real one.  One  *)
(* platform; every statement is a step of its own.                         *)
(***************************************************************************)
EXTENDS Naturals, FiniteSets

CONSTANTS
    Author,      \* people on the platform
    Post, AuthorOf,
    Account,     \* rows social_accounts may get, each used once
    Profile,     \* rows profiles may get, each used once
    Request,     \* deletions under way
    Attempts,    \* POLLING_JOB_ATTEMPTS
    MaxFailures, \* bound on the statements of runs that fail
    None         \* no row

ASSUME SocialAssumption ==
    /\ AuthorOf \in [Post -> Author]
    /\ Attempts \in Nat \ {0} /\ MaxFailures \in Nat
    /\ None \notin Account \cup Profile \cup Author
    /\ IsFiniteSet(Account) /\ IsFiniteSet(Profile)

VARIABLES
    acct,        \* the rows of social_accounts
    prof,        \* the rows of profiles
    link,        \* the account each post is linked to (social_account_posts)
    run,         \* ensureAuthorLinked, in the metrics run of each post
    job,         \* the poll job of each account
    req,         \* the deletions users asked for
    failures     \* statements of runs that failed so far

vars == <<acct, prof, link, run, job, req, failures>>

\* known: platform_user_id is the real one, not <platform>_<handle>.
AccountRow == [state : {"unused", "live", "gone"}, author : Author \cup {None},
               known : BOOLEAN, profile : Profile \cup {None}]

Unused == [state |-> "unused", author |-> None, known |-> FALSE, profile |-> None]
Deleted == [Unused EXCEPT !.state = "gone"]

Live(x)  == acct[x].state = "live"
There(f) == prof[f] \in {"user", "auto", "emptied"}
Owners(a, known) == {x \in Account : Live(x) /\ acct[x].author = a /\ acct[x].known = known}
On(f)    == {x \in Account : Live(x) /\ acct[x].profile = f}
Linked(x) == {p \in Post : link[p] = x}

NoRun == [at |-> "idle", x |-> None]
NoJob == [at |-> "none", tries |-> 0]
NoReq == [op |-> "idle", x |-> None, f |-> None, stale |-> FALSE]

TypeOK ==
    /\ acct \in [Account -> AccountRow]
    /\ prof \in [Profile -> {"unused", "user", "auto", "emptied", "gone"}]
    /\ link \in [Post -> Account \cup {None}]
    /\ run \in [Post -> [at : {"idle", "find", "create", "refetch", "enqueue", "link"},
                         x : Account \cup {None}]]
    /\ job \in [Account -> [at : {"none", "queued", "check", "update", "touch"},
                           tries : 0 .. Attempts - 1]]
    /\ req \in [Request -> [op : {"idle", "unlink", "remove"},
                            x : Account \cup {None}, f : Profile \cup {None},
                            stale : BOOLEAN]]
    /\ failures \in 0 .. MaxFailures
    /\ \A x \in Account : Live(x) => There(acct[x].profile)
    /\ \A p \in Post : link[p] # None => Live(link[p])

Init ==
    /\ acct = [x \in Account |-> Unused]
    /\ prof = [f \in Profile |-> "unused"]
    /\ link = [p \in Post |-> None]
    /\ run = [p \in Post |-> NoRun]
    /\ job = [x \in Account |-> NoJob]
    /\ req = [r \in Request |-> NoReq]
    /\ failures = 0

\* Bound: users leave the rows the runs still need.
SpareAccounts(n) == Cardinality({x \in Account : acct[x].state = "unused"}) > n
SpareProfiles(n) == Cardinality({f \in Profile : prof[f] = "unused"}) > n
Spare(n) == SpareAccounts(n) /\ SpareProfiles(n)

\* History: something was added to what a request has checked it may delete.
Added(rs, x, f) ==
    [r \in Request |->
       IF \/ rs[r].op = "unlink" /\ rs[r].x = x
          \/ rs[r].op = "remove" /\ rs[r].f = f
         THEN [rs[r] EXCEPT !.stale = TRUE] ELSE rs[r]]

\* Ids are interchangeable: the next one is any.
NextAccount == CHOOSE x \in Account : acct[x].state = "unused"
NextProfile == CHOOSE f \in Profile : prof[f] = "unused"

NewAccount(x, a, known, f) ==
    acct' = [acct EXCEPT ![x] = [state |-> "live", author |-> a, known |-> known,
                                 profile |-> f]]

\* isJobPending, and the add that ignores a taken job id.
Enqueued(x) ==
    job' = IF job[x] = NoJob
             THEN [job EXCEPT ![x] = [at |-> "queued", tries |-> 0]] ELSE job

-----------------------------------------------------------------------------
\* ensureAuthorLinked

RunGoto(p, l, x) == run' = [run EXCEPT ![p] = [at |-> l, x |-> x]]
RunEnds(p) == run' = [run EXCEPT ![p] = NoRun]

FindLink(p) ==
    /\ run[p].at = "idle" /\ link[p] = None
    /\ RunGoto(p, "find", None)
    /\ UNCHANGED <<acct, prof, link, job, req, failures>>

FindAccount(p, l) ==
    /\ run[p].at = l
    /\ LET found == Owners(AuthorOf[p], TRUE)
       IN  \/ \E x \in found : RunGoto(p, "link", x)
           \/ /\ found = {}
              /\ IF l = "find" THEN RunGoto(p, "create", None) ELSE RunEnds(p)
    /\ UNCHANGED <<acct, prof, link, job, req, failures>>

\* Mutant: the profile is created first, by a statement of its own.
CreateProfileFirst(p) ==
    /\ run[p].at = "create" /\ Spare(0)
    /\ prof' = [prof EXCEPT ![NextProfile] = "auto"]
    /\ IF Owners(AuthorOf[p], TRUE) # {}
         THEN RunGoto(p, "refetch", None) /\ UNCHANGED acct
         ELSE /\ NewAccount(NextAccount, AuthorOf[p], TRUE, NextProfile)
              /\ RunGoto(p, "enqueue", NextAccount)
    /\ UNCHANGED <<link, job, req, failures>>

\* Mutant: an account under its made-up id takes the place, too.
CreateUnlessHandleTaken(p) ==
    /\ run[p].at = "create"
    /\ IF Owners(AuthorOf[p], TRUE) \cup Owners(AuthorOf[p], FALSE) # {}
         THEN RunGoto(p, "refetch", None) /\ UNCHANGED <<acct, prof>>
         ELSE /\ Spare(0)
              /\ prof' = [prof EXCEPT ![NextProfile] = "auto"]
              /\ NewAccount(NextAccount, AuthorOf[p], TRUE, NextProfile)
              /\ RunGoto(p, "enqueue", NextAccount)
    /\ UNCHANGED <<link, job, req, failures>>

\* The nested create makes both rows or, when the id is taken, none.
CreateAccount(p) ==
    /\ run[p].at = "create"
    /\ IF Owners(AuthorOf[p], TRUE) # {}
         THEN RunGoto(p, "refetch", None) /\ UNCHANGED <<acct, prof>>
         ELSE /\ Spare(0)
              /\ prof' = [prof EXCEPT ![NextProfile] = "auto"]
              /\ NewAccount(NextAccount, AuthorOf[p], TRUE, NextProfile)
              /\ RunGoto(p, "enqueue", NextAccount)
    /\ UNCHANGED <<link, job, req, failures>>

EnqueueNew(p) ==
    /\ run[p].at = "enqueue"
    /\ Enqueued(run[p].x) \/ UNCHANGED job
    /\ RunGoto(p, "link", run[p].x)
    /\ UNCHANGED <<acct, prof, link, req, failures>>

\* The foreign key refuses an account that was deleted meanwhile; the next
\* run of the poll tries again.
CreateLink(p) ==
    /\ run[p].at = "link"
    /\ RunEnds(p)
    /\ LET x == run[p].x
       IN  IF Live(x)
             THEN /\ link' = [link EXCEPT ![p] = x]
                  /\ req' = Added(req, x, None)
             ELSE UNCHANGED <<link, req>>
    /\ UNCHANGED <<acct, prof, job, failures>>

RunFails(p) ==
    /\ run[p].at # "idle" /\ failures < MaxFailures
    /\ RunEnds(p)
    /\ failures' = failures + 1
    /\ UNCHANGED <<acct, prof, link, job, req>>

Runs(p) == FindLink(p) \/ FindAccount(p, "find") \/ CreateAccount(p)
           \/ FindAccount(p, "refetch") \/ EnqueueNew(p) \/ CreateLink(p)

-----------------------------------------------------------------------------
\* AccountPollingRunner.process

JobGoto(x, l) == job' = [job EXCEPT ![x].at = l]
JobEnds(x)    == job' = [job EXCEPT ![x] = NoJob]
JobThrows(x)  ==
    job' = [job EXCEPT ![x] = IF job[x].tries + 1 < Attempts
                                THEN [at |-> "queued", tries |-> job[x].tries + 1]
                                ELSE NoJob]

\* markStatus comes with the end of the attempt: last_poll_status is left out,
\* and on an account that is gone it throws, as the attempt does.
LoadAndFetch(x) ==
    /\ job[x].at = "queued"
    /\ \/ Live(x) /\ (JobGoto(x, "check") \/ JobThrows(x))
       \/ ~Live(x) /\ JobEnds(x)
    /\ UNCHANGED <<acct, prof, link, run, req, failures>>

Conflict(x) == Live(x) /\ ~acct[x].known /\ Owners(acct[x].author, TRUE) # {}

\* Mutant: a conflict goes back to the queue.
ConflictRequeued(x) ==
    /\ job[x].at = "check"
    /\ \/ JobGoto(x, IF Conflict(x) THEN "queued" ELSE "update")
       \/ JobGoto(x, "touch")
    /\ UNCHANGED <<acct, prof, link, run, req, failures>>

\* An answer without a platform id is written without looking for its owner.
FindOwner(x) ==
    /\ job[x].at = "check"
    /\ \/ IF Conflict(x) THEN JobEnds(x) ELSE JobGoto(x, "update")
       \/ JobGoto(x, "touch")
    /\ UNCHANGED <<acct, prof, link, run, req, failures>>

\* The unique index may refuse the real id after all; what follows the write,
\* the avatar of a profile that may be gone, may still throw.
UpdateAccount(x) ==
    /\ \/ /\ job[x].at = "update" /\ Live(x) /\ ~Conflict(x)
          /\ acct' = [acct EXCEPT ![x].known = TRUE]
          /\ JobEnds(x) \/ JobThrows(x)
       \/ /\ job[x].at = "update" /\ (~Live(x) \/ Conflict(x))
          /\ JobThrows(x) /\ UNCHANGED acct
       \/ /\ job[x].at = "touch"
          /\ JobThrows(x) \/ (Live(x) /\ JobEnds(x))
          /\ UNCHANGED acct
    /\ UNCHANGED <<prof, link, run, req, failures>>

Polls(x) == LoadAndFetch(x) \/ FindOwner(x) \/ UpdateAccount(x)

-----------------------------------------------------------------------------
\* profiles.service.  What create, linkAccount and moveAccount check first, the
\* unique index and the foreign keys check again with the write: one step.

\* A new account is queued for its first poll at once, if the queue takes it.
AddByHand(a, known, f) ==
    /\ SpareAccounts(1)
    /\ Owners(a, known) = {}
    /\ NewAccount(NextAccount, a, known, f)
    /\ Enqueued(NextAccount) \/ UNCHANGED job
    /\ req' = Added(req, None, f)
    /\ UNCHANGED <<link, run, failures>>

CreateProfile ==
    /\ SpareProfiles(1)
    /\ prof' = [prof EXCEPT ![NextProfile] = "user"]
    /\ \/ \E a \in Author : AddByHand(a, FALSE, NextProfile)
       \/ UNCHANGED <<acct, link, run, job, req, failures>>

LinkAccount(f) ==
    /\ There(f)
    /\ \E a \in Author, known \in BOOLEAN : AddByHand(a, known, f)
    /\ UNCHANGED prof

PollAccount(x) ==
    /\ Live(x)
    /\ Enqueued(x)
    /\ UNCHANGED <<acct, prof, link, run, req, failures>>

Emptied(f) == IF prof[f] = "auto" THEN "emptied" ELSE prof[f]

MoveAccount(x, f) ==
    /\ Live(x) /\ There(f)
    /\ acct' = [acct EXCEPT ![x].profile = f]
    /\ prof' = [prof EXCEPT ![acct[x].profile] = Emptied(acct[x].profile)]
    /\ req' = Added(req, None, f)
    /\ UNCHANGED <<link, run, job, failures>>

\* Deletions count first and delete after another await.
Begin(r, op, x, f) ==
    /\ req[r].op = "idle"
    /\ req' = [req EXCEPT ![r] = [op |-> op, x |-> x, f |-> f, stale |-> FALSE]]
    /\ UNCHANGED <<acct, prof, link, run, job, failures>>

\* Mutant: the posts of an account are not counted.
CountNoPosts(r, x) == Live(x) /\ Begin(r, "unlink", x, None)

CountPosts(r, x) ==
    /\ Live(x) /\ Linked(x) = {}
    /\ Begin(r, "unlink", x, None)

CountAccounts(r, f) ==
    /\ There(f) /\ On(f) = {}
    /\ Begin(r, "remove", None, f)

\* Mutant: links outlive their account.
DropKeepingLinks(xs) ==
    /\ acct' = [x \in Account |-> IF x \in xs THEN Deleted ELSE acct[x]]
    /\ UNCHANGED link

\* Deleting an account deletes its links, deleting a profile its accounts.
Drop(xs) ==
    /\ acct' = [x \in Account |-> IF x \in xs THEN Deleted ELSE acct[x]]
    /\ link' = [p \in Post |-> IF link[p] \in xs THEN None ELSE link[p]]

End(r) == req' = [req EXCEPT ![r] = NoReq]

UnlinkAccount(r) ==
    /\ req[r].op = "unlink" /\ Spare(0)
    /\ End(r)
    /\ LET x == req[r].x
           f == acct[x].profile
       IN  IF Live(x)
             THEN Drop({x}) /\ prof' = [prof EXCEPT ![f] = Emptied(f)]
             ELSE UNCHANGED <<acct, link, prof>>
    /\ UNCHANGED <<run, job, failures>>

RemoveProfile(r) ==
    /\ req[r].op = "remove" /\ Spare(0)
    /\ End(r)
    /\ LET f == req[r].f
       IN  IF There(f)
             THEN Drop(On(f)) /\ prof' = [prof EXCEPT ![f] = "gone"]
             ELSE UNCHANGED <<acct, link, prof>>
    /\ UNCHANGED <<run, job, failures>>

Requests ==
    \/ CreateProfile
    \/ \E f \in Profile : LinkAccount(f) \/ \E x \in Account : MoveAccount(x, f)
    \/ \E r \in Request :
          \/ \E x \in Account : CountPosts(r, x)
          \/ \E f \in Profile : CountAccounts(r, f)
          \/ UnlinkAccount(r) \/ RemoveProfile(r)

Next ==
    \/ \E p \in Post : Runs(p) \/ RunFails(p)
    \/ \E x \in Account : Polls(x) \/ PollAccount(x)
    \/ Requests

Spec == Init /\ [][Next]_vars

\* Posts are polled again and again, and jobs are worked on.
FairSpec ==
    /\ Spec
    /\ \A p \in Post : WF_vars(Runs(p))
    /\ \A x \in Account : WF_vars(Polls(x))

-----------------------------------------------------------------------------
(***************************************************************************)
(* Properties                                                              *)
(***************************************************************************)

\* Deleting an account never takes a linked post with it, nor deleting a
\* profile an account, though both count first and delete later and the
\* database cascades: unless what is lost was added between the two.
Stale == \E r \in Request : req[r].stale /\ ~req'[r].stale

NothingLost ==
    [][/\ \A x \in Account :
             Live(x) /\ acct'[x].state = "gone" => Stale \/ Linked(x) = {}
       /\ \A f \in Profile :
             There(f) /\ prof'[f] = "gone" => Stale \/ On(f) = {}]_vars

\* Automatic linking leaves no profile behind without an account, however many
\* runs meet the same new author: only a user's unlinking or moving does.
NoStrayProfile == \A f \in Profile : prof[f] = "auto" => On(f) # {}

\* The poll of an account comes to an end: the made-up id is replaced, or its
\* owner is found to be there already, or the attempts are used up.
PollsSettle == \A x \in Account : []<>(job[x] = NoJob)

\* A link lost to an unlinked account or to a failed run is made by a later
\* run, once users stop deleting accounts and runs stop failing.
Undisturbed == req = [r \in Request |-> NoReq]

PostsGetLinked ==
    \A p \in Post : <>[]Undisturbed => <>[](link[p] # None)
=============================================================================
