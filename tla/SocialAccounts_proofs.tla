----------------------- MODULE SocialAccounts_proofs -----------------------
(***************************************************************************)
(* Nothing is lost unseen when users delete what they counted before, and  *)
(* automatic linking leaves no profile behind: for any people, posts, rows *)
(* and concurrent deletions, any number of failing statements and any      *)
(* number of attempts.                                                     *)
(***************************************************************************)
EXTENDS SocialAccounts, FiniteSetTheorems, TLAPS

(***************************************************************************)
(* What the ids kept outside the tables refer to: a run knows the account  *)
(* it is about to link, a deletion the row it counted for, which was there *)
(* and is never a new one.                                                 *)
(***************************************************************************)
RefersTo ==
    /\ \A x \in Account : Live(x) => acct[x].profile \in Profile
    /\ \A p \in Post : run[p].at \in {"enqueue", "link"} => run[p].x \in Account
    /\ \A r \in Request :
          /\ req[r].op = "unlink" => req[r].x \in Account
          /\ req[r].op = "remove" => req[r].f \in Profile /\ prof[req[r].f] # "unused"

\* NothingLost needs to know what a deletion may rely on: nothing it counted has
\* come back, unless it was marked stale.
CountsHold ==
    \A r \in Request :
        ~req[r].stale =>
           /\ req[r].op = "unlink" => Linked(req[r].x) = {}
           /\ req[r].op = "remove" => On(req[r].f) = {}

IInv == TypeOK /\ RefersTo /\ CountsHold /\ NoStrayProfile

JobType == [Account -> [at : {"none", "queued", "check", "update", "touch"},
                        tries : 0 .. Attempts - 1]]
RunType == [Post -> [at : {"idle", "find", "create", "refetch", "enqueue", "link"},
                     x : Account \cup {None}]]
ReqType == [Request -> [op : {"idle", "unlink", "remove"},
                        x : Account \cup {None}, f : Profile \cup {None},
                        stale : BOOLEAN]]
ProfType == [Profile -> {"unused", "user", "auto", "emptied", "gone"}]

LEMMA SocialInit == Init => IInv
  <1> SUFFICES ASSUME Init PROVE IInv
    OBVIOUS
  <1>1. /\ \A x \in Account : ~Live(x)
        /\ \A p \in Post : link[p] = None /\ run[p].at = "idle"
        /\ \A r \in Request : req[r].op = "idle"
        /\ \A f \in Profile : prof[f] = "unused"
    BY DEF Init, Live, Unused, NoRun, NoReq
  <1>2. acct \in [Account -> AccountRow] /\ run \in RunType /\ req \in ReqType
    BY DEF Init, Unused, AccountRow, NoRun, NoReq, RunType, ReqType
  <1>3. job \in JobType
    <2>1. 0 \in 0 .. Attempts - 1
      BY SocialAssumption
    <2> QED
      BY <2>1 DEF Init, NoJob, JobType
  <1>4. failures \in 0 .. MaxFailures
    BY SocialAssumption DEF Init
  <1>5. TypeOK
    BY <1>1, <1>2, <1>3, <1>4 DEF Init, TypeOK, RunType, ReqType, JobType
  <1> QED
    BY <1>1, <1>5 DEF IInv, RefersTo, CountsHold, NoStrayProfile

-----------------------------------------------------------------------------
(***************************************************************************)
(* Lemmas about the operators                                              *)
(***************************************************************************)

\* The next row is one that was never used, when rows are left.
LEMMA NextRows ==
    ASSUME NEW n \in Nat
    PROVE  /\ SpareAccounts(n) => NextAccount \in Account /\ acct[NextAccount].state = "unused"
           /\ SpareProfiles(n) => NextProfile \in Profile /\ prof[NextProfile] = "unused"
  <1>1. ASSUME SpareAccounts(n)
        PROVE  {x \in Account : acct[x].state = "unused"} # {}
    BY <1>1, FS_EmptySet DEF SpareAccounts
  <1>2. ASSUME SpareProfiles(n)
        PROVE  {f \in Profile : prof[f] = "unused"} # {}
    BY <1>2, FS_EmptySet DEF SpareProfiles
  <1> QED
    BY <1>1, <1>2 DEF NextAccount, NextProfile

\* Marking deletions stale changes nothing else of them, and marks those it
\* should.
LEMMA AddedType ==
    ASSUME req \in ReqType, NEW x, NEW f
    PROVE  /\ Added(req, x, f) \in ReqType
           /\ \A r \in Request :
                 /\ Added(req, x, f)[r].op = req[r].op
                 /\ Added(req, x, f)[r].x = req[r].x
                 /\ Added(req, x, f)[r].f = req[r].f
                 /\ req[r].stale => Added(req, x, f)[r].stale
                 /\ req[r].op = "unlink" /\ req[r].x = x => Added(req, x, f)[r].stale
                 /\ req[r].op = "remove" /\ req[r].f = f => Added(req, x, f)[r].stale
  BY DEF Added, ReqType

LEMMA EnqueuedType ==
    ASSUME job \in JobType, NEW x \in Account, Enqueued(x) \/ UNCHANGED job
    PROVE  job' \in JobType
  <1>1. 0 \in 0 .. Attempts - 1
    BY SocialAssumption
  <1> QED
    BY <1>1 DEF Enqueued, JobType

LEMMA JobMoves ==
    ASSUME job \in JobType, NEW x \in Account,
           \/ \E l \in {"none", "queued", "check", "update", "touch"} : JobGoto(x, l)
           \/ JobEnds(x) \/ JobThrows(x)
    PROVE  job' \in JobType
  <1>1. 0 \in 0 .. Attempts - 1
    BY SocialAssumption
  <1>2. CASE \E l \in {"none", "queued", "check", "update", "touch"} : JobGoto(x, l)
    BY <1>2 DEF JobGoto, JobType
  <1>3. CASE JobEnds(x)
    BY <1>1, <1>3 DEF JobEnds, NoJob, JobType
  <1>4. CASE JobThrows(x)
    <2>1. job[x].tries \in 0 .. Attempts - 1
      BY DEF JobType
    <2>2. job[x].tries + 1 < Attempts => job[x].tries + 1 \in 0 .. Attempts - 1
      BY <2>1, SocialAssumption
    <2> QED
      BY <1>1, <1>4, <2>2 DEF JobThrows, NoJob, JobType
  <1> QED
    BY <1>2, <1>3, <1>4

-----------------------------------------------------------------------------
(***************************************************************************)
(* One lemma per kind of step.  First the steps that leave the rows and    *)
(* the deletions alone: most awaits of a run or of an account poll.        *)
(***************************************************************************)
LEMMA QuietStep ==
    ASSUME IInv, UNCHANGED <<acct, prof, link, req>>,
           run' \in RunType, job' \in JobType, failures' \in 0 .. MaxFailures,
           \A p \in Post : run'[p].at \in {"enqueue", "link"} => run'[p].x \in Account
    PROVE  IInv'
  <1>1. TypeOK'
    BY DEF IInv, TypeOK, Live, There, RunType, JobType
  <1>2. RefersTo' /\ CountsHold' /\ NoStrayProfile'
    BY DEF IInv, RefersTo, CountsHold, NoStrayProfile, Live, Linked, On
  <1> QED
    BY <1>1, <1>2 DEF IInv

LEMMA Types ==
    ASSUME IInv
    PROVE  /\ run \in RunType /\ job \in JobType /\ req \in ReqType /\ prof \in ProfType
           /\ acct \in [Account -> AccountRow] /\ link \in [Post -> Account \cup {None}]
           /\ failures \in 0 .. MaxFailures
  BY DEF IInv, TypeOK, RunType, JobType, ReqType, ProfType

LEMMA RunGotoType ==
    ASSUME IInv, NEW p \in Post, NEW x \in Account \cup {None},
           NEW l \in {"idle", "find", "create", "refetch", "enqueue", "link"},
           RunGoto(p, l, x), l \in {"enqueue", "link"} => x \in Account
    PROVE  /\ run' \in RunType
           /\ \A q \in Post : run'[q].at \in {"enqueue", "link"} => run'[q].x \in Account
  <1>1. run' \in RunType
    BY Types DEF RunGoto, RunType
  <1>2. run'[p] = [at |-> l, x |-> x] /\ \A q \in Post \ {p} : run'[q] = run[q]
    BY Types DEF RunGoto, RunType
  <1> QED
    BY <1>1, <1>2 DEF IInv, RefersTo

LEMMA RunEndsType ==
    ASSUME IInv, NEW p \in Post, RunEnds(p)
    PROVE  /\ run' \in RunType
           /\ \A q \in Post : run'[q].at \in {"enqueue", "link"} => run'[q].x \in Account
  BY RunGotoType DEF RunEnds, NoRun, RunGoto

LEMMA RunAwaits ==
    ASSUME IInv, NEW p \in Post,
           FindLink(p) \/ FindAccount(p, "find") \/ FindAccount(p, "refetch")
           \/ EnqueueNew(p) \/ RunFails(p)
    PROVE  IInv'
  <1>1. CASE FindLink(p)
    BY <1>1, RunGotoType, QuietStep, Types DEF FindLink
  <1>2. ASSUME NEW l \in {"find", "refetch"}, FindAccount(p, l) PROVE IInv'
    <2>1. /\ run' \in RunType
          /\ \A q \in Post : run'[q].at \in {"enqueue", "link"} => run'[q].x \in Account
      <3>1. CASE \E x \in Owners(AuthorOf[p], TRUE) : RunGoto(p, "link", x)
        BY <3>1, RunGotoType DEF Owners
      <3>2. CASE RunGoto(p, "create", None) \/ RunEnds(p)
        BY <3>2, RunGotoType, RunEndsType
      <3> QED
        BY <1>2, <3>1, <3>2 DEF FindAccount
    <2> QED
      BY <1>2, <2>1, QuietStep, Types DEF FindAccount
  <1>3. CASE EnqueueNew(p)
    <2>1. run[p].x \in Account
      BY <1>3 DEF EnqueueNew, IInv, RefersTo
    <2>2. job' \in JobType
      BY <1>3, <2>1, EnqueuedType, Types DEF EnqueueNew
    <2>3. /\ run' \in RunType
          /\ \A q \in Post : run'[q].at \in {"enqueue", "link"} => run'[q].x \in Account
      BY <1>3, <2>1, RunGotoType DEF EnqueueNew
    <2>4. UNCHANGED <<acct, prof, link, req, failures>>
      BY <1>3 DEF EnqueueNew
    <2> QED
      BY <2>2, <2>3, <2>4, QuietStep, Types
  <1>4. CASE RunFails(p)
    <2>1. failures' \in 0 .. MaxFailures
      BY <1>4, Types, SocialAssumption DEF RunFails
    <2> QED
      BY <1>4, <2>1, RunEndsType, QuietStep, Types DEF RunFails
  <1> QED
    BY <1>1, <1>2, <1>3, <1>4

LEMMA PollAwaits ==
    ASSUME IInv, NEW x \in Account, LoadAndFetch(x) \/ FindOwner(x) \/ PollAccount(x)
    PROVE  IInv'
  <1>1. job' \in JobType
    <2>1. CASE LoadAndFetch(x)
      BY <2>1, JobMoves, Types DEF LoadAndFetch
    <2>2. CASE FindOwner(x)
      BY <2>2, JobMoves, Types DEF FindOwner
    <2>3. CASE PollAccount(x)
      BY <2>3, EnqueuedType, Types DEF PollAccount
    <2> QED
      BY <2>1, <2>2, <2>3
  <1>2. UNCHANGED <<acct, prof, link, run, req, failures>>
    BY DEF LoadAndFetch, FindOwner, PollAccount
  <1> QED
    BY <1>1, <1>2, QuietStep, Types DEF IInv, RefersTo

\* The real id replaces the made-up one; whose account it is does not change.
LEMMA UpdateAccountInv == ASSUME IInv, NEW x \in Account, UpdateAccount(x) PROVE IInv'
  <1>1. job' \in JobType
    BY JobMoves, Types DEF UpdateAccount
  <1>2. UNCHANGED <<prof, link, run, req, failures>>
    BY DEF UpdateAccount
  <1>3. /\ acct' \in [Account -> AccountRow]
        /\ \A y \in Account : /\ acct'[y].state = acct[y].state
                              /\ acct'[y].profile = acct[y].profile
    <2>1. CASE acct' = [acct EXCEPT ![x].known = TRUE]
      <3>1. acct \in [Account -> AccountRow] /\ acct[x] \in AccountRow
        BY Types
      <3>2. /\ [acct[x] EXCEPT !.known = TRUE] \in AccountRow
            /\ [acct[x] EXCEPT !.known = TRUE].state = acct[x].state
            /\ [acct[x] EXCEPT !.known = TRUE].profile = acct[x].profile
        BY <3>1 DEF AccountRow
      <3> QED
        BY <2>1, <3>1, <3>2
    <2>2. CASE acct' = acct
      BY <2>2, Types
    <2> QED
      BY <2>1, <2>2 DEF UpdateAccount
  <1>4. TypeOK'
    BY <1>1, <1>2, <1>3 DEF IInv, TypeOK, JobType, Live, There
  <1>5. RefersTo' /\ CountsHold' /\ NoStrayProfile'
    <2>1. \A f : On(f)' = On(f)
      BY <1>3 DEF On, Live
    <2>2. \A y : Linked(y)' = Linked(y)
      BY <1>2 DEF Linked
    <2> QED
      BY <1>2, <1>3, <2>1, <2>2
         DEF IInv, RefersTo, CountsHold, NoStrayProfile, Live
  <1> QED
    BY <1>4, <1>5 DEF IInv

(***************************************************************************)
(* A link is made.  Its account is there, and whoever counted its links    *)
(* before is marked.                                                       *)
(***************************************************************************)
LEMMA CreateLinkInv == ASSUME IInv, NEW p \in Post, CreateLink(p) PROVE IInv'
  <1> DEFINE x == run[p].x
  <1>1. x \in Account
    BY DEF CreateLink, IInv, RefersTo
  <1>2. /\ run' \in RunType
        /\ \A q \in Post : run'[q].at \in {"enqueue", "link"} => run'[q].x \in Account
    BY RunEndsType DEF CreateLink
  <1>3. UNCHANGED <<acct, prof, job, failures>>
    BY DEF CreateLink
  <1>4. CASE ~Live(x)
    BY <1>2, <1>3, <1>4, QuietStep, Types DEF CreateLink
  <1>5. CASE Live(x)
    <2>1. link' = [link EXCEPT ![p] = x] /\ req' = Added(req, x, None)
      BY <1>5 DEF CreateLink
    <2>2. TypeOK'
      <3>1. link' \in [Post -> Account \cup {None}] /\ req' \in ReqType
        BY <1>1, <2>1, AddedType, Types
      <3>2. \A q \in Post : link'[q] # None => Live(link'[q])
        BY <1>5, <2>1, Types DEF IInv, TypeOK
      <3> QED
        BY <1>2, <1>3, <3>1, <3>2
           DEF IInv, TypeOK, RunType, ReqType, Live, There
    <2>3. RefersTo'
      BY <1>2, <1>3, <2>1, AddedType, Types DEF IInv, RefersTo, Live
    <2>4. CountsHold'
      <3> SUFFICES ASSUME NEW r \in Request, ~req'[r].stale
                   PROVE  /\ req'[r].op = "unlink" => Linked(req[r].x)' = {}
                          /\ req'[r].op = "remove" => On(req[r].f)' = {}
        BY DEF CountsHold
      <3>1. /\ req'[r].op = req[r].op /\ req'[r].x = req[r].x /\ req'[r].f = req[r].f
            /\ ~req[r].stale
            /\ req[r].op = "unlink" => req[r].x # x
        BY <2>1, AddedType, Types
      <3>2. /\ req[r].op = "unlink" => Linked(req[r].x) = {}
            /\ req[r].op = "remove" => On(req[r].f) = {}
        BY <3>1 DEF IInv, CountsHold
      <3>3. req[r].op = "unlink" => Linked(req[r].x)' = {}
        BY <2>1, <3>1, <3>2, Types DEF Linked
      <3>4. req[r].op = "remove" => On(req[r].f)' = {}
        BY <1>3, <3>1, <3>2 DEF On, Live
      <3> QED
        BY <3>1, <3>3, <3>4
    <2>5. NoStrayProfile'
      BY <1>3 DEF IInv, NoStrayProfile, On, Live
    <2> QED
      BY <2>2, <2>3, <2>4, <2>5 DEF IInv
  <1> QED
    BY <1>4, <1>5

(***************************************************************************)
(* A new account, with the new profile or on one that is there.  A         *)
(* deletion that counted that profile's accounts before is marked.         *)
(***************************************************************************)
LEMMA NewAccountInv ==
    ASSUME IInv, UNCHANGED <<link, failures>>,
           NEW y \in Account, acct[y].state = "unused",
           NEW a \in Author, NEW known \in BOOLEAN, NEW f \in Profile,
           NewAccount(y, a, known, f),
           prof' \in ProfType, prof'[f] \in {"user", "auto", "emptied"},
           \A g \in Profile \ {f} : prof'[g] = prof[g],
           run' \in RunType, job' \in JobType,
           \A p \in Post : run'[p].at \in {"enqueue", "link"} => run'[p].x \in Account,
           req' \in ReqType,
           \A r \in Request :
              /\ req'[r].op = req[r].op /\ req'[r].x = req[r].x /\ req'[r].f = req[r].f
              /\ req[r].stale => req'[r].stale
              /\ req[r].op = "remove" /\ req[r].f = f => req'[r].stale
    PROVE  IInv'
  <1>1. /\ acct' \in [Account -> AccountRow]
        /\ acct'[y] = [state |-> "live", author |-> a, known |-> known, profile |-> f]
        /\ \A z \in Account \ {y} : acct'[z] = acct[z]
    <2>1. [state |-> "live", author |-> a, known |-> known, profile |-> f] \in AccountRow
      BY DEF AccountRow
    <2> QED
      BY <2>1, Types DEF NewAccount
  <1>2. /\ Live(y)' /\ ~Live(y) /\ acct'[y].profile = f
        /\ \A z \in Account \ {y} : Live(z)' = Live(z) /\ acct'[z].profile = acct[z].profile
    BY <1>1 DEF Live
  <1>3. TypeOK'
    <2>1. \A z \in Account : Live(z)' => There(acct[z].profile)'
      BY <1>1, <1>2 DEF IInv, TypeOK, RefersTo, There
    <2>2. \A p \in Post : link'[p] # None => Live(link[p])'
      BY <1>2, Types DEF IInv, TypeOK
    <2> QED
      BY <1>1, <2>1, <2>2, Types DEF TypeOK, RunType, JobType, ReqType, ProfType
  <1>4. RefersTo'
    BY <1>2 DEF IInv, RefersTo
  <1>5. \A g \in Profile : /\ On(g) \subseteq On(g)'
                           /\ g # f => On(g)' = On(g)
                           /\ g = f => y \in On(g)'
    BY <1>2 DEF On
  <1>6. CountsHold'
    <2>1. \A z : Linked(z)' = Linked(z)
      BY DEF Linked
    <2> QED
      BY <1>5, <2>1 DEF IInv, CountsHold, RefersTo
  <1>7. NoStrayProfile'
    BY <1>5 DEF IInv, NoStrayProfile
  <1> QED
    BY <1>3, <1>4, <1>6, <1>7 DEF IInv

LEMMA CreateAccountInv == ASSUME IInv, NEW p \in Post, CreateAccount(p) PROVE IInv'
  <1> DEFINE y == NextAccount
             f == NextProfile
  <1>1. CASE Owners(AuthorOf[p], TRUE) # {}
    <2>1. RunGoto(p, "refetch", None) /\ UNCHANGED <<acct, prof, link, job, req, failures>>
      BY <1>1 DEF CreateAccount
    <2> QED
      BY <2>1, RunGotoType, QuietStep, Types
  <1>2. CASE Owners(AuthorOf[p], TRUE) = {}
    <2>1. /\ Spare(0) /\ NewAccount(y, AuthorOf[p], TRUE, f)
          /\ prof' = [prof EXCEPT ![f] = "auto"] /\ RunGoto(p, "enqueue", y)
          /\ UNCHANGED <<link, job, req, failures>>
      BY <1>2 DEF CreateAccount
    <2>2. /\ y \in Account /\ acct[y].state = "unused"
          /\ f \in Profile /\ prof[f] = "unused"
      BY <2>1, NextRows DEF Spare
    <2>3. /\ prof' \in ProfType /\ prof'[f] = "auto"
          /\ \A g \in Profile \ {f} : prof'[g] = prof[g]
      BY <2>1, <2>2, Types DEF ProfType
    <2>4. /\ run' \in RunType
          /\ \A q \in Post : run'[q].at \in {"enqueue", "link"} => run'[q].x \in Account
      BY <2>1, <2>2, RunGotoType
    <2>5. \A r \in Request : ~(req[r].op = "remove" /\ req[r].f = f)
      BY <2>2 DEF IInv, RefersTo
    <2>6. AuthorOf[p] \in Author
      BY SocialAssumption
    <2>7. req' = req /\ req' \in ReqType /\ job' \in JobType
      BY <2>1, Types
    <2> HIDE DEF y, f
    <2> QED
      BY <2>1, <2>2, <2>3, <2>4, <2>5, <2>6, <2>7, NewAccountInv
  <1> QED
    BY <1>1, <1>2

LEMMA AddByHandInv ==
    ASSUME IInv, NEW a \in Author, NEW known \in BOOLEAN, NEW f \in Profile,
           AddByHand(a, known, f),
           prof' \in ProfType, prof'[f] \in {"user", "auto", "emptied"},
           \A g \in Profile \ {f} : prof'[g] = prof[g]
    PROVE  IInv'
  <1> DEFINE y == NextAccount
  <1>1. y \in Account /\ acct[y].state = "unused"
    BY NextRows DEF AddByHand
  <1>2. /\ NewAccount(y, a, known, f) /\ req' = Added(req, None, f)
        /\ Enqueued(y) \/ UNCHANGED job
        /\ UNCHANGED <<link, run, failures>>
    BY DEF AddByHand
  <1>3. job' \in JobType
    BY <1>1, <1>2, EnqueuedType, Types
  <1>4. /\ run' \in RunType
        /\ \A q \in Post : run'[q].at \in {"enqueue", "link"} => run'[q].x \in Account
    BY <1>2, Types DEF IInv, RefersTo
  <1>5. /\ req' \in ReqType
        /\ \A r \in Request :
              /\ req'[r].op = req[r].op /\ req'[r].x = req[r].x /\ req'[r].f = req[r].f
              /\ req[r].stale => req'[r].stale
              /\ req[r].op = "remove" /\ req[r].f = f => req'[r].stale
    BY <1>2, AddedType, Types
  <1> HIDE DEF y
  <1> QED
    BY <1>1, <1>2, <1>3, <1>4, <1>5, NewAccountInv

\* A profile made by hand, empty or with its first account.
LEMMA CreateProfileInv == ASSUME IInv, CreateProfile PROVE IInv'
  <1> DEFINE f == NextProfile
  <1>1. f \in Profile /\ prof[f] = "unused"
    BY NextRows DEF CreateProfile
  <1>2. /\ prof' \in ProfType /\ prof'[f] = "user"
        /\ \A g \in Profile \ {f} : prof'[g] = prof[g]
    BY <1>1, Types DEF CreateProfile, ProfType
  <1>3. CASE \E a \in Author : AddByHand(a, FALSE, f)
    <2> HIDE DEF f
    <2> QED
      BY <1>1, <1>2, <1>3, AddByHandInv
  <1>4. CASE UNCHANGED <<acct, link, run, job, req, failures>>
    <2> HIDE DEF f
    <2>1. TypeOK'
      BY <1>1, <1>2, <1>4 DEF IInv, TypeOK, RefersTo, ProfType, Live, There
    <2>2. RefersTo'
      BY <1>2, <1>4 DEF IInv, RefersTo, Live
    <2>3. CountsHold' /\ NoStrayProfile'
      BY <1>2, <1>4 DEF IInv, CountsHold, NoStrayProfile, On, Linked, Live
    <2> QED
      BY <2>1, <2>2, <2>3 DEF IInv
  <1> QED
    BY <1>3, <1>4 DEF CreateProfile

LEMMA LinkAccountInv == ASSUME IInv, NEW f \in Profile, LinkAccount(f) PROVE IInv'
  <1>1. prof' = prof /\ prof' \in ProfType /\ prof[f] \in {"user", "auto", "emptied"}
    BY Types DEF LinkAccount, There
  <1> QED
    BY <1>1, AddByHandInv DEF LinkAccount

(***************************************************************************)
(* An account moves.  The profile it leaves counts as emptied by a user,   *)
(* a deletion of the one it arrives at is marked.                          *)
(***************************************************************************)
LEMMA MoveAccountInv ==
    ASSUME IInv, NEW x \in Account, NEW f \in Profile, MoveAccount(x, f)
    PROVE  IInv'
  <1> DEFINE g == acct[x].profile
  <1>1. g \in Profile /\ There(g) /\ There(f) /\ Live(x)
    BY DEF MoveAccount, IInv, TypeOK, RefersTo
  <1>2. /\ acct' \in [Account -> AccountRow]
        /\ acct'[x].profile = f
        /\ \A z \in Account : Live(z)' = Live(z)
        /\ \A z \in Account \ {x} : acct'[z] = acct[z]
    <2>1. acct \in [Account -> AccountRow] /\ acct[x] \in AccountRow
      BY Types
    <2>2. /\ [acct[x] EXCEPT !.profile = f] \in AccountRow
          /\ [acct[x] EXCEPT !.profile = f].profile = f
          /\ [acct[x] EXCEPT !.profile = f].state = acct[x].state
      BY <2>1 DEF AccountRow
    <2>3. acct' = [acct EXCEPT ![x] = [acct[x] EXCEPT !.profile = f]]
      BY <2>1 DEF MoveAccount
    <2> QED
      BY <2>1, <2>2, <2>3 DEF Live
  <1>3. /\ prof' \in ProfType /\ prof'[g] \in {"user", "emptied"}
        /\ \A h \in Profile \ {g} : prof'[h] = prof[h]
    BY <1>1, Types DEF MoveAccount, Emptied, ProfType, There
  <1>4. \A h \in Profile : There(h) => There(h)'
    BY <1>3 DEF There
  <1>5. /\ req' \in ReqType
        /\ \A r \in Request :
              /\ req'[r].op = req[r].op /\ req'[r].x = req[r].x /\ req'[r].f = req[r].f
              /\ req[r].stale => req'[r].stale
              /\ req[r].op = "remove" /\ req[r].f = f => req'[r].stale
    BY AddedType, Types DEF MoveAccount
  <1>6. UNCHANGED <<link, run, job, failures>>
    BY DEF MoveAccount
  <1> HIDE DEF g
  <1>7. TypeOK'
    <2>1. \A z \in Account : Live(z)' => There(acct[z].profile)'
      BY <1>1, <1>2, <1>4 DEF IInv, TypeOK, RefersTo
    <2>2. \A p \in Post : link'[p] # None => Live(link[p])'
      BY <1>2, <1>6, Types DEF IInv, TypeOK
    <2> QED
      BY <1>2, <1>3, <1>5, <1>6, <2>1, <2>2, Types
         DEF TypeOK, RunType, JobType, ReqType, ProfType
  <1>8. RefersTo'
    BY <1>2, <1>3, <1>5, <1>6 DEF IInv, RefersTo
  <1>9. \A h \in Profile : /\ h # f => On(h)' \subseteq On(h)
                           /\ h # g => On(h) \subseteq On(h)'
    BY <1>2 DEF On, g
  <1>10. CountsHold'
    <2>1. \A z : Linked(z)' = Linked(z)
      BY <1>6 DEF Linked
    <2> QED
      BY <1>5, <1>9, <2>1 DEF IInv, CountsHold, RefersTo
  <1>11. NoStrayProfile'
    BY <1>3, <1>9 DEF IInv, NoStrayProfile
  <1> QED
    BY <1>7, <1>8, <1>10, <1>11 DEF IInv

(***************************************************************************)
(* Deletions: what a request counts, and what it then deletes.             *)
(***************************************************************************)
LEMMA RequestStep ==
    ASSUME IInv, UNCHANGED <<acct, prof, link, run, job, failures>>,
           NEW r \in Request,
           NEW new \in [op : {"idle", "unlink", "remove"}, x : Account \cup {None},
                        f : Profile \cup {None}, stale : BOOLEAN],
           req' = [req EXCEPT ![r] = new],
           new.op = "unlink" => new.x \in Account /\ Linked(new.x) = {},
           new.op = "remove" => new.f \in Profile /\ There(new.f) /\ On(new.f) = {}
    PROVE  IInv'
  <1>1. /\ req' \in ReqType /\ req'[r] = new
        /\ \A q \in Request \ {r} : req'[q] = req[q]
    BY Types DEF ReqType
  <1>2. TypeOK'
    BY <1>1 DEF IInv, TypeOK, ReqType, Live, There
  <1>3. RefersTo'
    BY <1>1 DEF IInv, RefersTo, Live, There
  <1>4. (\A f : On(f)' = On(f)) /\ (\A x : Linked(x)' = Linked(x))
    BY DEF On, Linked, Live
  <1>5. CountsHold'
    BY <1>1, <1>4 DEF IInv, CountsHold
  <1>6. NoStrayProfile'
    BY <1>4 DEF IInv, NoStrayProfile
  <1> QED
    BY <1>2, <1>3, <1>5, <1>6 DEF IInv

LEMMA CountsInv ==
    ASSUME IInv, NEW r \in Request,
           (\E x \in Account : CountPosts(r, x)) \/ (\E f \in Profile : CountAccounts(r, f))
    PROVE  IInv'
  <1>1. ASSUME NEW x \in Account, CountPosts(r, x) PROVE IInv'
    <2> DEFINE new == [op |-> "unlink", x |-> x, f |-> None, stale |-> FALSE]
    <2>1. /\ new \in [op : {"idle", "unlink", "remove"}, x : Account \cup {None},
                      f : Profile \cup {None}, stale : BOOLEAN]
          /\ new.op = "unlink" /\ new.x = x
      OBVIOUS
    <2>2. /\ req' = [req EXCEPT ![r] = new] /\ Linked(x) = {}
          /\ UNCHANGED <<acct, prof, link, run, job, failures>>
      BY <1>1 DEF CountPosts, Begin
    <2> HIDE DEF new
    <2> QED
      BY <2>1, <2>2, RequestStep
  <1>2. ASSUME NEW f \in Profile, CountAccounts(r, f) PROVE IInv'
    <2> DEFINE new == [op |-> "remove", x |-> None, f |-> f, stale |-> FALSE]
    <2>1. /\ new \in [op : {"idle", "unlink", "remove"}, x : Account \cup {None},
                      f : Profile \cup {None}, stale : BOOLEAN]
          /\ new.op = "remove" /\ new.f = f
      OBVIOUS
    <2>2. /\ req' = [req EXCEPT ![r] = new] /\ There(f) /\ On(f) = {}
          /\ UNCHANGED <<acct, prof, link, run, job, failures>>
      BY <1>2 DEF CountAccounts, Begin
    <2> HIDE DEF new
    <2> QED
      BY <2>1, <2>2, RequestStep
  <1> QED
    BY <1>1, <1>2

\* Accounts go with their links, and leave no profile behind that nobody emptied.
LEMMA DropInv ==
    ASSUME IInv, NEW r \in Request, NEW xs \in SUBSET Account, End(r), Drop(xs),
           UNCHANGED <<run, job, failures>>, prof' \in ProfType,
           \A f \in Profile : /\ prof'[f] = "auto" => prof[f] = "auto" /\ On(f) \cap xs = {}
                              /\ prof[f] # "unused" => prof'[f] # "unused",
           \A y \in Account \ xs : Live(y) => There(acct[y].profile)'
    PROVE  IInv'
  <1>1. /\ req' \in ReqType /\ req'[r].op = "idle"
        /\ \A q \in Request \ {r} : req'[q] = req[q]
    BY Types DEF End, NoReq, ReqType
  <1>2. /\ acct' \in [Account -> AccountRow]
        /\ \A x \in Account \ xs : acct'[x] = acct[x] /\ Live(x)' = Live(x)
        /\ \A x \in xs : ~Live(x)'
    <2>1. Deleted \in AccountRow /\ Deleted.state = "gone"
      BY DEF Deleted, Unused, AccountRow
    <2>2. acct' = [x \in Account |-> IF x \in xs THEN Deleted ELSE acct[x]]
      BY DEF Drop
    <2> QED
      BY <2>1, <2>2, Types DEF Live
  <1>3. link' = [p \in Post |-> IF link[p] \in xs THEN None ELSE link[p]]
    BY DEF Drop
  <1>4. TypeOK'
    <2>1. \A x \in Account : Live(x)' => There(acct[x].profile)'
      BY <1>2
    <2>2. link' \in [Post -> Account \cup {None}]
      BY <1>3, Types
    <2>3. ASSUME NEW p \in Post, link'[p] # None PROVE Live(link[p])'
      <3>1. link'[p] = link[p] /\ link[p] \in Account \ xs /\ Live(link[p])
        BY <1>3, <2>3, Types DEF IInv, TypeOK
      <3>2. acct'[link[p]].state = "live"
        BY <1>2, <3>1 DEF Live
      <3> QED
        BY <3>1, <3>2 DEF Live
    <2> QED
      BY <1>1, <1>2, <2>1, <2>2, <2>3, Types
         DEF TypeOK, RunType, JobType, ReqType, ProfType
  <1>5. RefersTo'
    BY <1>1, <1>2 DEF IInv, RefersTo
  <1>6. \A f : /\ On(f)' \subseteq On(f)
               /\ On(f) \cap xs = {} => On(f)' = On(f)
    BY <1>2 DEF On
  <1>7. \A x \in Account : Linked(x)' \subseteq Linked(x)
    BY <1>3, SocialAssumption DEF Linked
  <1>8. CountsHold'
    <2> SUFFICES ASSUME NEW q \in Request, ~req'[q].stale, req'[q].op # "idle"
                 PROVE  /\ req'[q].op = "unlink" => Linked(req[q].x)' = {}
                        /\ req'[q].op = "remove" => On(req[q].f)' = {}
      BY DEF CountsHold
    <2> QED
      BY <1>1, <1>6, <1>7 DEF IInv, CountsHold, RefersTo
  <1>9. NoStrayProfile'
    BY <1>6 DEF IInv, NoStrayProfile
  <1> QED
    BY <1>4, <1>5, <1>8, <1>9 DEF IInv

LEMMA EndsInv ==
    ASSUME IInv, NEW r \in Request, End(r),
           UNCHANGED <<acct, prof, link, run, job, failures>>
    PROVE  IInv'
  <1>1. /\ NoReq \in [op : {"idle", "unlink", "remove"}, x : Account \cup {None},
                      f : Profile \cup {None}, stale : BOOLEAN]
        /\ NoReq.op = "idle" /\ req' = [req EXCEPT ![r] = NoReq]
    BY DEF NoReq, End
  <1> QED
    BY <1>1, RequestStep

LEMMA UnlinkAccountInv == ASSUME IInv, NEW r \in Request, UnlinkAccount(r) PROVE IInv'
  <1> DEFINE x == req[r].x
             f == acct[x].profile
  <1>1. x \in Account
    BY DEF UnlinkAccount, IInv, RefersTo
  <1>2. CASE ~Live(x)
    BY <1>2, EndsInv DEF UnlinkAccount
  <1>3. CASE Live(x)
    <2>1. /\ End(r) /\ Drop({x}) /\ prof' = [prof EXCEPT ![f] = Emptied(f)]
          /\ UNCHANGED <<run, job, failures>>
      BY <1>3 DEF UnlinkAccount
    <2>2. f \in Profile /\ There(f)
      BY <1>1, <1>3 DEF IInv, TypeOK, RefersTo
    <2>3. /\ prof' \in ProfType /\ prof'[f] \in {"user", "emptied"}
          /\ \A g \in Profile \ {f} : prof'[g] = prof[g]
      BY <2>1, <2>2, Types DEF Emptied, ProfType, There
    <2>4. \A g \in Profile \ {f} : On(g) \cap {x} = {}
      BY DEF On
    <2>5. \A y \in Account \ {x} : Live(y) => There(acct[y].profile)'
      <3>1. \A g \in Profile : There(g) => There(g)'
        BY <2>3 DEF There
      <3>2. \A y \in Account : Live(y) => acct[y].profile \in Profile /\ There(acct[y].profile)
        BY DEF IInv, TypeOK, RefersTo
      <3>3. \A y \in Account \ {x} : Live(y) => acct'[y] = acct[y]
        BY <2>1 DEF Drop
      <3> QED
        BY <3>1, <3>2, <3>3
    <2> HIDE DEF f, x
    <2> QED
      BY <1>1, <2>1, <2>2, <2>3, <2>4, <2>5, DropInv
  <1> QED
    BY <1>2, <1>3

LEMMA RemoveProfileInv == ASSUME IInv, NEW r \in Request, RemoveProfile(r) PROVE IInv'
  <1> DEFINE f == req[r].f
  <1>1. f \in Profile
    BY DEF RemoveProfile, IInv, RefersTo
  <1>2. CASE ~There(f)
    BY <1>2, EndsInv DEF RemoveProfile
  <1>3. CASE There(f)
    <2>1. /\ End(r) /\ Drop(On(f)) /\ prof' = [prof EXCEPT ![f] = "gone"]
          /\ UNCHANGED <<run, job, failures>>
      BY <1>3 DEF RemoveProfile
    <2>2. /\ prof' \in ProfType /\ prof'[f] = "gone"
          /\ \A g \in Profile \ {f} : prof'[g] = prof[g]
      BY <1>1, <2>1, Types DEF ProfType
    <2>3. \A g \in Profile \ {f} : On(g) \cap On(f) = {}
      BY DEF On
    <2>4. \A y \in Account \ On(f) : Live(y) => There(acct[y].profile)'
      <3>1. \A y \in Account \ On(f) : Live(y) =>
               acct[y].profile \in Profile \ {f} /\ There(acct[y].profile)
        BY DEF IInv, TypeOK, RefersTo, On
      <3>2. \A y \in Account \ On(f) : acct'[y] = acct[y]
        BY <2>1 DEF Drop
      <3> QED
        BY <2>2, <3>1, <3>2 DEF There
    <2>5. On(f) \in SUBSET Account
      BY DEF On
    <2> HIDE DEF f
    <2> QED
      BY <2>1, <2>2, <2>3, <2>4, <2>5, DropInv
  <1> QED
    BY <1>2, <1>3

LEMMA SocialNext == IInv /\ [Next]_vars => IInv'
  <1> SUFFICES ASSUME IInv, [Next]_vars PROVE IInv'
    OBVIOUS
  <1>1. ASSUME NEW p \in Post, Runs(p) \/ RunFails(p) PROVE IInv'
    BY <1>1, RunAwaits, CreateAccountInv, CreateLinkInv DEF Runs
  <1>2. ASSUME NEW x \in Account, Polls(x) \/ PollAccount(x) PROVE IInv'
    BY <1>2, PollAwaits, UpdateAccountInv DEF Polls
  <1>3. CASE Requests
    BY <1>3, CreateProfileInv, LinkAccountInv, MoveAccountInv, CountsInv,
       UnlinkAccountInv, RemoveProfileInv DEF Requests
  <1>4. CASE UNCHANGED vars
    BY <1>4, QuietStep, Types DEF vars, IInv, RefersTo
  <1> QED
    BY <1>1, <1>2, <1>3, <1>4 DEF Next

LEMMA SocialInvariance == Spec => []IInv
  BY SocialInit, SocialNext, PTL DEF Spec

\* Rows, links, runs, poll jobs and deletions keep their shape: an account's
\* profile is there, a link's account is (the foreign keys).
THEOREM SocialTypeCorrect == Spec => []TypeOK
  <1>1. IInv => TypeOK
    BY DEF IInv
  <1> QED
    BY <1>1, SocialInvariance, PTL

\* However many runs meet the same new author, and however users move and unlink
\* accounts meanwhile, ensureAuthorLinked leaves no profile without an account.
THEOREM NoProfileStrays == Spec => []NoStrayProfile
  <1>1. IInv => NoStrayProfile
    BY DEF IInv
  <1> QED
    BY <1>1, SocialInvariance, PTL

-----------------------------------------------------------------------------
(***************************************************************************)
(* What disappears in a step.  Only the second half of a deletion takes    *)
(* rows away; unless it was marked, it finds what it counted: nothing.     *)
(***************************************************************************)
Kept == /\ \A x \in Account : Live(x) => acct'[x].state # "gone"
        /\ \A f \in Profile : There(f) => prof'[f] # "gone"

LEMMA RowsKept ==
    ASSUME IInv,
           \/ \E p \in Post : Runs(p) \/ RunFails(p)
           \/ \E x \in Account : Polls(x) \/ PollAccount(x)
           \/ CreateProfile
           \/ \E f \in Profile : LinkAccount(f) \/ \E x \in Account : MoveAccount(x, f)
           \/ \E r \in Request : \/ \E x \in Account : CountPosts(r, x)
                                 \/ \E f \in Profile : CountAccounts(r, f)
    PROVE  Kept
  <1>1. UNCHANGED <<acct, prof>> => Kept
    BY DEF Kept, Live, There
  <1>2. ASSUME NEW y \in Account, NEW a, NEW known, NEW f, NewAccount(y, a, known, f)
        PROVE  \A x \in Account : Live(x) => acct'[x].state # "gone"
    BY <1>2, Types DEF NewAccount, Live
  <1>3. ASSUME NEW f \in Profile, NEW s \in {"user", "auto", "emptied"},
               prof' = [prof EXCEPT ![f] = s]
        PROVE  \A g \in Profile : There(g) => prof'[g] # "gone"
    BY <1>3, Types DEF ProfType, There
  <1>4. ASSUME NEW p \in Post, Runs(p) \/ RunFails(p) PROVE Kept
    <2>1. CASE CreateAccount(p)
      <3>1. CASE UNCHANGED <<acct, prof>>
        BY <1>1, <3>1
      <3>2. CASE /\ Spare(0) /\ prof' = [prof EXCEPT ![NextProfile] = "auto"]
                 /\ NewAccount(NextAccount, AuthorOf[p], TRUE, NextProfile)
        <4>1. NextAccount \in Account /\ NextProfile \in Profile
          BY <3>2, NextRows DEF Spare
        <4> QED
          BY <1>2, <1>3, <3>2, <4>1 DEF Kept
      <3> QED
        BY <2>1, <3>1, <3>2 DEF CreateAccount
    <2>2. CASE ~CreateAccount(p)
      BY <1>1, <1>4, <2>2 DEF Runs, RunFails, FindLink, FindAccount, EnqueueNew, CreateLink
    <2> QED
      BY <2>1, <2>2
  <1>5. ASSUME NEW x \in Account, Polls(x) \/ PollAccount(x) PROVE Kept
    <2>1. CASE UpdateAccount(x)
      <3>1. prof' = prof /\ (acct' = acct \/ acct' = [acct EXCEPT ![x].known = TRUE])
        BY <2>1 DEF UpdateAccount
      <3>2. \A y \in Account : acct'[y].state = acct[y].state
        BY <3>1, Types DEF AccountRow
      <3> QED
        BY <3>1, <3>2 DEF Kept, Live, There
    <2>2. CASE ~UpdateAccount(x)
      BY <1>1, <1>5, <2>2 DEF Polls, LoadAndFetch, FindOwner, PollAccount
    <2> QED
      BY <2>1, <2>2
  <1>6. ASSUME NEW a, NEW known, NEW f, AddByHand(a, known, f)
        PROVE  \A x \in Account : Live(x) => acct'[x].state # "gone"
    <2>1. NextAccount \in Account
      BY <1>6, NextRows DEF AddByHand
    <2> QED
      BY <1>2, <1>6, <2>1 DEF AddByHand
  <1>7. CASE CreateProfile
    <2>1. NextProfile \in Profile
      BY <1>7, NextRows DEF CreateProfile
    <2>2. \A x \in Account : Live(x) => acct'[x].state # "gone"
      BY <1>6, <1>7 DEF CreateProfile, Live
    <2> QED
      BY <1>3, <1>7, <2>1, <2>2 DEF CreateProfile, Kept
  <1>8. ASSUME NEW f \in Profile, LinkAccount(f) PROVE Kept
    BY <1>6, <1>8 DEF LinkAccount, Kept, There
  <1>9. ASSUME NEW x \in Account, NEW f \in Profile, MoveAccount(x, f) PROVE Kept
    <2>1. prof' = [prof EXCEPT ![acct[x].profile] = Emptied(acct[x].profile)]
          /\ acct' = [acct EXCEPT ![x].profile = f]
      BY <1>9 DEF MoveAccount
    <2>2. acct[x].profile \in Profile /\ There(acct[x].profile)
      BY <1>9 DEF MoveAccount, IInv, RefersTo, TypeOK
    <2>3. Emptied(acct[x].profile) \in {"user", "auto", "emptied"}
      BY <2>2 DEF Emptied, There
    <2>4. \A y \in Account : acct'[y].state = acct[y].state
      BY <2>1, Types DEF AccountRow
    <2> QED
      BY <1>3, <2>1, <2>2, <2>3, <2>4 DEF Kept, Live
  <1>10. ASSUME NEW r \in Request, (\E x \in Account : CountPosts(r, x))
                                   \/ (\E f \in Profile : CountAccounts(r, f))
         PROVE  Kept
    BY <1>1, <1>10 DEF CountPosts, CountAccounts, Begin
  <1> QED
    BY <1>4, <1>5, <1>7, <1>8, <1>9, <1>10

\* A deletion that ends takes its mark with it: the step is the one Stale is about.
LEMMA StaleEnds ==
    ASSUME IInv, NEW r \in Request, End(r), req[r].stale
    PROVE  Stale
  BY Types DEF Stale, End, NoReq, ReqType

\* unlinkAccount and remove count the linked posts and the accounts before another
\* await, and the database cascades: what they take away without having counted
\* it was added between the two, always.
THEOREM NothingIsLost == Spec => NothingLost
  <1> DEFINE Step == /\ \A x \in Account :
                           Live(x) /\ acct'[x].state = "gone" => Stale \/ Linked(x) = {}
                     /\ \A f \in Profile :
                           There(f) /\ prof'[f] = "gone" => Stale \/ On(f) = {}
  <1>1. IInv /\ [Next]_vars => [Step]_vars
    <2> SUFFICES ASSUME IInv, Next PROVE Step
      BY DEF vars
    <2>1. Kept => Step
      BY DEF Kept
    <2>2. ASSUME NEW r \in Request, UnlinkAccount(r) PROVE Step
      <3>1. req[r].stale => Stale
        BY <2>2, StaleEnds DEF UnlinkAccount
      <3>2. ~req[r].stale => Linked(req[r].x) = {}
        BY <2>2 DEF UnlinkAccount, IInv, CountsHold
      <3>3. ASSUME NEW x \in Account, Live(x), acct'[x].state = "gone" PROVE x = req[r].x
        BY <2>2, <3>3 DEF UnlinkAccount, Drop, Live
      <3>4. ASSUME NEW f \in Profile, There(f) PROVE prof'[f] # "gone"
        <4>1. CASE prof' = prof
          BY <3>4, <4>1 DEF There
        <4>2. CASE prof' = [prof EXCEPT ![acct[req[r].x].profile] =
                                        Emptied(acct[req[r].x].profile)]
          BY <3>4, <4>2, Types DEF Emptied, There, ProfType
        <4> QED
          BY <2>2, <4>1, <4>2 DEF UnlinkAccount
      <3> QED
        BY <3>1, <3>2, <3>3, <3>4
    <2>3. ASSUME NEW r \in Request, RemoveProfile(r) PROVE Step
      <3>1. req[r].stale => Stale
        BY <2>3, StaleEnds DEF RemoveProfile
      <3>2. ~req[r].stale => On(req[r].f) = {}
        BY <2>3 DEF RemoveProfile, IInv, CountsHold
      <3>3. ASSUME NEW x \in Account, Live(x), acct'[x].state = "gone"
            PROVE  x \in On(req[r].f)
        BY <2>3, <3>3 DEF RemoveProfile, Drop, Live
      <3>4. ASSUME NEW f \in Profile, There(f), prof'[f] = "gone" PROVE f = req[r].f
        <4>1. prof' = prof \/ prof' = [prof EXCEPT ![req[r].f] = "gone"]
          BY <2>3 DEF RemoveProfile
        <4> QED
          BY <3>4, <4>1, Types DEF There, ProfType
      <3> QED
        BY <3>1, <3>2, <3>3, <3>4
    <2> QED
      BY <2>1, <2>2, <2>3, RowsKept DEF Next, Requests
  <1> QED
    BY <1>1, SocialInvariance, PTL DEF Spec, NothingLost
=============================================================================
