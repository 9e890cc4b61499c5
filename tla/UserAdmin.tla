----------------------------- MODULE UserAdmin -----------------------------
(***************************************************************************)
(* The users of the platform and the rule that one administrator is left:  *)
(* role changes, disabling, enabling and removal of users by admin.service *)
(* with the awaits between the guard, the two reads and the write.  Its    *)
(* names are its own, so that a module may extend Projects beside it.      *)
(***************************************************************************)
EXTENDS Naturals, FiniteSets

CONSTANTS
    Account,     \* rows the users table may get
    Handler,     \* requests that may be under way
    NoUser       \* no row

ASSUME UserAssumption == IsFiniteSet(Account) /\ NoUser \notin Account

VARIABLES
    standing,    \* users.status
    globalRole,  \* users.role
    asked,       \* the handlers
    overtaken,   \* history: a write landed between another's count and write
    lockedOut    \* history: an administrator was locked by wrong passwords

userVars == <<standing, globalRole, asked, overtaken, lockedOut>>

\* A row that was not created yet is "NONE"; ids are not used again.
UserStatus == {"NONE", "INVITED", "ACTIVE", "INACTIVE", "GONE"}
GlobalRole == {"ADMIN", "AUTHORIZED_USER"}
Kind == {"demote", "promote", "disable", "enable", "remove"}
Removal == {"demote", "disable", "remove"}
NotAsking == [at |-> "idle", kind |-> "enable", of |-> NoUser]

UsersTyped ==
    /\ standing \in [Account -> UserStatus]
    /\ globalRole \in [Account -> GlobalRole]
    /\ asked \in [Handler -> [at : {"idle", "find", "count", "write"},
                              kind : Kind, of : Account \cup {NoUser}]]
    /\ overtaken \in BOOLEAN /\ lockedOut \in BOOLEAN
    /\ \A r \in Handler : /\ asked[r].at # "idle" => asked[r].of \in Account
                          /\ asked[r].at = "count" => asked[r].kind \in Removal

UserExists(u) == standing[u] \notin {"NONE", "GONE"}

ActiveAdmins == {u \in Account : globalRole[u] = "ADMIN" /\ standing[u] = "ACTIVE"}

\* The seed creates the first administrator.
UsersInit ==
    /\ standing \in [Account -> {"ACTIVE", "NONE"}]
    /\ globalRole \in [Account -> GlobalRole]
    /\ ActiveAdmins # {}
    /\ asked = [r \in Handler |-> NotAsking]
    /\ overtaken = FALSE /\ lockedOut = FALSE

Goto(r, l) == asked' = [asked EXCEPT ![r].at = l]
Settle(r)  == asked' = [asked EXCEPT ![r] = NotAsking]

-----------------------------------------------------------------------------

Invite(u, as) ==
    /\ ActiveAdmins # {}
    /\ standing[u] = "NONE"
    /\ standing' = [standing EXCEPT ![u] = "INVITED"]
    /\ globalRole' = [globalRole EXCEPT ![u] = as]
    /\ UNCHANGED <<asked, overtaken, lockedOut>>

Accept(u) ==
    /\ standing[u] = "INVITED"
    /\ standing' = [standing EXCEPT ![u] = "ACTIVE"]
    /\ UNCHANGED <<globalRole, asked, overtaken, lockedOut>>

\* login: nothing spares the last administrator here.
LockOut(u) ==
    /\ standing[u] = "ACTIVE"
    /\ standing' = [standing EXCEPT ![u] = "INACTIVE"]
    /\ lockedOut' = (lockedOut \/ globalRole[u] = "ADMIN")
    /\ UNCHANGED <<globalRole, asked, overtaken>>

\* The guards let an active administrator through; ensureNotSelf.
Ask(r, kind, u) ==
    /\ asked[r].at = "idle"
    /\ ActiveAdmins \ (IF kind = "enable" THEN {} ELSE {u}) # {}
    /\ asked' = [asked EXCEPT ![r] = [at |-> "find", kind |-> kind, of |-> u]]
    /\ UNCHANGED <<standing, globalRole, overtaken, lockedOut>>

Find(r) ==
    /\ asked[r].at = "find"
    /\ LET u == asked[r].of
       IN  IF ~UserExists(u) THEN Settle(r)
           ELSE Goto(r, IF asked[r].kind \in Removal /\ globalRole[u] = "ADMIN"
                          THEN "count" ELSE "write")
    /\ UNCHANGED <<standing, globalRole, overtaken, lockedOut>>

\* Mutant: administrators that are disabled are counted too.
CountAnyStatus(r) ==
    /\ asked[r].at = "count"
    /\ IF \E u \in Account \ {asked[r].of} : globalRole[u] = "ADMIN" /\ UserExists(u)
         THEN Goto(r, "write") ELSE Settle(r)
    /\ UNCHANGED <<standing, globalRole, overtaken, lockedOut>>

EnsureNotLastAdmin(r) ==
    /\ asked[r].at = "count"
    /\ IF ActiveAdmins \ {asked[r].of} = {} THEN Settle(r) ELSE Goto(r, "write")
    /\ UNCHANGED <<standing, globalRole, overtaken, lockedOut>>

Unsafe(r, u) ==
    \E q \in Handler \ {r} :
        asked[q].at = "write" /\ asked[q].kind \in Removal /\ asked[q].of # u

Write(r) ==
    /\ asked[r].at = "write"
    /\ Settle(r)
    /\ LET u == asked[r].of
           k == asked[r].kind
       IN  IF ~UserExists(u) THEN UNCHANGED <<standing, globalRole, overtaken>>
           ELSE /\ standing' = [standing EXCEPT ![u] =
                     CASE k = "disable" -> "INACTIVE"
                       [] k = "enable"  -> "ACTIVE"
                       [] k = "remove"  -> "GONE"
                       [] OTHER         -> standing[u]]
                /\ globalRole' = [globalRole EXCEPT ![u] =
                     CASE k = "demote"  -> "AUTHORIZED_USER"
                       [] k = "promote" -> "ADMIN"
                       [] OTHER         -> globalRole[u]]
                /\ overtaken' = (overtaken \/ (k \in Removal /\ Unsafe(r, u)))
    /\ UNCHANGED lockedOut

AskFails(r) ==
    /\ asked[r].at # "idle"
    /\ Settle(r)
    /\ UNCHANGED <<standing, globalRole, overtaken, lockedOut>>

UsersNext ==
    \/ \E u \in Account : Accept(u) \/ LockOut(u) \/ \E as \in GlobalRole : Invite(u, as)
    \/ \E r \in Handler :
          \/ \E k \in Kind, u \in Account : Ask(r, k, u)
          \/ Find(r) \/ EnsureNotLastAdmin(r) \/ Write(r) \/ AskFails(r)

UsersSpec == UsersInit /\ [][UsersNext]_userVars

-----------------------------------------------------------------------------
(***************************************************************************)
(* Properties                                                              *)
(***************************************************************************)

\* Somebody can still administer the platform: however requests overlap up to
\* their counts, and whoever is promoted, enabled or removed meanwhile, an
\* active administrator is left, unless one removal was written after another
\* had counted, or wrong passwords locked an administrator out.
AdminLeft == overtaken \/ lockedOut \/ ActiveAdmins # {}
=============================================================================
