------------------------------ MODULE Projects ------------------------------
(***************************************************************************)
(* One project: its archiving against the campaigns in it, and who is a    *)
(* member of the project or of one campaign only.  Handlers of             *)
(* projects.service.ts and campaigns.service.ts read and check first and   *)
(* write after another await; a request under way is one that has checked  *)
(* and will write.                                                         *)
(***************************************************************************)
EXTENDS CampaignStatus

CONSTANTS
    Campaign,    \* rows the campaigns table may get for this project
    User,        \* users of the platform, administrators apart
    MemberRole,  \* ProjectRole
    Request,     \* handlers that may be under way
    None         \* no row, no campaign, no user, no value

ASSUME NullAssumption == None \notin Status \cup MemberRole \cup Campaign \cup User

VARIABLES
    active,      \* projects.active
    status,      \* campaigns.status, or "DELETED"
    member,      \* the role in project_memberships
    direct,      \* the role in campaign_memberships
    req,         \* the requests
    raced        \* history: two requests that rely on each other overlapped

vars == <<active, status, member, direct, req, raced>>

Op   == {"create", "status", "remove", "archive", "unarchive",
         "add", "update", "expel", "addDirect", "updateDirect", "expelDirect"}
Idle == [op |-> "idle", c |-> None, u |-> None, to |-> None]

TypeOK ==
    /\ active \in BOOLEAN
    /\ status \in [Campaign -> Status \cup {None, "DELETED"}]
    /\ member \in [User -> MemberRole \cup {None}]
    /\ direct \in [Campaign -> [User -> MemberRole \cup {None}]]
    /\ req \in [Request -> [op : Op \cup {"idle"}, c : Campaign \cup {None},
                            u : User \cup {None},
                            to : MemberRole \cup (Status \ {"DRAFT"}) \cup {None}]]
    /\ raced \in BOOLEAN

Init ==
    /\ active = TRUE
    /\ status = [c \in Campaign |-> None]
    /\ member = [u \in User |-> None]
    /\ direct = [c \in Campaign |-> [u \in User |-> None]]
    /\ req = [r \in Request |-> Idle]
    /\ raced = FALSE

Exists(c) == status[c] \in Status           \* findOne
Rows      == <<active, status, member, direct>>

-----------------------------------------------------------------------------
\* What a handler reads and checks before it writes

Checked(r, op, c, u, to) ==
    /\ req[r].op = "idle"
    /\ req' = [req EXCEPT ![r] = [op |-> op, c |-> c, u |-> u, to |-> to]]
    /\ UNCHANGED <<Rows, raced>>

CheckCreate(r, c) == active /\ Checked(r, "create", c, None, None)

\* Mutant: every status may follow every other.
CheckStatusAny(r, c, to) ==
    /\ Exists(c)
    /\ Checked(r, "status", c, None, to)

CheckStatus(r, c, to) ==
    /\ Exists(c) /\ ValidTransition(status[c], to)
    /\ Checked(r, "status", c, None, to)

CheckRemove(r, c) == Exists(c) /\ Checked(r, "remove", c, None, None)

\* Mutant: only running campaigns stand in the way.
CheckArchiveUnlessActive(r) ==
    /\ active /\ \A c \in Campaign : status[c] # "ACTIVE"
    /\ Checked(r, "archive", None, None, None)

CheckArchive(r) ==
    /\ active /\ \A c \in Campaign : Exists(c) => status[c] = "COMPLETED"
    /\ Checked(r, "archive", None, None, None)

CheckUnarchive(r) == ~active /\ Checked(r, "unarchive", None, None, None)

CheckAdd(r, u, role) ==
    /\ active /\ member[u] = None
    /\ Checked(r, "add", None, u, role)

\* Mutant: roles in an archived project may be changed.
CheckUpdateAnyProject(r, u, role) ==
    /\ member[u] # None
    /\ Checked(r, "update", None, u, role)

CheckUpdate(r, u, role) ==
    /\ active /\ member[u] # None
    /\ Checked(r, "update", None, u, role)

CheckExpel(r, u) == active /\ member[u] # None /\ Checked(r, "expel", None, u, None)

\* Mutant: project members may be added to a campaign.
CheckAddDirectAnyone(r, c, u, role) ==
    /\ Exists(c) /\ direct[c][u] = None
    /\ Checked(r, "addDirect", c, u, role)

CheckAddDirect(r, c, u, role) ==
    /\ Exists(c) /\ member[u] = None /\ direct[c][u] = None
    /\ Checked(r, "addDirect", c, u, role)

CheckUpdateDirect(r, c, u, role) ==
    /\ direct[c][u] # None
    /\ Checked(r, "updateDirect", c, u, role)

CheckExpelDirect(r, c, u) ==
    /\ direct[c][u] # None
    /\ Checked(r, "expelDirect", c, u, None)

-----------------------------------------------------------------------------
\* The write

\* Requests one of which checked what the other writes.
Conflict(a, b) ==
    \/ a.op = "archive" /\ b.op \in {"create", "status", "add", "update"}
    \/ a.op = "status" /\ b.op = "status" /\ a.c = b.c
    \/ a.op = "add" /\ b.op = "addDirect" /\ a.u = b.u

Overlaps(r) ==
    \E q \in Request \ {r} : Conflict(req[r], req[q]) \/ Conflict(req[q], req[r])

Writes(r, op) ==
    /\ req[r].op = op
    /\ req' = [req EXCEPT ![r] = Idle]
    /\ raced' = (raced \/ Overlaps(r))

WriteStatus(r) ==
    /\ \/ Writes(r, "create")
          /\ status' = [status EXCEPT ![req[r].c] =
                          IF status[req[r].c] = None THEN "DRAFT" ELSE @]
       \/ Writes(r, "status")
          /\ status' = [status EXCEPT ![req[r].c] =
                          IF Exists(req[r].c) THEN req[r].to ELSE @]
       \/ Writes(r, "remove")
          /\ status' = [status EXCEPT ![req[r].c] = "DELETED"]
    /\ UNCHANGED <<active, member, direct>>

WriteActive(r) ==
    /\ \/ Writes(r, "archive") /\ active' = FALSE
       \/ Writes(r, "unarchive") /\ active' = TRUE
    /\ UNCHANGED <<status, member, direct>>

\* Creating a row that is there, and changing one that is not, throws.
WriteMember(r) ==
    /\ LET u == req[r].u
       IN  \/ /\ Writes(r, "add") \/ Writes(r, "update")
              /\ member' = IF (req[r].op = "add") <=> (member[u] = None)
                             THEN [member EXCEPT ![u] = req[r].to] ELSE member
           \/ /\ Writes(r, "expel")
              /\ member' = [member EXCEPT ![u] = None]
    /\ UNCHANGED <<active, status, direct>>

WriteDirect(r) ==
    /\ LET c == req[r].c
           u == req[r].u
       IN  \/ /\ Writes(r, "addDirect") \/ Writes(r, "updateDirect")
              /\ direct' = IF (req[r].op = "addDirect") <=> (direct[c][u] = None)
                             THEN [direct EXCEPT ![c][u] = req[r].to] ELSE direct
           \/ /\ Writes(r, "expelDirect")
              /\ direct' = [direct EXCEPT ![c][u] = None]
    /\ UNCHANGED <<active, status, member>>

-----------------------------------------------------------------------------
\* removeUserMembership asks nothing of the project; removeUser cascades.

RemoveUserMembership(u) ==
    /\ member[u] # None
    /\ member' = [member EXCEPT ![u] = None]
    /\ UNCHANGED <<active, status, direct, req, raced>>

Fail(r) ==
    /\ req[r].op # "idle"
    /\ req' = [req EXCEPT ![r] = Idle]
    /\ UNCHANGED <<Rows, raced>>

CheckSome(r) ==
    \/ CheckArchive(r) \/ CheckUnarchive(r)
    \/ \E c \in Campaign :
          \/ CheckCreate(r, c) \/ CheckRemove(r, c)
          \/ \E to \in Status : CheckStatus(r, c, to)
    \/ \E u \in User :
          \/ CheckExpel(r, u)
          \/ \E role \in MemberRole : CheckAdd(r, u, role) \/ CheckUpdate(r, u, role)
          \/ \E c \in Campaign :
                \/ CheckExpelDirect(r, c, u)
                \/ \E role \in MemberRole : \/ CheckAddDirect(r, c, u, role)
                                            \/ CheckUpdateDirect(r, c, u, role)

Next ==
    \/ \E r \in Request :
          \/ CheckSome(r)
          \/ WriteStatus(r) \/ WriteActive(r) \/ WriteMember(r) \/ WriteDirect(r)
          \/ Fail(r)
    \/ \E u \in User : RemoveUserMembership(u)

Spec == Init /\ [][Next]_vars

-----------------------------------------------------------------------------
(***************************************************************************)
(* Properties                                                              *)
(***************************************************************************)

\* Nothing runs in an archived project: its campaigns are completed or deleted
\* and stay so, through archiving, status changes, deletions and unarchiving,
\* until a creation, a status change and an archiving overlap.
ArchivedMeansDone ==
    ~active /\ ~raced => \A c \in Campaign : status[c] \in {None, "COMPLETED", "DELETED"}

\* While a project is archived nobody joins it and no role in it changes; an
\* administrator may still take a user out of it.
MembersFrozen ==
    [][~active /\ ~raced => \A u \in User : member'[u] \in {member[u], None}]_vars

\* Direct membership of a campaign is given to outsiders of the project only,
\* even when the user joins the project meanwhile, unless the two overlap.
DirectForOutsiders ==
    [][\A c \in Campaign, u \in User :
          direct[c][u] = None /\ direct'[c][u] # None => member[u] = None \/ raced']_vars
=============================================================================
