--------------------------- MODULE Access_proofs ---------------------------
(***************************************************************************)
(* Who may do what: the project that is archived while requests are under  *)
(* way, its members and those of its campaigns, and the guards that read   *)
(* them, for any users, campaigns, roles and number of requests; and the   *)
(* rule of the last administrator, for any accounts and handlers.          *)
(***************************************************************************)
EXTENDS ProjectAccess, UserAdmin, TLAPS

(***************************************************************************)
(* Projects.  ArchivedMeansDone is not inductive: it says nothing of the   *)
(* requests that have checked and not yet written.  A request to archive   *)
(* must find the campaigns done still, and an archived project must have   *)
(* no request left that would start something or change a role in it.      *)
(***************************************************************************)
Done == \A c \in Campaign : status[c] \in {None, "COMPLETED", "DELETED"}

Starting == {"create", "status", "add", "update"}

Quiet == \A r \in Request : req[r].op \notin Starting

ChecksHold ==
    ~raced =>
       /\ \A r \in Request : req[r].op = "archive" => Done
       /\ ~active => Done /\ Quiet
       /\ \A r \in Request : req[r].op = "addDirect" => member[req[r].u] = None

\* What a request is about, by its operation.
Wellformed(q) ==
    /\ q.op \in {"create", "status", "remove", "addDirect", "updateDirect", "expelDirect"}
          => q.c \in Campaign
    /\ q.op \in {"add", "update", "expel", "addDirect", "updateDirect", "expelDirect"}
          => q.u \in User
    /\ q.op = "status" => q.to \in Status \ {"DRAFT"}
    /\ q.op \in {"add", "update", "addDirect", "updateDirect"} => q.to \in MemberRole

IInv == TypeOK /\ (\A r \in Request : Wellformed(req[r])) /\ ChecksHold

LEMMA ProjectInit == Init => IInv
  <1> SUFFICES ASSUME Init PROVE IInv
    OBVIOUS
  <1>1. TypeOK
    BY DEF Init, TypeOK, Idle
  <1>2. \A r \in Request : req[r].op = "idle"
    BY DEF Init, Idle
  <1> QED
    BY <1>1, <1>2 DEF IInv, Wellformed, ChecksHold, Done, Init

(***************************************************************************)
(* A check leaves the rows alone and puts a request on its way.  What is   *)
(* left to show of it is what it has to hold for the request.              *)
(***************************************************************************)
LEMMA CheckedStep ==
    ASSUME IInv, NEW r \in Request, NEW op \in Op, NEW c \in Campaign \cup {None},
           NEW u \in User \cup {None},
           NEW to \in MemberRole \cup (Status \ {"DRAFT"}) \cup {None},
           Checked(r, op, c, u, to),
           Wellformed([op |-> op, c |-> c, u |-> u, to |-> to]),
           ~raced => /\ op = "archive" => Done
                     /\ op \in Starting => active
                     /\ op = "addDirect" => member[u] = None
    PROVE  IInv'
  <1> DEFINE new == [op |-> op, c |-> c, u |-> u, to |-> to]
  <1>1. /\ req'[r] = new
        /\ \A q \in Request \ {r} : req'[q] = req[q]
        /\ UNCHANGED <<active, status, member, direct, raced>>
    BY DEF IInv, TypeOK, Checked, Rows
  <1>2. TypeOK'
    BY <1>1 DEF IInv, TypeOK, Checked
  <1>3. \A q \in Request : Wellformed(req[q])'
    BY <1>1 DEF IInv, Wellformed
  <1>4. ChecksHold'
    BY <1>1 DEF IInv, ChecksHold, Done, Quiet
  <1> QED
    BY <1>2, <1>3, <1>4 DEF IInv

LEMMA CheckInv == ASSUME IInv, NEW r \in Request, CheckSome(r) PROVE IInv'
  <1> USE DEF Op, Wellformed, Starting
  <1>1. CASE CheckArchive(r)
    BY <1>1, CheckedStep DEF CheckArchive, Exists, Done, IInv, TypeOK
  <1>2. CASE CheckUnarchive(r)
    BY <1>2, CheckedStep DEF CheckUnarchive
  <1>3. ASSUME NEW c \in Campaign, CheckCreate(r, c) PROVE IInv'
    BY <1>3, CheckedStep DEF CheckCreate
  <1>4. ASSUME NEW c \in Campaign, CheckRemove(r, c) PROVE IInv'
    BY <1>4, CheckedStep DEF CheckRemove
  <1>5. ASSUME NEW c \in Campaign, NEW to \in Status, CheckStatus(r, c, to) PROVE IInv'
    <2>1. to \in Status \ {"DRAFT"} /\ status[c] \in Status \ {"COMPLETED"}
      BY <1>5 DEF CheckStatus, ValidTransition, Transitions, Status
    <2>2. ~raced => active
      BY <2>1, <1>5, NullAssumption DEF IInv, ChecksHold, Done, CheckStatus, Exists, Status
    <2> QED
      BY <1>5, <2>1, <2>2, CheckedStep DEF CheckStatus
  <1>6. ASSUME NEW u \in User, CheckExpel(r, u) PROVE IInv'
    BY <1>6, CheckedStep DEF CheckExpel
  <1>7. ASSUME NEW u \in User, NEW role \in MemberRole,
               CheckAdd(r, u, role) \/ CheckUpdate(r, u, role)
        PROVE  IInv'
    BY <1>7, CheckedStep DEF CheckAdd, CheckUpdate
  <1>8. ASSUME NEW u \in User, NEW c \in Campaign, CheckExpelDirect(r, c, u) PROVE IInv'
    BY <1>8, CheckedStep DEF CheckExpelDirect
  <1>9. ASSUME NEW u \in User, NEW c \in Campaign, NEW role \in MemberRole,
               CheckAddDirect(r, c, u, role) \/ CheckUpdateDirect(r, c, u, role)
        PROVE  IInv'
    BY <1>9, CheckedStep DEF CheckAddDirect, CheckUpdateDirect
  <1> QED
    BY <1>1, <1>2, <1>3, <1>4, <1>5, <1>6, <1>7, <1>8, <1>9 DEF CheckSome

(***************************************************************************)
(* A write takes its request off and marks the race.                       *)
(***************************************************************************)
LEMMA WritesStep ==
    ASSUME IInv, NEW r \in Request, NEW op \in Op, Writes(r, op)
    PROVE  /\ req' \in [Request -> [op : Op \cup {"idle"}, c : Campaign \cup {None},
                                    u : User \cup {None},
                                    to : MemberRole \cup (Status \ {"DRAFT"}) \cup {None}]]
           /\ raced' \in BOOLEAN
           /\ req'[r].op = "idle"
           /\ \A q \in Request \ {r} : req'[q] = req[q]
           /\ \A q \in Request : Wellformed(req'[q])
           /\ ~raced' => /\ ~raced
                         /\ \A q \in Request \ {r} :
                               ~Conflict(req[r], req[q]) /\ ~Conflict(req[q], req[r])
  <1>1. /\ req'[r] = Idle
        /\ \A q \in Request \ {r} : req'[q] = req[q]
    BY DEF IInv, TypeOK, Writes
  <1>2. req' \in [Request -> [op : Op \cup {"idle"}, c : Campaign \cup {None},
                              u : User \cup {None},
                              to : MemberRole \cup (Status \ {"DRAFT"}) \cup {None}]]
    BY DEF IInv, TypeOK, Writes, Idle
  <1>3. \A q \in Request : Wellformed(req'[q])
    BY <1>1 DEF IInv, Wellformed, Idle
  <1>4. raced' = (raced \/ Overlaps(r)) /\ Overlaps(r) \in BOOLEAN
    BY DEF Writes, Overlaps
  <1>5. raced \in BOOLEAN
    BY DEF IInv, TypeOK
  <1>6. raced' \in BOOLEAN /\ (~raced' => ~raced /\ ~Overlaps(r))
    BY <1>4, <1>5
  <1> QED
    BY <1>1, <1>2, <1>3, <1>6 DEF Overlaps, Idle

LEMMA WriteStatusInv == ASSUME IInv, NEW r \in Request, WriteStatus(r) PROVE IInv'
  <1> DEFINE c == req[r].c
  <1>1. PICK op \in {"create", "status", "remove"} : Writes(r, op)
    BY DEF WriteStatus
  <1>2. c \in Campaign /\ req[r].op = op
    BY <1>1 DEF IInv, Wellformed, Writes
  <1>3. UNCHANGED <<active, member, direct>>
    BY DEF WriteStatus
  <1>4. /\ op = "create" => status' = [status EXCEPT ![c] =
                               IF status[c] = None THEN "DRAFT" ELSE @]
        /\ op = "status" => status' = [status EXCEPT ![c] =
                               IF Exists(c) THEN req[r].to ELSE @]
        /\ op = "remove" => status' = [status EXCEPT ![c] = "DELETED"]
    BY <1>2 DEF WriteStatus, Writes
  <1>5. status' \in [Campaign -> Status \cup {None, "DELETED"}]
    BY <1>1, <1>2, <1>4 DEF IInv, TypeOK, Wellformed, Status
  <1>6. TypeOK' /\ \A q \in Request : Wellformed(req'[q])
    BY <1>1, <1>3, <1>5, WritesStep DEF IInv, TypeOK, Op
  <1>7. op = "remove" => (Done => Done')
    BY <1>2, <1>4 DEF IInv, TypeOK, Done
  <1>8. ChecksHold'
    <2> SUFFICES ASSUME ~raced'
                 PROVE  /\ \A q \in Request : req'[q].op = "archive" => Done'
                        /\ ~active' => Done' /\ Quiet'
                        /\ \A q \in Request : req'[q].op = "addDirect"
                                                => member'[req'[q].u] = None
      BY DEF ChecksHold
    <2>1. /\ ~raced
          /\ req'[r].op = "idle"
          /\ \A q \in Request \ {r} : req'[q] = req[q]
          /\ \A q \in Request \ {r} : ~Conflict(req[q], req[r])
      BY <1>1, WritesStep DEF Op
    <2>2. ASSUME NEW q \in Request, req'[q].op = "archive" PROVE Done'
      <3>1. q # r /\ req[q].op = "archive"
        BY <2>1, <2>2
      <3>2. op = "remove"
        BY <3>1, <2>1, <1>2 DEF Conflict
      <3> QED
        BY <3>1, <3>2, <2>1, <1>7 DEF IInv, ChecksHold
    <2>3. ASSUME ~active' PROVE Done' /\ Quiet'
      <3>1. Done /\ Quiet
        BY <2>1, <2>3, <1>3 DEF IInv, ChecksHold
      <3>2. op = "remove"
        BY <3>1, <1>2 DEF Quiet, Starting
      <3> QED
        BY <3>1, <3>2, <2>1, <1>7 DEF Quiet, Starting
    <2>4. ASSUME NEW q \in Request, req'[q].op = "addDirect"
          PROVE  member'[req'[q].u] = None
      BY <2>1, <2>4, <1>3 DEF IInv, ChecksHold
    <2> QED
      BY <2>2, <2>3, <2>4
  <1> QED
    BY <1>6, <1>8 DEF IInv

LEMMA WriteActiveInv == ASSUME IInv, NEW r \in Request, WriteActive(r) PROVE IInv'
  <1>1. PICK op \in {"archive", "unarchive"} :
          Writes(r, op) /\ active' = (op = "unarchive")
    BY DEF WriteActive
  <1>2. UNCHANGED <<status, member, direct>> /\ req[r].op = op
    BY <1>1 DEF WriteActive, Writes
  <1>3. TypeOK' /\ \A q \in Request : Wellformed(req'[q])
    BY <1>1, <1>2, WritesStep DEF IInv, TypeOK, Op
  <1>4. ChecksHold'
    <2> SUFFICES ASSUME ~raced'
                 PROVE  /\ \A q \in Request : req'[q].op = "archive" => Done'
                        /\ ~active' => Done' /\ Quiet'
                        /\ \A q \in Request : req'[q].op = "addDirect"
                                                => member'[req'[q].u] = None
      BY DEF ChecksHold
    <2>1. /\ ~raced
          /\ req'[r].op = "idle"
          /\ \A q \in Request \ {r} : req'[q] = req[q]
          /\ \A q \in Request \ {r} : ~Conflict(req[r], req[q])
      BY <1>1, WritesStep DEF Op
    <2>2. Done' <=> Done
      BY <1>2 DEF Done
    <2>3. ASSUME op = "archive" PROVE Quiet'
      BY <2>1, <2>3, <1>2 DEF Quiet, Starting, Conflict
    <2> QED
      BY <1>1, <1>2, <2>1, <2>2, <2>3 DEF IInv, ChecksHold
  <1> QED
    BY <1>3, <1>4 DEF IInv

\* Only an addition makes a member of somebody who was none, and only an
\* addition or an update gives anybody a role.
LEMMA MemberChange ==
    ASSUME IInv, NEW r \in Request, WriteMember(r)
    PROVE  /\ Writes(r, req[r].op) /\ req[r].op \in {"add", "update", "expel"}
           /\ UNCHANGED <<active, status, direct>>
           /\ member' \in [User -> MemberRole \cup {None}]
           /\ \A u \in User :
                 /\ u # req[r].u => member'[u] = member[u]
                 /\ req[r].op # "add" /\ member[u] = None => member'[u] = None
                 /\ req[r].op = "expel" => member'[u] \in {member[u], None}
  <1>1. /\ Writes(r, req[r].op) /\ req[r].op \in {"add", "update", "expel"}
        /\ UNCHANGED <<active, status, direct>>
        /\ req[r].op \in {"add", "update"} =>
              member' = IF (req[r].op = "add") <=> (member[req[r].u] = None)
                          THEN [member EXCEPT ![req[r].u] = req[r].to] ELSE member
        /\ req[r].op = "expel" => member' = [member EXCEPT ![req[r].u] = None]
    BY DEF WriteMember, Writes
  <1>2. /\ req[r].u \in User
        /\ req[r].op # "expel" => req[r].to \in MemberRole
    BY <1>1 DEF IInv, Wellformed
  <1>3. member' \in [User -> MemberRole \cup {None}]
    BY <1>1, <1>2 DEF IInv, TypeOK
  <1> QED
    BY <1>1, <1>2, <1>3 DEF IInv, TypeOK

LEMMA WriteMemberInv == ASSUME IInv, NEW r \in Request, WriteMember(r) PROVE IInv'
  <1>1. /\ Writes(r, req[r].op) /\ req[r].op \in Op
        /\ UNCHANGED <<active, status, direct>>
    BY MemberChange DEF Op
  <1>2. TypeOK' /\ \A q \in Request : Wellformed(req'[q])
    BY <1>1, MemberChange, WritesStep DEF IInv, TypeOK
  <1>3. ChecksHold'
    <2> SUFFICES ASSUME ~raced'
                 PROVE  /\ \A q \in Request : req'[q].op = "archive" => Done'
                        /\ ~active' => Done' /\ Quiet'
                        /\ \A q \in Request : req'[q].op = "addDirect"
                                                => member'[req'[q].u] = None
      BY DEF ChecksHold
    <2>1. /\ ~raced
          /\ req'[r].op = "idle"
          /\ \A q \in Request \ {r} : req'[q] = req[q]
          /\ \A q \in Request \ {r} : ~Conflict(req[r], req[q])
      BY <1>1, WritesStep
    <2>2. Done' <=> Done
      BY <1>1 DEF Done
    <2>3. Quiet => Quiet'
      BY <2>1 DEF Quiet, Starting
    <2>4. ASSUME NEW q \in Request, req'[q].op = "addDirect"
          PROVE  member'[req'[q].u] = None
      <3>1. q # r /\ req'[q] = req[q] /\ req[q].u \in User /\ member[req[q].u] = None
        BY <2>1, <2>4 DEF IInv, ChecksHold, Wellformed
      <3>2. req[r].op = "add" => req[q].u # req[r].u
        BY <3>1, <2>1, <2>4 DEF Conflict
      <3> QED
        BY <3>1, <3>2, MemberChange
    <2> QED
      BY <1>1, <2>1, <2>2, <2>3, <2>4 DEF IInv, ChecksHold
  <1> QED
    BY <1>2, <1>3 DEF IInv

\* A user becomes a direct member by an addition only.
LEMMA DirectChange ==
    ASSUME IInv, NEW r \in Request, WriteDirect(r)
    PROVE  /\ Writes(r, req[r].op)
           /\ req[r].op \in {"addDirect", "updateDirect", "expelDirect"}
           /\ UNCHANGED <<active, status, member>>
           /\ direct' \in [Campaign -> [User -> MemberRole \cup {None}]]
           /\ \A c \in Campaign, u \in User :
                 direct[c][u] = None /\ direct'[c][u] # None
                    => req[r].op = "addDirect" /\ u = req[r].u
  <1> DEFINE d == req[r].c
             v == req[r].u
  <1>1. /\ Writes(r, req[r].op)
        /\ req[r].op \in {"addDirect", "updateDirect", "expelDirect"}
        /\ UNCHANGED <<active, status, member>>
        /\ req[r].op \in {"addDirect", "updateDirect"} =>
              direct' = IF (req[r].op = "addDirect") <=> (direct[d][v] = None)
                          THEN [direct EXCEPT ![d][v] = req[r].to] ELSE direct
        /\ req[r].op = "expelDirect" => direct' = [direct EXCEPT ![d][v] = None]
    BY DEF WriteDirect, Writes
  <1>2. /\ d \in Campaign /\ v \in User
        /\ req[r].op # "expelDirect" => req[r].to \in MemberRole
    BY <1>1 DEF IInv, Wellformed
  <1>3. direct' \in [Campaign -> [User -> MemberRole \cup {None}]]
    BY <1>1, <1>2 DEF IInv, TypeOK
  <1>4. ASSUME NEW c \in Campaign, NEW u \in User,
               direct[c][u] = None, direct'[c][u] # None
        PROVE  req[r].op = "addDirect" /\ u = v
    <2>1. direct \in [Campaign -> [User -> MemberRole \cup {None}]]
      BY DEF IInv, TypeOK
    <2>2. c = d /\ u = v
      BY <1>1, <1>2, <1>4, <2>1
    <2> QED
      BY <1>1, <1>2, <1>4, <2>1, <2>2
  <1> QED
    BY <1>1, <1>3, <1>4

LEMMA WriteDirectInv == ASSUME IInv, NEW r \in Request, WriteDirect(r) PROVE IInv'
  <1>1. /\ Writes(r, req[r].op) /\ req[r].op \in Op
        /\ UNCHANGED <<active, status, member>>
    BY DirectChange DEF Op
  <1>2. TypeOK' /\ \A q \in Request : Wellformed(req'[q])
    BY <1>1, DirectChange, WritesStep DEF IInv, TypeOK
  <1>3. ChecksHold'
    BY <1>1, WritesStep DEF IInv, ChecksHold, Done, Quiet, Starting
  <1> QED
    BY <1>2, <1>3 DEF IInv

LEMMA RestInv ==
    ASSUME IInv, \/ \E r \in Request : Fail(r)
                 \/ \E u \in User : RemoveUserMembership(u)
                 \/ UNCHANGED vars
    PROVE  IInv'
  <1>1. ASSUME NEW r \in Request, Fail(r) PROVE IInv'
    <2>1. /\ req'[r] = Idle
          /\ \A q \in Request \ {r} : req'[q] = req[q]
          /\ UNCHANGED <<active, status, member, direct, raced>>
      BY <1>1 DEF IInv, TypeOK, Fail, Rows
    <2>2. TypeOK'
      BY <1>1, <2>1 DEF IInv, TypeOK, Fail, Idle
    <2>3. \A q \in Request : Wellformed(req'[q])
      BY <2>1 DEF IInv, Wellformed, Idle
    <2>4. ChecksHold'
      BY <2>1 DEF IInv, ChecksHold, Done, Quiet, Starting, Idle
    <2> QED
      BY <2>2, <2>3, <2>4 DEF IInv
  <1>2. ASSUME NEW u \in User, RemoveUserMembership(u) PROVE IInv'
    <2>1. /\ UNCHANGED <<active, status, direct, req, raced>>
          /\ member' = [member EXCEPT ![u] = None]
      BY <1>2 DEF RemoveUserMembership
    <2>2. TypeOK'
      BY <2>1 DEF IInv, TypeOK
    <2>3. ChecksHold'
      BY <2>1 DEF IInv, TypeOK, ChecksHold, Done, Quiet, Wellformed
    <2> QED
      BY <2>1, <2>2, <2>3 DEF IInv
  <1>3. CASE UNCHANGED vars
    BY <1>3 DEF vars, IInv, TypeOK, ChecksHold, Done, Quiet
  <1> QED
    BY <1>1, <1>2, <1>3

LEMMA ProjectNext == IInv /\ [Next]_vars => IInv'
  BY CheckInv, WriteStatusInv, WriteActiveInv, WriteMemberInv, WriteDirectInv, RestInv
     DEF Next

LEMMA ProjectInvariance == Spec => []IInv
  BY ProjectInit, ProjectNext, PTL DEF Spec

\* Rows and requests keep their shape.
THEOREM ProjectsTypeCorrect == Spec => []TypeOK
  BY ProjectInvariance, PTL DEF IInv

\* Nothing runs in an archived project, until a creation, a status change and
\* an archiving overlap.
THEOREM ArchiveHolds == Spec => []ArchivedMeansDone
  <1>1. IInv => ArchivedMeansDone
    BY DEF IInv, ChecksHold, Done, ArchivedMeansDone
  <1> QED
    BY <1>1, ProjectInvariance, PTL

\* Nobody joins an archived project and no role in it changes.
THEOREM ArchiveFreezesMembers == Spec => MembersFrozen
  <1>1. IInv /\ [Next]_vars =>
          [~active /\ ~raced => \A u \in User : member'[u] \in {member[u], None}]_vars
    <2> SUFFICES ASSUME IInv, Next, ~active, ~raced, NEW u \in User
                 PROVE  member'[u] \in {member[u], None}
      BY DEF vars
    <2>1. Quiet
      BY DEF IInv, ChecksHold
    <2>2. ASSUME NEW r \in Request, WriteMember(r) PROVE member'[u] \in {member[u], None}
      <3>1. req[r].op = "expel"
        BY <2>1, <2>2, MemberChange DEF Quiet, Starting
      <3> QED
        BY <2>2, <3>1, MemberChange
    <2>3. ASSUME NEW r \in Request, CheckSome(r) PROVE UNCHANGED member
      BY <2>3 DEF CheckSome, CheckArchive, CheckUnarchive, CheckCreate, CheckRemove,
                  CheckStatus, CheckExpel, CheckAdd, CheckUpdate, CheckExpelDirect,
                  CheckAddDirect, CheckUpdateDirect, Checked, Rows
    <2>4. ASSUME NEW r \in Request,
                 WriteStatus(r) \/ WriteActive(r) \/ WriteDirect(r) \/ Fail(r)
          PROVE  UNCHANGED member
      BY <2>4 DEF WriteStatus, WriteActive, WriteDirect, Fail, Rows
    <2>5. ASSUME NEW v \in User, RemoveUserMembership(v)
          PROVE  member'[u] \in {member[u], None}
      BY <2>5 DEF RemoveUserMembership, IInv, TypeOK
    <2> QED
      BY <2>2, <2>3, <2>4, <2>5 DEF Next
  <1> QED
    BY <1>1, ProjectInvariance, PTL DEF Spec, MembersFrozen

\* Direct membership is given to outsiders of the project only.
THEOREM DirectMembersAreOutsiders == Spec => DirectForOutsiders
  <1>1. IInv /\ [Next]_vars =>
          [\A c \in Campaign, u \in User :
              direct[c][u] = None /\ direct'[c][u] # None
                 => member[u] = None \/ raced']_vars
    <2> SUFFICES ASSUME IInv, Next, NEW c \in Campaign, NEW u \in User,
                        direct[c][u] = None, direct'[c][u] # None, ~raced'
                 PROVE  member[u] = None
      BY DEF vars
    <2>1. ASSUME NEW r \in Request, WriteDirect(r) PROVE member[u] = None
      <3>1. req[r].op = "addDirect" /\ u = req[r].u
        BY <2>1, DirectChange
      <3>2. ~raced
        BY <2>1, <3>1, DirectChange, WritesStep DEF Op
      <3> QED
        BY <3>1, <3>2 DEF IInv, ChecksHold
    <2>2. ASSUME NEW r \in Request, CheckSome(r) PROVE UNCHANGED direct
      BY <2>2 DEF CheckSome, CheckArchive, CheckUnarchive, CheckCreate, CheckRemove,
                  CheckStatus, CheckExpel, CheckAdd, CheckUpdate, CheckExpelDirect,
                  CheckAddDirect, CheckUpdateDirect, Checked, Rows
    <2>3. ASSUME NEW r \in Request,
                 WriteStatus(r) \/ WriteActive(r) \/ WriteMember(r) \/ Fail(r)
          PROVE  UNCHANGED direct
      BY <2>3 DEF WriteStatus, WriteActive, WriteMember, Fail, Rows
    <2>4. ASSUME NEW v \in User, RemoveUserMembership(v) PROVE UNCHANGED direct
      BY <2>4 DEF RemoveUserMembership
    <2> QED
      BY <2>1, <2>2, <2>3, <2>4 DEF Next
  <1> QED
    BY <1>1, ProjectInvariance, PTL DEF Spec, DirectForOutsiders

(***************************************************************************)
(* The guards and listings read the rows of one state, so what is said of  *)
(* them holds of any rows, and in particular of those a project can have.  *)
(***************************************************************************)

\* Lists show what their reader may open, and all of it.
THEOREM ListsMatchGuards == Spec => []ListedIsOpen
  <1>1. ListedIsOpen
    BY DEF ListedIsOpen, ProjectListed, CampaignListed, PostListed, ProjectGuard,
           CampaignGuard, PostGuard, Satisfies, HeldRole
  <1> QED
    BY <1>1, PTL

\* The role a user is told is the role that decides.
THEOREM RolesAgree == Spec => []RoleToldIsRoleHeld
  <1>1. RoleToldIsRoleHeld
    BY DEF RoleToldIsRoleHeld, CampaignGuard, PostGuard, CommentGuard, Satisfies,
           HeldRole, MyRole
  <1> QED
    BY <1>1, PTL

-----------------------------------------------------------------------------
(***************************************************************************)
(* AdminLeft is not inductive: it says nothing of a request that has its   *)
(* count behind it.  As long as no write landed between, such a request    *)
(* still has an administrator besides the one it takes away, be it because *)
(* it counted one or because its user was none when it was found.          *)
(***************************************************************************)
Removes(r) == asked[r].at = "write" /\ asked[r].kind \in Removal

CountsHold ==
    ~overtaken /\ ~lockedOut =>
       /\ ActiveAdmins # {}
       /\ \A r \in Handler : Removes(r) => ActiveAdmins \ {asked[r].of} # {}

AdminInv == UsersTyped /\ CountsHold

LEMMA AdminInit == UsersInit => AdminInv
  <1> SUFFICES ASSUME UsersInit PROVE AdminInv
    OBVIOUS
  <1>1. standing \in [Account -> UserStatus] /\ globalRole \in [Account -> GlobalRole]
    BY DEF UsersInit, UserStatus
  <1>2. /\ asked \in [Handler -> [at : {"idle", "find", "count", "write"},
                                kind : Kind, of : Account \cup {NoUser}]]
        /\ \A r \in Handler : asked[r].at = "idle"
    BY DEF UsersInit, NotAsking, Kind
  <1>3. UsersTyped
    BY <1>1, <1>2 DEF UsersInit, UsersTyped
  <1>4. CountsHold
    BY <1>2 DEF UsersInit, CountsHold, Removes
  <1> QED
    BY <1>3, <1>4 DEF AdminInv

\* A handler that goes anywhere but to its write leaves CountsHold alone.
LEMMA AskedMoved ==
    ASSUME UsersTyped, CountsHold, NEW r \in Handler,
           UNCHANGED <<standing, globalRole, overtaken, lockedOut>>,
           \A q \in Handler \ {r} : asked'[q] = asked[q],
           Removes(r)' => (ActiveAdmins # {}
                             => ActiveAdmins \ {asked'[r].of} # {})
    PROVE  CountsHold'
  BY DEF CountsHold, Removes, ActiveAdmins

LEMMA SettledInv ==
    ASSUME AdminInv, NEW r \in Handler, Settle(r),
           UNCHANGED <<standing, globalRole, overtaken, lockedOut>>
    PROVE  AdminInv'
  <1>1. UsersTyped'
    BY DEF AdminInv, UsersTyped, Settle, NotAsking, Kind
  <1>2. CountsHold'
    BY AskedMoved DEF AdminInv, UsersTyped, Settle, Removes, NotAsking
  <1> QED
    BY <1>1, <1>2 DEF AdminInv

LEMMA UsersInv ==
    ASSUME AdminInv, NEW u \in Account,
           Accept(u) \/ LockOut(u) \/ \E as \in GlobalRole : Invite(u, as)
    PROVE  AdminInv'
  <1>1. UsersTyped'
    BY DEF AdminInv, UsersTyped, Accept, LockOut, Invite, UserStatus
  <1>2. ActiveAdmins \subseteq ActiveAdmins' \/ lockedOut'
    BY DEF AdminInv, UsersTyped, Accept, LockOut, Invite,
           ActiveAdmins
  <1>3. CountsHold'
    BY <1>2
       DEF AdminInv, UsersTyped, CountsHold, Removes, Accept, LockOut,
           Invite
  <1> QED
    BY <1>1, <1>3 DEF AdminInv

LEMMA AskInv ==
    ASSUME AdminInv, NEW r \in Handler, NEW k \in Kind, NEW u \in Account,
           Ask(r, k, u)
    PROVE  AdminInv'
  <1>1. UsersTyped'
    BY DEF AdminInv, UsersTyped, Ask
  <1>2. CountsHold'
    BY AskedMoved DEF AdminInv, UsersTyped, Ask, Removes
  <1> QED
    BY <1>1, <1>2 DEF AdminInv

LEMMA FindInv == ASSUME AdminInv, NEW r \in Handler, Find(r) PROVE AdminInv'
  <1>1. CASE Settle(r)
    BY <1>1, SettledInv DEF Find
  <1>2. CASE Goto(r, "count") /\ asked[r].kind \in Removal
    <2>1. UsersTyped'
      BY <1>2 DEF AdminInv, UsersTyped, Find, Goto
    <2>2. CountsHold'
      BY <1>2, AskedMoved DEF AdminInv, UsersTyped, Find, Goto, Removes
    <2> QED
      BY <2>1, <2>2 DEF AdminInv
  <1>3. CASE /\ Goto(r, "write")
             /\ (asked[r].kind \notin Removal \/ globalRole[asked[r].of] # "ADMIN")
    <2>1. UsersTyped'
      BY <1>3 DEF AdminInv, UsersTyped, Find, Goto
    <2>2. CountsHold'
      BY <1>3, AskedMoved
         DEF AdminInv, UsersTyped, Find, Goto, Removes, ActiveAdmins
    <2> QED
      BY <2>1, <2>2 DEF AdminInv
  <1> QED
    BY <1>1, <1>2, <1>3 DEF Find

LEMMA CountInv ==
    ASSUME AdminInv, NEW r \in Handler, EnsureNotLastAdmin(r) PROVE AdminInv'
  <1>1. CASE Settle(r)
    BY <1>1, SettledInv DEF EnsureNotLastAdmin
  <1>2. CASE Goto(r, "write") /\ ActiveAdmins \ {asked[r].of} # {}
    <2>1. UsersTyped'
      BY <1>2 DEF AdminInv, UsersTyped, EnsureNotLastAdmin, Goto
    <2>2. CountsHold'
      BY <1>2, AskedMoved DEF AdminInv, UsersTyped, EnsureNotLastAdmin, Goto
    <2> QED
      BY <2>1, <2>2 DEF AdminInv
  <1> QED
    BY <1>1, <1>2 DEF EnsureNotLastAdmin

(***************************************************************************)
(* The write.  A removal takes no administrator but its own user; another  *)
(* removal that has its count behind it makes the write a race, unless it  *)
(* is of the same user.                                                    *)
(***************************************************************************)
LEMMA WriteInv == ASSUME AdminInv, NEW r \in Handler, Write(r) PROVE AdminInv'
  <1> DEFINE u == asked[r].of
             k == asked[r].kind
  <1>1. u \in Account /\ k \in Kind
    BY DEF AdminInv, UsersTyped, Write
  <1>2. CASE ~UserExists(u)
    BY <1>2, SettledInv DEF Write
  <1>3. CASE UserExists(u)
    <2>1. standing' \in [Account -> UserStatus] /\ globalRole' \in [Account -> GlobalRole]
      BY <1>1, <1>3
         DEF AdminInv, UsersTyped, Write, UserStatus, GlobalRole, Kind
    <2>2. UsersTyped'
      BY <2>1, <1>3
         DEF AdminInv, UsersTyped, Write, Settle, NotAsking, Kind
    <2>3. \A v \in Account \ {u} : standing'[v] = standing[v] /\ globalRole'[v] = globalRole[v]
      BY <1>1, <1>3 DEF AdminInv, UsersTyped, Write
    <2>4. ActiveAdmins \ {u} \subseteq ActiveAdmins'
      BY <2>3 DEF ActiveAdmins
    <2>5. k \notin Removal => ActiveAdmins \subseteq ActiveAdmins'
      <3>1. k \notin Removal => k \in {"promote", "enable"}
        BY <1>1 DEF Kind, Removal
      <3> QED
        BY <1>1, <1>3, <3>1
           DEF AdminInv, UsersTyped, Write, ActiveAdmins, GlobalRole
    <2>6. \A q \in Handler \ {r} : asked'[q] = asked[q]
      BY DEF AdminInv, UsersTyped, Write, Settle
    <2>7. ~Removes(r)'
      BY DEF AdminInv, UsersTyped, Write, Settle, NotAsking, Removes
    <2>8. /\ overtaken' = (overtaken \/ (k \in Removal /\ Unsafe(r, u)))
          /\ lockedOut' = lockedOut
      BY <1>3 DEF Write
    <2>9. ASSUME ~overtaken', ~lockedOut'
          PROVE  /\ ActiveAdmins' # {}
                 /\ \A q \in Handler :
                       Removes(q)' => ActiveAdmins' \ {asked'[q].of} # {}
      <3>1. /\ ActiveAdmins # {}
            /\ \A q \in Handler : Removes(q) => ActiveAdmins \ {asked[q].of} # {}
        BY <2>8, <2>9 DEF AdminInv, CountsHold
      <3>2. ActiveAdmins' # {}
        <4>1. CASE k \in Removal
          BY <4>1, <3>1, <2>4 DEF Write, Removes
        <4>2. CASE k \notin Removal
          BY <4>2, <3>1, <2>5
        <4> QED
          BY <4>1, <4>2
      <3>3. ASSUME NEW q \in Handler, Removes(q)'
            PROVE  ActiveAdmins' \ {asked'[q].of} # {}
        <4>1. q # r /\ asked'[q] = asked[q] /\ Removes(q)
          BY <3>3, <2>6, <2>7 DEF Removes
        <4>2. ActiveAdmins \ {asked[q].of} # {}
          BY <4>1, <3>1
        <4>3. CASE k \in Removal
          <5>1. asked[q].of = u
            BY <4>1, <4>3, <2>8, <2>9 DEF Unsafe, Removes
          <5> QED
            BY <5>1, <4>1, <4>2, <2>4
        <4>4. CASE k \notin Removal
          BY <4>1, <4>2, <4>4, <2>5
        <4> QED
          BY <4>3, <4>4
      <3> QED
        BY <3>2, <3>3
    <2> QED
      BY <2>2, <2>9 DEF AdminInv, CountsHold
  <1> QED
    BY <1>2, <1>3

LEMMA AdminNext == AdminInv /\ [UsersNext]_userVars => AdminInv'
  <1> SUFFICES ASSUME AdminInv, [UsersNext]_userVars PROVE AdminInv'
    OBVIOUS
  <1>1. ASSUME NEW r \in Handler, AskFails(r) PROVE AdminInv'
    BY <1>1, SettledInv DEF AskFails
  <1>2. CASE UNCHANGED userVars
    BY <1>2 DEF userVars, AdminInv, UsersTyped, CountsHold, Removes, ActiveAdmins
  <1> QED
    BY <1>1, <1>2, UsersInv, AskInv, FindInv, CountInv, WriteInv DEF UsersNext

THEOREM AdminInvariance == UsersSpec => []AdminInv
  BY AdminInit, AdminNext, PTL DEF UsersSpec

\* Users and handlers keep their shape, and only removals are counted for.
THEOREM UsersTypeCorrect == UsersSpec => []UsersTyped
  BY AdminInvariance, PTL DEF AdminInv

\* An active administrator is left whatever requests overlap, unless a removal
\* was written after another had counted, or wrong passwords locked one out.
THEOREM AdministratorLeft == UsersSpec => []AdminLeft
  <1>1. AdminInv => AdminLeft
    BY DEF AdminInv, CountsHold, AdminLeft
  <1> QED
    BY <1>1, AdminInvariance, PTL
=============================================================================
