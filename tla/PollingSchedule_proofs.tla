----------------------- MODULE PollingSchedule_proofs -----------------------
(***************************************************************************)
(* What PollingSchedule guarantees for any number of campaigns, posts,     *)
(* intervals and concurrent handlers, with calls failing and the process   *)
(* restarting.                                                             *)
(***************************************************************************)
EXTENDS PollingSchedule, TLAPS

PostLabels == {"settingsRead", "settingsWrite", "deleteRead", "deleteLoad",
               "loadPost", "unschedule"}

\* What a handler carries agrees with itself and with what never changes: it
\* only ever touches its own campaign, and never sends a draft's scheduler.
Coherent(r) ==
    /\ r.at = "statusWrite" => ValidTransition(r.seen, r.to)
    /\ r.at \in PostLabels => CampaignOf[r.post] = r.c
    /\ r.at \in Applying =>
        \A j \in r.todo :
            /\ CampaignOf[j.post] = r.c
            /\ status[r.c] = "DRAFT" => j.set = NoSchedule

DraftInv ==
    /\ TypeOK
    /\ \A h \in Handler : Coherent(req[h])
    /\ DraftNeverScheduled
-----------------------------------------------------------------------------
(* Shapes.                                                                 *)

\* What the label of a request says of its fields.
LEMMA Shapes ==
    ASSUME NEW r \in Request
    PROVE  /\ r.at = "idle" => r = Idle
           /\ r.at # "idle" => r.c \in Campaign
           /\ r.at \in {"statusRead", "statusWrite"} => r.to \in Status
           /\ r.at \in {"statusWrite", "removeWrite", "addCommit",
                        "bulkCommit"} => r.seen \in Status
           /\ r.at \in {"updateRead", "updateWrite"} => r.new \in Settings
           /\ r.at \in {"updateWrite", "settingsWrite"} => r.old \in Settings
           /\ r.at \in {"settingsRead", "settingsWrite"}
                => r.new \in Overrides
           /\ r.at \in PostLabels => r.post \in Post
           /\ r.at \in Applying => r.todo \in SUBSET Job
  BY DEF Request, Idle, PostLabels, Applying

\* The interval in force is a pattern or none, whatever was configured.
LEMMA PlanIsPattern ==
    ASSUME NEW st, NEW o \in Setting, NEW i \in Setting
    PROVE  Plan(st, o, i) \in Pattern
  BY DEF Plan, Pattern

\* A settings body keeps the columns it leaves out.
LEMMA MergeType ==
    ASSUME NEW new \in Overrides, NEW cur \in Settings
    PROVE  Merge(new, cur) \in Settings
  BY DEF Merge, Overrides, Settings

LEMMA DecisionsType ==
    ASSUME TypeOK, NEW p \in Post
    PROVE  Decisions(p) \in SUBSET Job
<1>1. CampaignOf[p] \in Campaign
  BY PollingAssumption
<1>2. ASSUME NEW d \in Dimension
      PROVE  /\ override[p][d] \in Setting
             /\ interval[CampaignOf[p]][d] \in Setting
  BY <1>1 DEF TypeOK, Settings
<1>3. QED
  BY <1>2, PlanIsPattern DEF Decisions, Job

LEMMA RemovalsType ==
    ASSUME NEW ids \in SUBSET (Post \X Dimension)
    PROVE  Removals(ids) \in SUBSET Job
  BY DEF Removals, Job, Pattern
-----------------------------------------------------------------------------
(* Type correctness.                                                       *)

\* The two ways a handler moves on, and the arrival of a request.
LEMMA AwaitType ==
    ASSUME TypeOK, NEW h \in Handler, NEW r \in Request, Await(h, r)
    PROVE  /\ req' \in [Handler -> Request]
           /\ crowded' \subseteq Handler
           /\ disturbed' \subseteq Campaign
  BY DEF TypeOK, Await

LEMMA FinishType ==
    ASSUME TypeOK, NEW h \in Handler, Finish(h)
    PROVE  /\ req' \in [Handler -> Request]
           /\ crowded' \subseteq Handler
           /\ disturbed' \subseteq Campaign
  BY DEF TypeOK, Finish, Request

LEMMA StartType ==
    ASSUME TypeOK, NEW h \in Handler, NEW r \in Request, r.c \in Campaign,
           Start(h, r)
    PROVE  TypeOK'
  BY DEF TypeOK, Start, InFlight, db

LEMMA ArrivalType ==
    ASSUME TypeOK, NEW h \in Handler, Arrives(h)
    PROVE  TypeOK'
<1>1. ASSUME NEW c \in Campaign, NEW to \in Status
      PROVE  [at |-> "statusRead", c |-> c, to |-> to] \in Request
  BY DEF Request
<1>2. ASSUME NEW c \in Campaign, NEW new \in Settings
      PROVE  [at |-> "updateRead", c |-> c, new |-> new] \in Request
  BY DEF Request
<1>3. ASSUME NEW c \in Campaign,
             NEW l \in {"removeRead", "addRead", "bulkRead"}
      PROVE  [at |-> l, c |-> c] \in Request
  BY DEF Request
<1>4. ASSUME NEW p \in Post, NEW new \in Overrides
      PROVE  [at |-> "settingsRead", c |-> CampaignOf[p], post |-> p,
              new |-> new] \in Request
  BY PollingAssumption DEF Request
<1>5. ASSUME NEW p \in Post
      PROVE  [at |-> "deleteRead", c |-> CampaignOf[p], post |-> p] \in Request
  BY PollingAssumption DEF Request
<1>6. \A p \in Post : CampaignOf[p] \in Campaign
  BY PollingAssumption
<1>7. CASE ChangeStatus(h)
  BY <1>7, <1>1, StartType DEF ChangeStatus
<1>8. CASE UpdateCampaign(h)
  BY <1>8, <1>2, StartType DEF UpdateCampaign
<1>9. CASE RemoveCampaign(h)
  BY <1>9, <1>3, StartType DEF RemoveCampaign
<1>10. CASE AddPost(h)
  BY <1>10, <1>3, StartType DEF AddPost
<1>11. CASE BulkUpload(h)
  BY <1>11, <1>3, StartType DEF BulkUpload
<1>12. CASE UpdateSettings(h)
  BY <1>12, <1>4, <1>6, StartType DEF UpdateSettings
<1>13. CASE DeletePost(h)
  BY <1>13, <1>5, <1>6, StartType DEF DeletePost
<1>14. QED
  BY <1>7, <1>8, <1>9, <1>10, <1>11, <1>12, <1>13 DEF Arrives

\* The steps that read and write no row and no scheduler.
LEMMA ReadType ==
    ASSUME TypeOK, NEW h \in Handler,
           \/ StatusRead(h) \/ UpdateRead(h) \/ RemoveRead(h) \/ AddRead(h)
           \/ BulkRead(h) \/ SettingsRead(h) \/ DeleteRead(h)
           \/ DeleteLoad(h) \/ ListPosts(h) \/ ListInherited(h)
           \/ ListSchedulers(h) \/ LoadPost(h) \/ Applied(h) \/ Purged(h)
    PROVE  TypeOK'
<1> DEFINE r == req[h]
<1>r. r \in Request
  BY DEF TypeOK
<1> HIDE DEF r
<1>s. UNCHANGED <<db, sched, revived>>
  BY DEF StatusRead, UpdateRead, RemoveRead, AddRead, BulkRead, ReadForPosts,
         SettingsRead, DeleteRead, DeleteLoad, ListPosts, ListInherited,
         ListSchedulers, LoadPost, Applied, Purged
<1>t. SUFFICES /\ req' \in [Handler -> Request]
               /\ crowded' \subseteq Handler
               /\ disturbed' \subseteq Campaign
  BY <1>s DEF TypeOK, db
<1>1. CASE StatusRead(h)
  <2>1. r.at = "statusRead"
    BY <1>1 DEF StatusRead, At, r
  <2>2. [at |-> "statusWrite", c |-> r.c, to |-> r.to, seen |-> status[r.c]]
          \in Request
    BY <2>1, <1>r, Shapes DEF TypeOK, Request
  <2>3. QED
    BY <1>1, <2>2, AwaitType, FinishType DEF StatusRead, r
<1>2. CASE UpdateRead(h)
  <2>1. r.at = "updateRead"
    BY <1>2 DEF UpdateRead, At, r
  <2>2. [at |-> "updateWrite", c |-> r.c, new |-> r.new, old |-> interval[r.c]]
          \in Request
    BY <2>1, <1>r, Shapes DEF TypeOK, Request
  <2>3. QED
    BY <1>2, <2>2, AwaitType, FinishType DEF UpdateRead, r
<1>3. CASE RemoveRead(h)
  <2>1. r.at = "removeRead"
    BY <1>3 DEF RemoveRead, At, r
  <2>2. [at |-> "removeWrite", c |-> r.c, seen |-> status[r.c]] \in Request
    BY <2>1, <1>r, Shapes DEF TypeOK, Request
  <2>3. QED
    BY <1>3, <2>2, AwaitType, FinishType DEF RemoveRead, r
<1>4. CASE AddRead(h)
  <2>1. r.at = "addRead"
    BY <1>4 DEF AddRead, ReadForPosts, At, r
  <2>2. [at |-> "addCommit", c |-> r.c, seen |-> status[r.c]] \in Request
    BY <2>1, <1>r, Shapes DEF TypeOK, Request
  <2>3. QED
    BY <1>4, <2>2, AwaitType, FinishType DEF AddRead, ReadForPosts, r
<1>5. CASE BulkRead(h)
  <2>1. r.at = "bulkRead"
    BY <1>5 DEF BulkRead, ReadForPosts, At, r
  <2>2. [at |-> "bulkCommit", c |-> r.c, seen |-> status[r.c]] \in Request
    BY <2>1, <1>r, Shapes DEF TypeOK, Request
  <2>3. QED
    BY <1>5, <2>2, AwaitType, FinishType DEF BulkRead, ReadForPosts, r
<1>6. CASE SettingsRead(h)
  <2>1. r.at = "settingsRead"
    BY <1>6 DEF SettingsRead, At, r
  <2>2. [at |-> "settingsWrite", c |-> r.c, post |-> r.post, new |-> r.new,
         old |-> override[r.post]] \in Request
    BY <2>1, <1>r, Shapes DEF TypeOK, Request, PostLabels
  <2>3. QED
    BY <1>6, <2>2, AwaitType, FinishType DEF SettingsRead, r
<1>7. CASE DeleteRead(h)
  <2>1. r.at = "deleteRead"
    BY <1>7 DEF DeleteRead, At, r
  <2>2. [at |-> "deleteLoad", c |-> r.c, post |-> r.post] \in Request
    BY <2>1, <1>r, Shapes DEF Request, PostLabels
  <2>3. QED
    BY <1>7, <2>2, AwaitType, FinishType DEF DeleteRead, r
<1>8. CASE DeleteLoad(h)
  <2> DEFINE td == IF row[r.post] = "live"
                   THEN Removals({r.post} \X Dimension) ELSE {}
  <2>1. r.at = "deleteLoad"
    BY <1>8 DEF DeleteLoad, At, r
  <2>2. r.post \in Post /\ r.c \in Campaign
    BY <2>1, <1>r, Shapes DEF PostLabels
  <2>3. td \in SUBSET Job
    BY <2>2, RemovalsType
  <2>4. [at |-> "unschedule", c |-> r.c, post |-> r.post, todo |-> td]
          \in Request
    BY <2>2, <2>3 DEF Request
  <2>5. QED
    BY <1>8, <2>4, AwaitType DEF DeleteLoad, r
<1>9. CASE ListPosts(h)
  <2> DEFINE td == UNION {Decisions(p) : p \in LivePosts(r.c)}
  <2>1. r.at = "listPosts"
    BY <1>9 DEF ListPosts, At, r
  <2>2. td \in SUBSET Job
    BY DecisionsType DEF LivePosts, PostsOf
  <2>3. [at |-> "apply", c |-> r.c, todo |-> td] \in Request
    BY <2>1, <2>2, <1>r, Shapes DEF Request
  <2>4. QED
    BY <1>9, <2>3, AwaitType DEF ListPosts, r
<1>10. CASE ListInherited(h)
  <2> DEFINE S == {q \in LivePosts(r.c) :
                     \E d \in Dimension : override[q][d] = Unset}
             td == UNION {Decisions(p) : p \in S}
  <2>1. r.at = "listInherited"
    BY <1>10 DEF ListInherited, At, r
  <2>2. td \in SUBSET Job
    BY DecisionsType DEF LivePosts, PostsOf
  <2>3. [at |-> "apply", c |-> r.c, todo |-> td] \in Request
    BY <2>1, <2>2, <1>r, Shapes DEF Request
  <2>4. QED
    BY <1>10, <2>3, AwaitType DEF ListInherited, r
<1>11. CASE ListSchedulers(h)
  <2> DEFINE ids == {i \in PostsOf(r.c) \X Dimension :
                       sched[i[1]][i[2]] # NoSchedule}
  <2>1. r.at = "listSchedulers"
    BY <1>11 DEF ListSchedulers, At, r
  <2>2. ids \in SUBSET (Post \X Dimension)
    BY DEF PostsOf
  <2>3. Removals(ids) \in SUBSET Job
    BY <2>2, RemovalsType
  <2>4. [at |-> "purge", c |-> r.c, todo |-> Removals(ids)] \in Request
    BY <2>1, <2>3, <1>r, Shapes DEF Request
  <2>5. QED
    BY <1>11, <2>4, AwaitType DEF ListSchedulers, r
<1>12. CASE LoadPost(h)
  <2>1. r.at = "loadPost"
    BY <1>12 DEF LoadPost, At, r
  <2>2. r.post \in Post /\ r.c \in Campaign
    BY <2>1, <1>r, Shapes DEF PostLabels
  <2>3. [at |-> "apply", c |-> r.c, todo |-> Decisions(r.post)] \in Request
    BY <2>2, DecisionsType DEF Request
  <2>4. QED
    BY <1>12, <2>3, AwaitType, FinishType DEF LoadPost, r
<1>13. CASE Applied(h)
  BY <1>13, FinishType DEF Applied
<1>14. CASE Purged(h)
  BY <1>14 DEF Purged, TypeOK, Request
<1>15. QED
  BY <1>1, <1>2, <1>3, <1>4, <1>5, <1>6, <1>7, <1>8, <1>9, <1>10, <1>11,
     <1>12, <1>13, <1>14

\* The steps that write rows.
LEMMA WriteType ==
    ASSUME TypeOK, NEW h \in Handler,
           \/ StatusWrite(h) \/ UpdateWrite(h) \/ RemoveWrite(h)
           \/ AddCommit(h) \/ BulkCommit(h) \/ SettingsWrite(h)
           \/ DeleteRow(h)
    PROVE  TypeOK'
<1> DEFINE r == req[h]
<1>r. r \in Request
  BY DEF TypeOK
<1> HIDE DEF r
<1>l. ASSUME NEW c \in Campaign,
             NEW l \in {"listPosts", "listInherited", "listSchedulers"}
      PROVE  [at |-> l, c |-> c] \in Request
  BY DEF Request
<1>1. CASE StatusWrite(h)
  <2>1. r.c \in Campaign /\ r.to \in Status
    BY <1>1, <1>r, Shapes DEF StatusWrite, At, r
  <2>2. /\ req' \in [Handler -> Request]
        /\ crowded' \subseteq Handler
        /\ disturbed' \subseteq Campaign
    BY <1>1, <2>1, <1>l, AwaitType, FinishType DEF StatusWrite, r
  <2>3. QED
    BY <1>1, <2>1, <2>2 DEF StatusWrite, TypeOK, r
<1>2. CASE UpdateWrite(h)
  <2>1. r.c \in Campaign /\ r.new \in Settings
    BY <1>2, <1>r, Shapes DEF UpdateWrite, At, r
  <2>2. /\ req' \in [Handler -> Request]
        /\ crowded' \subseteq Handler
        /\ disturbed' \subseteq Campaign
    BY <1>2, <2>1, <1>l, AwaitType, FinishType DEF UpdateWrite, r
  <2>3. QED
    BY <1>2, <2>1, <2>2 DEF UpdateWrite, TypeOK, r
<1>3. CASE RemoveWrite(h)
  <2>1. r.c \in Campaign
    BY <1>3, <1>r, Shapes DEF RemoveWrite, At, r
  <2>2. /\ req' \in [Handler -> Request]
        /\ crowded' \subseteq Handler
        /\ disturbed' \subseteq Campaign
    BY <1>3, <2>1, <1>l, AwaitType, FinishType DEF RemoveWrite, r
  <2>3. QED
    BY <1>3, <2>1, <2>2 DEF RemoveWrite, TypeOK, r
<1>4. CASE AddCommit(h)
  <2>1. r.c \in Campaign
    BY <1>4, <1>r, Shapes DEF AddCommit, At, r
  <2>2. ASSUME NEW p \in Post
        PROVE  [at |-> "loadPost", c |-> r.c, post |-> p] \in Request
    BY <2>1 DEF Request
  <2>3. /\ req' \in [Handler -> Request]
        /\ crowded' \subseteq Handler
        /\ disturbed' \subseteq Campaign
    BY <1>4, <2>2, AwaitType, FinishType DEF AddCommit, PostsOf, r
  <2>4. QED
    BY <1>4, <2>3 DEF AddCommit, TypeOK, PostsOf
<1>5. CASE BulkCommit(h)
  <2>1. r.c \in Campaign
    BY <1>5, <1>r, Shapes DEF BulkCommit, At, r
  <2>2. /\ req' \in [Handler -> Request]
        /\ crowded' \subseteq Handler
        /\ disturbed' \subseteq Campaign
    BY <1>5, <2>1, <1>l, AwaitType, FinishType DEF BulkCommit, r
  <2>3. row' \in [Post -> {"unborn", "live", "gone"}]
    BY <1>5 DEF BulkCommit, TypeOK
  <2>4. QED
    BY <1>5, <2>2, <2>3 DEF BulkCommit, TypeOK
<1>6. CASE SettingsWrite(h)
  <2> DEFINE updated == Merge(r.new, override[r.post])
  <2>1. r.c \in Campaign /\ r.post \in Post /\ r.new \in Overrides
    BY <1>6, <1>r, Shapes DEF SettingsWrite, At, PostLabels, r
  <2>2. updated \in Settings
    BY <2>1, MergeType DEF TypeOK
  <2>3. [at |-> "loadPost", c |-> r.c, post |-> r.post] \in Request
    BY <2>1 DEF Request
  <2> HIDE DEF updated
  <2>4. /\ req' \in [Handler -> Request]
        /\ crowded' \subseteq Handler
        /\ disturbed' \subseteq Campaign
    BY <1>6, <2>3, AwaitType, FinishType DEF SettingsWrite, r
  <2>5. override' \in [Post -> Settings] /\ revived' \subseteq Post
    BY <1>6, <2>1, <2>2 DEF SettingsWrite, TypeOK, r, updated
  <2>6. QED
    BY <1>6, <2>4, <2>5 DEF SettingsWrite, TypeOK
<1>7. CASE DeleteRow(h)
  BY <1>7, FinishType DEF DeleteRow, TypeOK
<1>8. QED
  BY <1>1, <1>2, <1>3, <1>4, <1>5, <1>6, <1>7

LEMMA ApplyType ==
    ASSUME TypeOK, NEW h \in Handler, ApplyDimension(h)
    PROVE  TypeOK'
<1> DEFINE r == req[h]
<1>1. PICK j \in r.todo :
         /\ sched' = [sched EXCEPT ![j.post][j.dim] = j.set]
         /\ Await(h, [r EXCEPT !.todo = @ \ {j}])
  BY DEF ApplyDimension
<1>2. r.at \in Applying /\ r \in Request
  BY DEF ApplyDimension, TypeOK
<1>3. r.todo \in SUBSET Job /\ r.c \in Campaign
  BY <1>2, Shapes DEF Applying
<1>4. j.post \in Post /\ j.dim \in Dimension /\ j.set \in Pattern
  BY <1>3 DEF Job
<1>5. [r EXCEPT !.todo = @ \ {j}] \in Request
  <2>1. r.todo \ {j} \in SUBSET Job
    BY <1>3
  <2>2. \/ r \in [at : {"apply", "purge"}, c : Campaign, todo : SUBSET Job]
        \/ r \in [at : {"unschedule"}, c : Campaign, post : Post,
                  todo : SUBSET Job]
    BY <1>2 DEF Request, Applying, Idle
  <2>3. QED
    BY <2>1, <2>2 DEF Request
<1>6. sched' \in [Post -> [Dimension -> Pattern]]
  BY <1>1, <1>4 DEF TypeOK
<1>7. QED
  BY <1>1, <1>5, <1>6, AwaitType DEF ApplyDimension, TypeOK, db

LEMMA FailureType ==
    ASSUME TypeOK,
           (\E h \in Handler : Fails(h)) \/ ApiRestarts
    PROVE  TypeOK'
<1>1. ASSUME NEW h \in Handler, Halfway(h)
      PROVE  req[h].c \in Campaign
  BY <1>1, Shapes DEF Halfway, Applying, TypeOK
<1>2. \A H \in SUBSET Handler : Abandoned(H) \subseteq Campaign
  BY <1>1 DEF Abandoned
<1>3. Idle \in Request
  BY DEF Request
<1>4. ASSUME NEW h \in Handler, QueryFails(h)
      PROVE  TypeOK'
  BY <1>2, <1>3, <1>4 DEF QueryFails, TypeOK, db
<1>5. ASSUME NEW h \in Handler, SchedulerCallFails(h)
      PROVE  TypeOK'
  <2>1. req[h] \in Request /\ req[h].at \in Applying
    BY <1>5 DEF SchedulerCallFails, TypeOK
  <2>2. req[h].todo \in SUBSET Job /\ req[h].c \in Campaign
    BY <2>1, Shapes DEF Applying
  <2>3. \A j : [at |-> "apply", c |-> req[h].c, todo |-> req[h].todo \ {j}]
               \in Request
    BY <2>2 DEF Request
  <2>4. PICK j : req' = [req EXCEPT ![h] = [at |-> "apply", c |-> req[h].c,
                                           todo |-> req[h].todo \ {j}]]
    BY <1>5 DEF SchedulerCallFails
  <2>5. req' \in [Handler -> Request]
    BY <2>3, <2>4 DEF TypeOK
  <2>6. QED
    BY <1>5, <2>2, <2>5 DEF SchedulerCallFails, TypeOK, db
<1>6. CASE ApiRestarts
  BY <1>2, <1>3, <1>6 DEF ApiRestarts, TypeOK, db
<1>7. QED
  BY <1>4, <1>5, <1>6 DEF Fails

LEMMA InitType == Init => TypeOK
<1> SUFFICES ASSUME Init PROVE TypeOK
  OBVIOUS
<1>1. [d \in Dimension |-> Unset] \in Settings
  BY DEF Settings, Setting
<1>2. [d \in Dimension |-> NoSchedule] \in [Dimension -> Pattern]
  BY DEF Pattern
<1>3. QED
  BY <1>1, <1>2 DEF Init, TypeOK, Status, Request

LEMMA NextType == TypeOK /\ [Next]_vars => TypeOK'
<1> SUFFICES ASSUME TypeOK, [Next]_vars PROVE TypeOK'
  OBVIOUS
<1>1. ASSUME NEW h \in Handler, Arrives(h) \/ Continues(h) \/ Fails(h)
      PROVE  TypeOK'
  BY <1>1, ArrivalType, ReadType, WriteType, ApplyType, FailureType
     DEF Continues
<1>2. CASE ApiRestarts
  BY <1>2, FailureType
<1>3. CASE UNCHANGED vars
  BY <1>3 DEF vars, db, history, TypeOK
<1>4. QED
  BY <1>1, <1>2, <1>3 DEF Next

\* Rows, scheduler entries and handlers keep their shape.
THEOREM TypeCorrect == Spec => []TypeOK
  BY InitType, NextType, PTL DEF Spec
-----------------------------------------------------------------------------
(* Drafts.                                                                 *)

\* No step makes a draft of a campaign that is none, nor takes a post to
\* another campaign.
NoNewDraft ==
    \A c \in Campaign : status'[c] = "DRAFT" => status[c] = "DRAFT"

\* A step that moves one handler on and sends no scheduler call.
LEMMA DraftStep ==
    ASSUME DraftInv, TypeOK', NoNewDraft, sched' = sched,
           NEW h \in Handler, NEW r,
           req' = [req EXCEPT ![h] = r], Coherent(r)'
    PROVE  DraftInv'
<1>1. ASSUME NEW g \in Handler
      PROVE  Coherent(req[g])'
  <2>1. CASE g = h
    <3>1. req'[g] = r
      BY <2>1 DEF DraftInv, TypeOK
    <3>2. QED
      BY <3>1 DEF Coherent
  <2>2. CASE g # h
    <3>1. req'[g] = req[g] /\ req[g] \in Request
      BY <2>2 DEF DraftInv, TypeOK
    <3>2. req[g].at \in Applying => req[g].c \in Campaign
      BY <3>1, Shapes DEF Applying
    <3>3. Coherent(req[g])
      BY DEF DraftInv
    <3>4. QED
      BY <3>1, <3>2, <3>3 DEF Coherent, NoNewDraft
  <2>3. QED
    BY <2>1, <2>2
<1>2. DraftNeverScheduled'
  BY PollingAssumption DEF DraftInv, DraftNeverScheduled, NoNewDraft
<1>3. QED
  BY <1>1, <1>2 DEF DraftInv

\* A request that ends, or moves to a label that promises nothing.
LEMMA CoherentPlain ==
    ASSUME NEW r,
           r.at \notin PostLabels \cup Applying \cup {"statusWrite"}
    PROVE  Coherent(r)'
  BY DEF Coherent

LEMMA CoherentIdle == Coherent(Idle)'
  BY DEF Coherent, Idle, PostLabels, Applying

\* The calls a removal and a schedule send are for the campaign's own posts.
LEMMA CoherentRemovals ==
    ASSUME NEW c, NEW ids, \A i \in ids : CampaignOf[i[1]] = c,
           NEW r, r.at \in {"apply", "purge"}, r.c = c,
           r.todo = Removals(ids)
    PROVE  Coherent(r)'
  BY DEF Coherent, Removals, PostLabels, Applying

LEMMA CoherentDecisions ==
    ASSUME NEW c, NEW S, S \subseteq PostsOf(c), UNCHANGED status,
           NEW r, r.at = "apply", r.c = c,
           r.todo = UNION {Decisions(p) : p \in S}
    PROVE  Coherent(r)'
<1>1. SUFFICES ASSUME NEW j \in r.todo
               PROVE  /\ CampaignOf[j.post] = c
                      /\ status[c] = "DRAFT" => j.set = NoSchedule
  BY DEF Coherent, PostLabels, Applying
<1>2. PICK p \in S : j \in Decisions(p)
  OBVIOUS
<1>3. CampaignOf[p] = c
  BY DEF PostsOf
<1>4. QED
  BY <1>2, <1>3 DEF Decisions, Plan, CanSchedule

LEMMA DraftArrives ==
    ASSUME DraftInv, TypeOK', NEW h \in Handler, Arrives(h)
    PROVE  DraftInv'
<1>1. ASSUME NEW r, Start(h, r),
             r.at \in PostLabels => CampaignOf[r.post] = r.c,
             r.at \notin Applying \cup {"statusWrite"}
      PROVE  DraftInv'
  <2>1. Coherent(r)'
    BY <1>1 DEF Coherent
  <2>2. NoNewDraft /\ sched' = sched /\ req' = [req EXCEPT ![h] = r]
    BY <1>1 DEF Start, db, NoNewDraft
  <2>3. QED
    BY <2>1, <2>2, DraftStep
<1>2. CASE \E c \in Campaign, to \in Status :
             Start(h, [at |-> "statusRead", c |-> c, to |-> to])
  BY <1>1, <1>2 DEF PostLabels, Applying
<1>3. CASE \E c \in Campaign, new \in Settings :
             Start(h, [at |-> "updateRead", c |-> c, new |-> new])
  BY <1>1, <1>3 DEF PostLabels, Applying
<1>4. CASE \E c \in Campaign, l \in {"removeRead", "addRead", "bulkRead"} :
             Start(h, [at |-> l, c |-> c])
  BY <1>1, <1>4 DEF PostLabels, Applying
<1>5. CASE \E p \in Post, new \in Overrides :
             Start(h, [at |-> "settingsRead", c |-> CampaignOf[p], post |-> p,
                       new |-> new])
  BY <1>1, <1>5 DEF PostLabels, Applying
<1>6. CASE \E p \in Post :
             Start(h, [at |-> "deleteRead", c |-> CampaignOf[p], post |-> p])
  BY <1>1, <1>6 DEF PostLabels, Applying
<1>7. QED
  BY <1>2, <1>3, <1>4, <1>5, <1>6
     DEF Arrives, ChangeStatus, UpdateCampaign, RemoveCampaign, AddPost,
         BulkUpload, UpdateSettings, DeletePost

\* The one step that changes a scheduler.
LEMMA DraftApplies ==
    ASSUME DraftInv, TypeOK', NEW h \in Handler, ApplyDimension(h)
    PROVE  DraftInv'
<1> DEFINE r == req[h]
<1>1. PICK j, s :
         /\ j \in r.todo
         /\ s = [r EXCEPT !.todo = @ \ {j}]
         /\ sched' = [sched EXCEPT ![j.post][j.dim] = j.set]
         /\ req' = [req EXCEPT ![h] = s]
  BY DEF ApplyDimension, Await
<1>2. r \in Request /\ Coherent(r) /\ r.at \in Applying
  BY DEF ApplyDimension, DraftInv, TypeOK
<1>3. r.todo \in SUBSET Job
  BY <1>2, Shapes DEF Applying
<1>4. UNCHANGED status
  BY DEF ApplyDimension, db
<1>5. s.at = r.at /\ s.c = r.c /\ s.todo \subseteq r.todo
      /\ (r.at = "unschedule" => s.post = r.post)
  <2>1. \/ r \in [at : {"apply", "purge"}, c : Campaign, todo : SUBSET Job]
        \/ r \in [at : {"unschedule"}, c : Campaign, post : Post,
                  todo : SUBSET Job]
    BY <1>2 DEF Request, Applying, Idle
  <2>2. QED
    BY <1>1, <2>1
<1>6. Coherent(s)'
  BY <1>2, <1>4, <1>5 DEF Coherent, Applying, PostLabels
<1>7. ASSUME NEW g \in Handler
      PROVE  Coherent(req[g])'
  <2>1. CASE g = h
    <3>1. req'[g] = s
      BY <1>1, <2>1 DEF DraftInv, TypeOK
    <3>2. QED
      BY <1>6, <3>1 DEF Coherent
  <2>2. CASE g # h
    <3>1. req'[g] = req[g] /\ Coherent(req[g])
      BY <1>1, <2>2 DEF DraftInv, TypeOK
    <3>2. QED
      BY <1>4, <3>1 DEF Coherent
  <2>3. QED
    BY <2>1, <2>2
<1>8. DraftNeverScheduled'
  <2>1. ASSUME NEW p \in Post, NEW d \in Dimension,
               status[CampaignOf[p]] = "DRAFT"
        PROVE  sched'[p][d] = NoSchedule
    <3>1. j.post \in Post /\ j.dim \in Dimension
      BY <1>1, <1>3 DEF Job
    <3>2. sched[p][d] = NoSchedule
      BY <2>1 DEF DraftInv, DraftNeverScheduled
    <3>3. CASE p = j.post /\ d = j.dim
      <4>1. j.set = NoSchedule
        BY <1>1, <1>2, <2>1, <3>3 DEF Coherent
      <4>2. QED
        BY <1>1, <3>1, <3>3, <4>1 DEF DraftInv, TypeOK
    <3>4. CASE ~(p = j.post /\ d = j.dim)
      BY <1>1, <3>1, <3>2, <3>4 DEF DraftInv, TypeOK
    <3>5. QED
      BY <3>3, <3>4
  <2>2. QED
    BY <1>4, <2>1 DEF DraftNeverScheduled
<1>9. QED
  BY <1>7, <1>8 DEF DraftInv

\* A handler resumed at each of its awaits.
LEMMA DraftContinues ==
    ASSUME DraftInv, TypeOK', NEW h \in Handler, Continues(h)
    PROVE  DraftInv'
<1> DEFINE r == req[h]
<1>r. r \in Request /\ Coherent(r) /\ TypeOK
  BY DEF DraftInv, TypeOK
<1> HIDE DEF r
<1>f. ASSUME Finish(h), NoNewDraft, sched' = sched
      PROVE  DraftInv'
  BY <1>f, CoherentIdle, DraftStep DEF Finish
<1>a. ASSUME NEW s, Await(h, s), Coherent(s)', NoNewDraft, sched' = sched
      PROVE  DraftInv'
  BY <1>a, DraftStep DEF Await
<1>p. ASSUME NEW l \in {"updateWrite", "removeWrite", "addCommit",
                        "bulkCommit", "listPosts", "listInherited",
                        "listSchedulers"}
      PROVE  l \notin PostLabels \cup Applying \cup {"statusWrite"}
  BY DEF PostLabels, Applying
<1>u. UNCHANGED status => NoNewDraft
  BY DEF NoNewDraft
<1>1. CASE StatusRead(h)
  <2>1. PICK s : s = [at |-> "statusWrite", c |-> r.c, to |-> r.to,
                      seen |-> status[r.c]]
    OBVIOUS
  <2>2. ValidTransition(status[r.c], r.to) => Coherent(s)'
    BY <2>1 DEF Coherent, PostLabels, Applying
  <2>3. NoNewDraft /\ sched' = sched
    BY <1>1, <1>u DEF StatusRead, db
  <2>4. QED
    BY <1>1, <2>1, <2>2, <2>3, <1>f, <1>a DEF StatusRead, r
<1>2. CASE StatusWrite(h)
  <2>1. r.c \in Campaign /\ r.to # "DRAFT"
    BY <1>2, <1>r, Shapes
       DEF StatusWrite, At, r, Coherent, ValidTransition, Transitions
  <2>2. NoNewDraft /\ sched' = sched
    BY <1>2, <1>r, <2>1 DEF StatusWrite, NoNewDraft, TypeOK, r
  <2>4. PICK s, t : /\ s = [at |-> "listPosts", c |-> r.c]
                    /\ t = [at |-> "listSchedulers", c |-> r.c]
    OBVIOUS
  <2>5. Coherent(s)' /\ Coherent(t)'
    BY <2>4, <1>p, CoherentPlain
  <2>6. QED
    BY <1>2, <2>2, <2>4, <2>5, <1>f, <1>a DEF StatusWrite, r
<1>3. CASE UpdateRead(h)
  <2>1. PICK s : s = [at |-> "updateWrite", c |-> r.c, new |-> r.new,
                      old |-> interval[r.c]]
    OBVIOUS
  <2>2. Coherent(s)'
    BY <2>1, <1>p, CoherentPlain
  <2>3. NoNewDraft /\ sched' = sched
    BY <1>3, <1>u DEF UpdateRead, db
  <2>4. QED
    BY <1>3, <2>1, <2>2, <2>3, <1>f, <1>a DEF UpdateRead, r
<1>4. CASE UpdateWrite(h)
  <2>1. PICK s : s = [at |-> "listInherited", c |-> r.c]
    OBVIOUS
  <2>2. Coherent(s)'
    BY <2>1, <1>p, CoherentPlain
  <2>3. NoNewDraft /\ sched' = sched
    BY <1>4, <1>u DEF UpdateWrite
  <2>4. QED
    BY <1>4, <2>1, <2>2, <2>3, <1>f, <1>a DEF UpdateWrite, r
<1>5. CASE RemoveRead(h)
  <2>1. PICK s : s = [at |-> "removeWrite", c |-> r.c, seen |-> status[r.c]]
    OBVIOUS
  <2>2. Coherent(s)'
    BY <2>1, <1>p, CoherentPlain
  <2>3. NoNewDraft /\ sched' = sched
    BY <1>5, <1>u DEF RemoveRead, db
  <2>4. QED
    BY <1>5, <2>1, <2>2, <2>3, <1>f, <1>a DEF RemoveRead, r
<1>6. CASE RemoveWrite(h)
  <2>1. PICK s : s = [at |-> "listSchedulers", c |-> r.c]
    OBVIOUS
  <2>2. Coherent(s)'
    BY <2>1, <1>p, CoherentPlain
  <2>3. NoNewDraft /\ sched' = sched
    BY <1>6, <1>u DEF RemoveWrite
  <2>4. QED
    BY <1>6, <2>1, <2>2, <2>3, <1>f, <1>a DEF RemoveWrite, r
<1>7. ASSUME NEW from, NEW to \in {"addCommit", "bulkCommit"},
             ReadForPosts(h, from, to)
      PROVE  DraftInv'
  <2>1. PICK s : s = [at |-> to, c |-> r.c, seen |-> status[r.c]]
    OBVIOUS
  <2>2. Coherent(s)'
    BY <2>1, <1>p, CoherentPlain
  <2>3. NoNewDraft /\ sched' = sched
    BY <1>7, <1>u DEF ReadForPosts, db
  <2>4. QED
    BY <1>7, <2>1, <2>2, <2>3, <1>f, <1>a DEF ReadForPosts, r
<1>8. CASE AddCommit(h)
  <2>1. ASSUME NEW p \in PostsOf(r.c),
               Await(h, [at |-> "loadPost", c |-> r.c, post |-> p])
        PROVE  DraftInv'
    <3>1. PICK s : s = [at |-> "loadPost", c |-> r.c, post |-> p]
      OBVIOUS
    <3>2. Coherent(s)'
      BY <3>1 DEF Coherent, PostsOf, Applying
    <3>3. NoNewDraft /\ sched' = sched
      BY <1>8, <1>u DEF AddCommit
    <3>4. QED
      BY <2>1, <3>1, <3>2, <3>3, <1>a
  <2>2. NoNewDraft /\ sched' = sched
    BY <1>8, <1>u DEF AddCommit
  <2>3. QED
    BY <1>8, <2>1, <2>2, <1>f DEF AddCommit, r
<1>9. CASE BulkCommit(h)
  <2>1. PICK s : s = [at |-> "listPosts", c |-> r.c]
    OBVIOUS
  <2>2. Coherent(s)'
    BY <2>1, <1>p, CoherentPlain
  <2>3. NoNewDraft /\ sched' = sched
    BY <1>9, <1>u DEF BulkCommit
  <2>4. QED
    BY <1>9, <2>1, <2>2, <2>3, <1>f, <1>a DEF BulkCommit, r
<1>10. CASE SettingsRead(h)
  <2>1. PICK s : s = [at |-> "settingsWrite", c |-> r.c, post |-> r.post,
                      new |-> r.new, old |-> override[r.post]]
    OBVIOUS
  <2>2. Coherent(s)'
    BY <1>10, <1>r, <2>1 DEF SettingsRead, At, r, Coherent, PostLabels, Applying
  <2>3. NoNewDraft /\ sched' = sched
    BY <1>10, <1>u DEF SettingsRead, db
  <2>4. QED
    BY <1>10, <2>1, <2>2, <2>3, <1>f, <1>a DEF SettingsRead, r
<1>11. CASE SettingsWrite(h)
  <2>1. PICK s : s = [at |-> "loadPost", c |-> r.c, post |-> r.post]
    OBVIOUS
  <2>2. Coherent(s)'
    BY <1>11, <1>r, <2>1
       DEF SettingsWrite, At, r, Coherent, PostLabels, Applying
  <2>3. NoNewDraft /\ sched' = sched
    BY <1>11, <1>u DEF SettingsWrite
  <2>4. QED
    BY <1>11, <2>1, <2>2, <2>3, <1>f, <1>a DEF SettingsWrite, r
<1>12. CASE DeleteRead(h)
  <2>1. PICK s : s = [at |-> "deleteLoad", c |-> r.c, post |-> r.post]
    OBVIOUS
  <2>2. Coherent(s)'
    BY <1>12, <1>r, <2>1 DEF DeleteRead, At, r, Coherent, PostLabels, Applying
  <2>3. NoNewDraft /\ sched' = sched
    BY <1>12, <1>u DEF DeleteRead, db
  <2>4. QED
    BY <1>12, <2>1, <2>2, <2>3, <1>f, <1>a DEF DeleteRead, r
<1>13. CASE DeleteLoad(h)
  <2>1. PICK s : s = [at |-> "unschedule", c |-> r.c, post |-> r.post,
                      todo |-> IF row[r.post] = "live"
                               THEN Removals({r.post} \X Dimension) ELSE {}]
    OBVIOUS
  <2>2. CampaignOf[r.post] = r.c
    BY <1>13, <1>r DEF DeleteLoad, At, r, Coherent, PostLabels
  <2>3. \A j \in s.todo : j.post = r.post /\ j.set = NoSchedule
    BY <2>1 DEF Removals
  <2>4. Coherent(s)'
    BY <2>1, <2>2, <2>3 DEF Coherent
  <2>5. NoNewDraft /\ sched' = sched
    BY <1>13, <1>u DEF DeleteLoad, db
  <2>6. QED
    BY <1>13, <2>1, <2>4, <2>5, <1>a DEF DeleteLoad, r
<1>14. CASE DeleteRow(h)
  BY <1>14, <1>f, <1>u DEF DeleteRow
<1>15. CASE ListPosts(h)
  <2>1. PICK s : s = [at |-> "apply", c |-> r.c,
                      todo |-> UNION {Decisions(p) : p \in LivePosts(r.c)}]
    OBVIOUS
  <2>2. LivePosts(r.c) \subseteq PostsOf(r.c)
    BY DEF LivePosts
  <2>3. Coherent(s)'
    BY <1>15, <2>1, <2>2, CoherentDecisions DEF ListPosts, db
  <2>4. NoNewDraft /\ sched' = sched
    BY <1>15, <1>u DEF ListPosts, db
  <2>5. QED
    BY <1>15, <2>1, <2>3, <2>4, <1>a DEF ListPosts, r
<1>16. CASE ListInherited(h)
  <2> DEFINE S == {q \in LivePosts(r.c) :
                     \E d \in Dimension : override[q][d] = Unset}
  <2>1. PICK s : s = [at |-> "apply", c |-> r.c,
                      todo |-> UNION {Decisions(p) : p \in S}]
    OBVIOUS
  <2>2. S \subseteq PostsOf(r.c)
    BY DEF LivePosts
  <2>3. Coherent(s)'
    BY <1>16, <2>1, <2>2, CoherentDecisions DEF ListInherited, db
  <2>4. NoNewDraft /\ sched' = sched
    BY <1>16, <1>u DEF ListInherited, db
  <2>5. QED
    BY <1>16, <2>1, <2>3, <2>4, <1>a DEF ListInherited, r
<1>17. CASE ListSchedulers(h)
  <2> DEFINE ids == {i \in PostsOf(r.c) \X Dimension :
                       sched[i[1]][i[2]] # NoSchedule}
  <2>1. PICK s : s = [at |-> "purge", c |-> r.c, todo |-> Removals(ids)]
    OBVIOUS
  <2>2. \A i \in ids : CampaignOf[i[1]] = r.c
    BY DEF PostsOf
  <2> HIDE DEF ids
  <2>3. Coherent(s)'
    BY <2>1, <2>2, CoherentRemovals
  <2>4. NoNewDraft /\ sched' = sched
    BY <1>17, <1>u DEF ListSchedulers, db
  <2>5. QED
    BY <1>17, <2>1, <2>3, <2>4, <1>a DEF ListSchedulers, r, ids
<1>18. CASE LoadPost(h)
  <2>1. PICK s : s = [at |-> "apply", c |-> r.c, todo |-> Decisions(r.post)]
    OBVIOUS
  <2>2. r.post \in PostsOf(r.c)
    BY <1>18, <1>r, Shapes
       DEF LoadPost, At, r, Coherent, PostLabels, PostsOf
  <2>3. s.todo = UNION {Decisions(p) : p \in {r.post}}
    BY <2>1
  <2>4. Coherent(s)'
    BY <1>18, <2>1, <2>2, <2>3, CoherentDecisions DEF LoadPost, db
  <2>5. NoNewDraft /\ sched' = sched
    BY <1>18, <1>u DEF LoadPost, db
  <2>6. QED
    BY <1>18, <2>1, <2>4, <2>5, <1>f, <1>a DEF LoadPost, r
<1>19. CASE ApplyDimension(h)
  BY <1>19, DraftApplies
<1>20. CASE Applied(h)
  BY <1>20, <1>f, <1>u DEF Applied, db
<1>21. CASE Purged(h)
  <2>1. NoNewDraft /\ sched' = sched /\ req' = [req EXCEPT ![h] = Idle]
    BY <1>21, <1>u DEF Purged, db
  <2>2. QED
    BY <2>1, CoherentIdle, DraftStep
<1>22. QED
  BY <1>1, <1>2, <1>3, <1>4, <1>5, <1>6, <1>7, <1>8, <1>9, <1>10, <1>11,
     <1>12, <1>13, <1>14, <1>15, <1>16, <1>17, <1>18, <1>19, <1>20, <1>21
     DEF Continues, AddRead, BulkRead

\* A restart forgets every handler, a failure forgets a call.
LEMMA DraftFails ==
    ASSUME DraftInv, TypeOK', (\E h \in Handler : Fails(h)) \/ ApiRestarts
    PROVE  DraftInv'
<1>1. NoNewDraft /\ sched' = sched
  BY DEF Fails, QueryFails, SchedulerCallFails, ApiRestarts, db, NoNewDraft
<1>2. ASSUME NEW h \in Handler, QueryFails(h)
      PROVE  DraftInv'
  BY <1>1, <1>2, CoherentIdle, DraftStep DEF QueryFails
<1>3. ASSUME NEW h \in Handler, SchedulerCallFails(h)
      PROVE  DraftInv'
  <2>1. PICK j, s :
           /\ j \in req[h].todo
           /\ s = [at |-> "apply", c |-> req[h].c, todo |-> req[h].todo \ {j}]
           /\ req' = [req EXCEPT ![h] = s]
    BY <1>3 DEF SchedulerCallFails
  <2>2. Coherent(req[h]) /\ req[h].at \in Applying
    BY <1>3 DEF SchedulerCallFails, DraftInv
  <2>3. UNCHANGED status
    BY <1>3 DEF SchedulerCallFails, db
  <2>4. Coherent(s)'
    BY <2>1, <2>2, <2>3 DEF Coherent, PostLabels
  <2>5. QED
    BY <1>1, <2>1, <2>4, DraftStep
<1>4. CASE ApiRestarts
  <2>1. \A h \in Handler : req'[h] = Idle
    BY <1>4 DEF ApiRestarts
  <2>2. \A h \in Handler : Coherent(req[h])'
    BY <2>1, CoherentIdle DEF Coherent
  <2>3. DraftNeverScheduled'
    BY <1>1, PollingAssumption DEF DraftInv, DraftNeverScheduled, NoNewDraft
  <2>4. QED
    BY <2>2, <2>3 DEF DraftInv
<1>5. QED
  BY <1>2, <1>3, <1>4 DEF Fails

LEMMA DraftNext == DraftInv /\ [Next]_vars => DraftInv'
<1> SUFFICES ASSUME DraftInv, [Next]_vars PROVE DraftInv'
  OBVIOUS
<1>1. TypeOK'
  BY NextType DEF DraftInv
<1>2. ASSUME NEW h \in Handler, Arrives(h) \/ Continues(h) \/ Fails(h)
      PROVE  DraftInv'
  BY <1>1, <1>2, DraftArrives, DraftContinues, DraftFails
<1>3. CASE ApiRestarts
  BY <1>1, <1>3, DraftFails
<1>4. CASE UNCHANGED vars
  BY <1>1, <1>4 DEF vars, db, history, DraftInv, Coherent, DraftNeverScheduled
<1>5. QED
  BY <1>2, <1>3, <1>4 DEF Next

LEMMA DraftInit == Init => DraftInv
<1> SUFFICES ASSUME Init PROVE DraftInv
  OBVIOUS
<1>1. TypeOK
  BY InitType
<1>2. \A h \in Handler : Coherent(req[h])
  BY DEF Init, Idle, Coherent, PostLabels, Applying
<1>3. DraftNeverScheduled
  BY DEF Init, DraftNeverScheduled
<1>4. QED
  BY <1>1, <1>2, <1>3 DEF DraftInv

\* A campaign that was never activated has no scheduler, however requests
\* overlap, calls fail and the process restarts (canSchedule in
\* applyDimension, VALID_TRANSITIONS in changeStatus).
THEOREM DraftsUnscheduled == Spec => []DraftNeverScheduled
<1>1. DraftInv => DraftNeverScheduled
  BY DEF DraftInv
<1>2. QED
  BY <1>1, DraftInit, DraftNext, PTL DEF Spec
-----------------------------------------------------------------------------
(***************************************************************************)
(* The schedulers of a campaign at rest are those its rows call for, and   *)
(* its status only takes legal transitions, unless requests overlapped or  *)
(* one was abandoned halfway.                                              *)
(***************************************************************************)
\* A handler nobody crowded is alone on its campaign, and a campaign with a
\* crowded handler is disturbed.
Alone ==
    /\ \A h, g \in Handler :
        req[h].c \in Campaign /\ req[h].c = req[g].c /\ h \notin crowded
            => h = g
    /\ \A h \in crowded : req[h].c \in disturbed

Reading == {"statusRead", "updateRead", "removeRead", "addRead", "bulkRead",
            "settingsRead", "deleteRead", "deleteLoad"}

Writing == {"statusWrite", "updateWrite", "removeWrite", "addCommit",
            "bulkCommit", "settingsWrite"}

Pending(todo, p, d) == \E j \in todo : j.post = p /\ j.dim = d

\* How far the schedulers of an undisturbed campaign may be from its rows
\* while its only handler is at each await.
Calm(r) ==
    /\ r.at \in Reading \cup Writing => InStep(r.c)
    /\ r.at \in {"statusWrite", "removeWrite", "addCommit", "bulkCommit"}
        => r.c \notin deleted /\ r.seen = status[r.c]
    /\ r.at = "updateWrite" => r.c \notin deleted /\ r.old = interval[r.c]
    /\ r.at = "settingsWrite" => r.old = override[r.post]
    /\ r.at \in {"settingsWrite", "deleteLoad", "loadPost"}
        => row[r.post] = "live"
    /\ r.at = "loadPost" =>
        /\ r.c \in deleted => r.post \in revived
        /\ \A p \in PostsOf(r.c) \ {r.post}, d \in Dimension :
               Right(p, d, sched[p][d])
    /\ r.at = "listPosts" =>
        /\ r.c \notin deleted
        /\ \A p \in PostsOf(r.c), d \in Dimension :
               row[p] # "live" => Right(p, d, sched[p][d])
    /\ r.at = "listInherited" =>
        /\ r.c \notin deleted
        /\ \A p \in PostsOf(r.c), d \in Dimension :
               row[p] # "live" \/ (\A e \in Dimension : override[p][e] # Unset)
                   => Right(p, d, sched[p][d])
    /\ r.at = "apply" =>
        /\ \A j \in r.todo : Right(j.post, j.dim, j.set)
        /\ \A p \in PostsOf(r.c), d \in Dimension :
               Right(p, d, sched[p][d]) \/ Pending(r.todo, p, d)
    /\ r.at = "unschedule" =>
        /\ \A j \in r.todo : j.post = r.post /\ j.set = NoSchedule
        /\ \A p \in PostsOf(r.c) \ {r.post}, d \in Dimension :
               Right(p, d, sched[p][d])
        /\ \A d \in Dimension :
               sched[r.post][d] = NoSchedule \/ Pending(r.todo, r.post, d)

\* A purge repairs whatever came before it, so it is followed even when the
\* campaign is disturbed.
Purging(r) ==
    /\ r.at \in {"listSchedulers", "purge"}
        => status[r.c] # "ACTIVE" \/ r.c \in deleted
    /\ r.at = "purge" =>
        /\ \A j \in r.todo : j.set = NoSchedule
        /\ \A p \in PostsOf(r.c), d \in Dimension :
               sched[p][d] = NoSchedule \/ Pending(r.todo, p, d)

IInv ==
    /\ DraftInv
    /\ Alone
    /\ InStepAtRest
    /\ \A h \in Handler : req[h].c \in Campaign \ disturbed => Calm(req[h])
    /\ \A h \in Handler \ crowded : Purging(req[h])
-----------------------------------------------------------------------------
(* One campaign at a time.                                                 *)

\* A step that leaves everything but campaign c and its posts alone.
Elsewhere(c) ==
    /\ \A k \in Campaign \ {c} :
        /\ status'[k] = status[k]
        /\ interval'[k] = interval[k]
        /\ k \in deleted' <=> k \in deleted
        /\ k \in disturbed' <=> k \in disturbed
    /\ \A p \in Post : CampaignOf[p] # c =>
        /\ row'[p] = row[p]
        /\ override'[p] = override[p]
        /\ sched'[p] = sched[p]
        /\ p \in revived' <=> p \in revived

LEMMA RightElsewhere ==
    ASSUME NEW c \in Campaign, Elsewhere(c),
           NEW p \in Post, CampaignOf[p] # c, NEW d, NEW v
    PROVE  /\ Right(p, d, v)' <=> Right(p, d, v)
           /\ Right(p, d, sched[p][d])' <=> Right(p, d, sched[p][d])
<1>1. CampaignOf[p] \in Campaign \ {c}
  BY PollingAssumption
<1>2. Want(p, d)' = Want(p, d)
  BY <1>1 DEF Elsewhere, Want
<1>3. QED
  BY <1>1, <1>2 DEF Elsewhere, Right

LEMMA InStepElsewhere ==
    ASSUME NEW c \in Campaign, Elsewhere(c), NEW k \in Campaign \ {c}
    PROVE  InStep(k)' <=> InStep(k)
  BY RightElsewhere DEF InStep, PostsOf

LEMMA HandlerElsewhere ==
    ASSUME NEW c \in Campaign, Elsewhere(c),
           NEW r \in Request, Coherent(r), r.c \in Campaign \ {c}
    PROVE  /\ Calm(r) => Calm(r)'
           /\ Purging(r) => Purging(r)'
<1> DEFINE k == r.c
<1>1. /\ k \in Campaign \ {c}
      /\ status'[k] = status[k] /\ interval'[k] = interval[k]
      /\ k \in deleted' <=> k \in deleted
  BY DEF Elsewhere
<1>2. InStep(k)' <=> InStep(k)
  BY <1>1, InStepElsewhere
<1>3. ASSUME NEW p \in PostsOf(k)
      PROVE  /\ p \in Post /\ CampaignOf[p] # c
             /\ row'[p] = row[p] /\ override'[p] = override[p]
             /\ sched'[p] = sched[p] /\ (p \in revived' <=> p \in revived)
             /\ \A d \in Dimension :
                  Right(p, d, sched[p][d])' <=> Right(p, d, sched[p][d])
  BY <1>1, RightElsewhere DEF PostsOf, Elsewhere
<1>4. r.at \in PostLabels => r.post \in PostsOf(k)
  BY Shapes DEF Coherent, PostsOf
<1>5. r.at \in Applying =>
        \A j \in r.todo :
           /\ j.post \in PostsOf(k)
           /\ Right(j.post, j.dim, j.set)' <=> Right(j.post, j.dim, j.set)
  <2>1. SUFFICES ASSUME r.at \in Applying, NEW j \in r.todo
                 PROVE  /\ j.post \in PostsOf(k)
                        /\ Right(j.post, j.dim, j.set)'
                             <=> Right(j.post, j.dim, j.set)
    OBVIOUS
  <2>2. j \in Job
    BY <2>1, Shapes
  <2>3. j.post \in PostsOf(k)
    BY <2>1, <2>2 DEF Coherent, PostsOf, Job
  <2>4. QED
    BY <1>3, <2>3, RightElsewhere
<1> HIDE DEF k
<1>k. r.c = k
  BY DEF k
<1>6. ASSUME Calm(r) PROVE Calm(r)'
  BY <1>k, <1>1, <1>2, <1>3, <1>4, <1>5, <1>6 DEF Calm, PostLabels, Applying
<1>7. ASSUME Purging(r) PROVE Purging(r)'
  BY <1>k, <1>1, <1>3, <1>7 DEF Purging
<1>8. QED
  BY <1>6, <1>7

\* What a step of one handler owes: its own campaign in order.
LEMMA OneStep ==
    ASSUME IInv, DraftInv', NEW h \in Handler, NEW c \in Campaign,
           req[h].c = c, NEW r, req' = [req EXCEPT ![h] = r],
           r.c = c \/ r = Idle,
           crowded' = IF r = Idle THEN crowded \ {h} ELSE crowded,
           c \in disturbed => c \in disturbed' \/ h \notin crowded,
           Elsewhere(c),
           r # Idle /\ c \notin disturbed' => Calm(r)',
           r # Idle /\ h \notin crowded => Purging(r)',
           r = Idle /\ c \notin disturbed' => InStep(c)'
    PROVE  IInv'
<1>t. TypeOK /\ TypeOK'
  BY DEF IInv, DraftInv
<1>1. req'[h] = r /\ \A g \in Handler \ {h} : req'[g] = req[g]
  BY <1>t DEF TypeOK
<1>i. Idle.c \notin Campaign
  BY PollingAssumption DEF Idle
<1>2. Alone'
  <2>1. ASSUME NEW f \in Handler, NEW g \in Handler,
               req'[f].c \in Campaign, req'[f].c = req'[g].c, f \notin crowded'
        PROVE  f = g
    <3>1. req[f].c = req'[f].c /\ req[g].c = req'[g].c
      BY <1>1, <1>i, <2>1
    <3>2. f \notin crowded
      BY <1>1, <1>i, <2>1
    <3>3. QED
      BY <2>1, <3>1, <3>2 DEF IInv, Alone
  <2>2. ASSUME NEW g \in crowded'
        PROVE  req'[g].c \in disturbed'
    <3>1. g \in crowded /\ g \in Handler /\ req[g].c \in disturbed
      BY <1>t, <2>2 DEF TypeOK, IInv, Alone
    <3>2. CASE g = h
      <4>1. r # Idle /\ r.c = c
        BY <2>2, <3>2
      <4>2. QED
        BY <1>1, <3>1, <3>2, <4>1
    <3>3. CASE g # h
      <4>1. req'[g] = req[g]
        BY <1>1, <3>1, <3>3
      <4>2. CASE req[g].c = c
        <5>1. h \in crowded
          BY <3>1, <3>3, <4>2 DEF IInv, Alone
        <5>2. QED
          BY <3>1, <4>1, <4>2, <5>1
      <4>3. CASE req[g].c # c
        BY <1>t, <3>1, <4>1, <4>3 DEF Elsewhere, TypeOK
      <4>4. QED
        BY <4>2, <4>3
    <3>4. QED
      BY <3>2, <3>3
  <2>3. QED
    BY <2>1, <2>2 DEF Alone
<1>3. ASSUME NEW g \in Handler \ {h}, req[g].c = c
      PROVE  g \in crowded /\ h \in crowded /\ c \in disturbed'
  BY <1>3 DEF IInv, Alone
<1>4. InStepAtRest'
  <2>1. ASSUME NEW k \in Campaign \ disturbed',
               \A g \in Handler : req'[g].c # k
        PROVE  InStep(k)'
    <3>1. CASE k = c
      BY <1>1, <2>1, <3>1
    <3>2. CASE k # c
      <4>1. k \in Campaign \ disturbed
        BY <2>1, <3>2 DEF Elsewhere
      <4>2. \A g \in Handler : req[g].c # k
        BY <1>1, <2>1, <3>2
      <4>3. InStep(k)
        BY <4>1, <4>2 DEF IInv, InStepAtRest, InFlight
      <4>4. QED
        BY <3>2, <4>3, InStepElsewhere
    <3>3. QED
      BY <3>1, <3>2
  <2>2. QED
    BY <2>1 DEF InStepAtRest, InFlight
<1>5. ASSUME NEW g \in Handler, req'[g].c \in Campaign \ disturbed'
      PROVE  Calm(req[g])'
  <2>1. CASE g = h
    <3>1. r # Idle /\ c \notin disturbed'
      BY <1>1, <1>5, <1>i, <2>1
    <3>2. Calm(r)' /\ req'[g] = r
      BY <1>1, <2>1, <3>1
    <3>3. QED
      BY <3>2 DEF Calm
  <2>2. CASE g # h
    <3>1. req'[g] = req[g] /\ req[g].c \in Campaign \ {c}
      BY <1>1, <1>3, <1>5, <2>2
    <3>2. PICK s \in Request : s = req[g]
      BY <1>t DEF TypeOK
    <3>3. s.c \in Campaign \ disturbed
      BY <1>5, <3>1, <3>2 DEF Elsewhere
    <3>4. Calm(s) /\ Coherent(s)
      BY <3>2, <3>3 DEF IInv, DraftInv
    <3>5. Calm(s)' /\ req'[g] = s
      BY <3>1, <3>2, <3>4, HandlerElsewhere
    <3>6. QED
      BY <3>5 DEF Calm
  <2>3. QED
    BY <2>1, <2>2
<1>6. ASSUME NEW g \in Handler \ crowded'
      PROVE  Purging(req[g])'
  <2>1. CASE req'[g] = Idle
    BY <2>1 DEF Purging, Idle
  <2>2. CASE req'[g] # Idle /\ g = h
    <3>1. Purging(r)' /\ req'[g] = r
      BY <1>1, <1>6, <2>2
    <3>2. QED
      BY <3>1 DEF Purging
  <2>3. CASE req'[g] # Idle /\ g # h
    <3>1. req'[g] = req[g] /\ req[g] # Idle
      BY <1>1, <2>3
    <3>2. PICK s \in Request : s = req[g]
      BY <1>t DEF TypeOK
    <3>3. s.c \in Campaign
      BY <3>1, <3>2, Shapes
    <3>4. g \notin crowded
      BY <1>6, <2>3
    <3>5. s.c # c
      BY <1>3, <2>3, <3>2, <3>4
    <3>6. Purging(s) /\ Coherent(s)
      BY <3>2, <3>4 DEF IInv, DraftInv
    <3>7. Purging(s)' /\ req'[g] = s
      BY <3>1, <3>2, <3>3, <3>5, <3>6, HandlerElsewhere
    <3>8. QED
      BY <3>7 DEF Purging
  <2>4. QED
    BY <2>1, <2>2, <2>3
<1>7. QED
  BY <1>2, <1>4, <1>5, <1>6 DEF IInv

\* A handler ends, or reaches its next await.
LEMMA FinishStep ==
    ASSUME IInv, DraftInv', NEW h \in Handler, NEW c \in Campaign,
           req[h].c = c, Finish(h), Elsewhere(c),
           c \notin disturbed => InStep(c)'
    PROVE  IInv'
  BY OneStep DEF Finish

LEMMA AwaitStep ==
    ASSUME IInv, DraftInv', NEW h \in Handler, NEW c \in Campaign,
           req[h].c = c, NEW s, s.c = c, Await(h, s), Elsewhere(c),
           c \notin disturbed => Calm(s)',
           h \notin crowded => Purging(s)'
    PROVE  IInv'
<1>1. s # Idle
  BY PollingAssumption DEF Idle
<1>2. QED
  BY <1>1, OneStep DEF Await

\* What holds of a handler in flight.
LEMMA Resumed ==
    ASSUME IInv, NEW h \in Handler, req[h].at # "idle"
    PROVE  /\ req[h] \in Request /\ req[h].c \in Campaign
           /\ Coherent(req[h])
           /\ req[h].c \notin disturbed => Calm(req[h]) /\ h \notin crowded
           /\ h \notin crowded => Purging(req[h])
<1>1. req[h] \in Request /\ req[h].c \in Campaign
  BY Shapes DEF IInv, DraftInv, TypeOK
<1>2. QED
  BY <1>1 DEF IInv, DraftInv, Alone

\* A step that only reads.
LEMMA ReadStep ==
    ASSUME UNCHANGED <<db, sched, revived>>, NEW c
    PROVE  /\ UNCHANGED disturbed => Elsewhere(c)
           /\ InStep(c)' <=> InStep(c)
           /\ \A p \in Post, d \in Dimension :
                Right(p, d, sched[p][d])' <=> Right(p, d, sched[p][d])
  BY DEF db, Elsewhere, InStep, Right, Want

-----------------------------------------------------------------------------
(* PATCH /campaigns/:id/status                                             *)

LEMMA StatusSteps ==
    ASSUME IInv, DraftInv', NEW h \in Handler,
           StatusRead(h) \/ StatusWrite(h)
    PROVE  IInv'
<1>1. PICK r : r = req[h]
  OBVIOUS
<1>2. r.at # "idle" /\ r.c \in Campaign /\ Coherent(r) /\ r \in Request
      /\ (r.c \notin disturbed => Calm(r))
  BY <1>1, Resumed DEF StatusRead, StatusWrite, At
<1>3. CASE StatusRead(h)
  <2>1. PICK s : s = [at |-> "statusWrite", c |-> r.c, to |-> r.to,
                      seen |-> status[r.c]]
    OBVIOUS
  <2>2. Finish(h) \/ (Await(h, s) /\ r.c \notin deleted)
    BY <1>1, <1>3, <2>1 DEF StatusRead
  <2>3. UNCHANGED <<db, sched, revived>> /\ UNCHANGED disturbed
    BY <1>3, <2>2 DEF StatusRead, Finish, Await
  <2>4. r.c \notin disturbed => InStep(r.c)
    BY <1>1, <1>2, <1>3 DEF StatusRead, At, Calm, Reading
  <2>5. /\ Elsewhere(r.c)
        /\ InStep(r.c)' <=> InStep(r.c)
    BY <2>3, ReadStep
  <2>6. CASE Finish(h)
    BY <1>1, <1>2, <2>4, <2>5, <2>6, FinishStep
  <2>7. CASE Await(h, s) /\ r.c \notin deleted
    <3>1. r.c \notin disturbed => Calm(s)'
      BY <2>1, <2>3, <2>4, <2>5, <2>7 DEF Calm, Reading, Applying, db
    <3>2. Purging(s)'
      BY <2>1 DEF Purging
    <3>3. QED
      BY <1>1, <1>2, <2>1, <2>5, <2>7, <3>1, <3>2, AwaitStep
  <2>8. QED
    BY <2>2, <2>6, <2>7
<1>4. CASE StatusWrite(h)
  <2>1. /\ r.at = "statusWrite" /\ r.to \in Status
        /\ ValidTransition(r.seen, r.to)
    BY <1>1, <1>2, <1>4, Shapes DEF StatusWrite, At, Coherent
  <2>2. /\ status' = [status EXCEPT ![r.c] = r.to]
        /\ UNCHANGED <<deleted, interval, row, override, sched, revived>>
        /\ UNCHANGED disturbed
    BY <1>1, <1>4 DEF StatusWrite, Finish, Await
  <2>3. status'[r.c] = r.to /\ \A k \in Campaign \ {r.c} : status'[k] = status[k]
    BY <1>2, <2>2 DEF IInv, DraftInv, TypeOK
  <2>4. Elsewhere(r.c)
    BY <2>2, <2>3 DEF Elsewhere
  <2>5. r.c \notin disturbed =>
          InStep(r.c) /\ r.c \notin deleted /\ r.seen = status[r.c]
    BY <1>2, <2>1 DEF Calm, Writing
  <2>6. CASE r.to = "ACTIVE"
    <3>1. PICK s : s = [at |-> "listPosts", c |-> r.c]
      OBVIOUS
    <3>2. ASSUME r.c \notin disturbed,
                 NEW p \in PostsOf(r.c), NEW d \in Dimension, row'[p] # "live"
          PROVE  Right(p, d, sched[p][d])'
      BY <2>2, <2>5, <3>2 DEF InStep, Right, Want
    <3>3. r.c \notin disturbed => Calm(s)'
      BY <2>2, <2>5, <3>1, <3>2 DEF Calm, Reading, Writing
    <3>4. Purging(s)'
      BY <3>1 DEF Purging
    <3>5. Await(h, s)
      BY <1>1, <1>4, <2>6, <3>1 DEF StatusWrite
    <3>6. QED
      BY <1>1, <1>2, <2>4, <3>1, <3>3, <3>4, <3>5, AwaitStep
  <2>7. CASE r.to # "ACTIVE" /\ r.seen = "ACTIVE"
    <3>1. PICK s : s = [at |-> "listSchedulers", c |-> r.c]
      OBVIOUS
    <3>2. Calm(s)'
      BY <3>1 DEF Calm, Reading, Writing
    <3>3. Purging(s)'
      BY <2>3, <2>7, <3>1 DEF Purging
    <3>4. Await(h, s)
      BY <1>1, <1>4, <2>7, <3>1 DEF StatusWrite
    <3>5. QED
      BY <1>1, <1>2, <2>4, <3>1, <3>2, <3>3, <3>4, AwaitStep
  <2>8. CASE r.to # "ACTIVE" /\ r.seen # "ACTIVE"
    <3>1. ASSUME r.c \notin disturbed, NEW p \in PostsOf(r.c), NEW d \in Dimension
          PROVE  Right(p, d, sched[p][d])'
      <4>1. CampaignOf[p] = r.c
        BY DEF PostsOf
      <4>2. sched[p][d] = NoSchedule
        BY <2>5, <2>8, <3>1, <4>1 DEF InStep, Right, Want, Plan, CanSchedule
      <4>3. Want(p, d)' = NoSchedule
        BY <2>3, <2>8, <4>1 DEF Want, Plan, CanSchedule
      <4>4. QED
        BY <2>2, <4>2, <4>3 DEF Right
    <3>2. r.c \notin disturbed => InStep(r.c)'
      BY <3>1 DEF InStep
    <3>3. Finish(h)
      BY <1>1, <1>4, <2>8 DEF StatusWrite
    <3>4. QED
      BY <1>1, <1>2, <2>4, <3>2, <3>3, FinishStep
  <2>9. QED
    BY <2>6, <2>7, <2>8
<1>5. QED
  BY <1>3, <1>4

-----------------------------------------------------------------------------
(* PUT /campaigns/:id and DELETE /campaigns/:id                            *)

LEMMA UpdateSteps ==
    ASSUME IInv, DraftInv', NEW h \in Handler,
           UpdateRead(h) \/ UpdateWrite(h)
    PROVE  IInv'
<1>1. PICK r : r = req[h]
  OBVIOUS
<1>2. r.at # "idle" /\ r.c \in Campaign
      /\ (r.c \notin disturbed => Calm(r))
  BY <1>1, Resumed DEF UpdateRead, UpdateWrite, At
<1>3. CASE UpdateRead(h)
  <2>1. PICK s : s = [at |-> "updateWrite", c |-> r.c, new |-> r.new,
                      old |-> interval[r.c]]
    OBVIOUS
  <2>2. Finish(h) \/ (Await(h, s) /\ r.c \notin deleted)
    BY <1>1, <1>3, <2>1 DEF UpdateRead
  <2>3. UNCHANGED <<db, sched, revived>> /\ UNCHANGED disturbed
    BY <1>3, <2>2 DEF UpdateRead, Finish, Await
  <2>4. r.c \notin disturbed => InStep(r.c)
    BY <1>1, <1>2, <1>3 DEF UpdateRead, At, Calm, Reading
  <2>5. /\ Elsewhere(r.c)
        /\ InStep(r.c)' <=> InStep(r.c)
    BY <2>3, ReadStep
  <2>6. CASE Finish(h)
    BY <1>1, <1>2, <2>4, <2>5, <2>6, FinishStep
  <2>7. CASE Await(h, s) /\ r.c \notin deleted
    <3>1. r.c \notin disturbed => Calm(s)'
      BY <2>1, <2>3, <2>4, <2>5, <2>7 DEF Calm, Reading, db
    <3>2. Purging(s)'
      BY <2>1 DEF Purging
    <3>3. QED
      BY <1>1, <1>2, <2>1, <2>5, <2>7, <3>1, <3>2, AwaitStep
  <2>8. QED
    BY <2>2, <2>6, <2>7
<1>4. CASE UpdateWrite(h)
  <2>1. r.at = "updateWrite"
    BY <1>1, <1>4 DEF UpdateWrite, At
  <2>2. /\ interval' = [interval EXCEPT ![r.c] = r.new]
        /\ UNCHANGED <<status, deleted, row, override, sched, revived>>
        /\ UNCHANGED disturbed
    BY <1>1, <1>4 DEF UpdateWrite, Finish, Await
  <2>3. /\ interval'[r.c] = r.new
        /\ \A k \in Campaign \ {r.c} : interval'[k] = interval[k]
    BY <1>2, <2>2 DEF IInv, DraftInv, TypeOK
  <2>4. Elsewhere(r.c)
    BY <2>2, <2>3 DEF Elsewhere
  <2>5. r.c \notin disturbed =>
          InStep(r.c) /\ r.c \notin deleted /\ r.old = interval[r.c]
    BY <1>2, <2>1 DEF Calm, Writing
  <2>6. CASE r.new # r.old
    <3>1. PICK s : s = [at |-> "listInherited", c |-> r.c]
      OBVIOUS
    <3>2. ASSUME r.c \notin disturbed,
                 NEW p \in PostsOf(r.c), NEW d \in Dimension,
                 \/ row'[p] # "live"
                 \/ \A e \in Dimension : override'[p][e] # Unset
          PROVE  Right(p, d, sched[p][d])'
      <4>1. CampaignOf[p] = r.c /\ Right(p, d, sched[p][d])
        BY <2>5, <3>2 DEF PostsOf, InStep
      <4>2. Want(p, d)' = Want(p, d)
        BY <2>2, <3>2 DEF Want, Plan, Effective
      <4>3. QED
        BY <2>2, <4>1, <4>2 DEF Right
    <3>3. r.c \notin disturbed => Calm(s)'
      BY <2>2, <2>5, <3>1, <3>2 DEF Calm, Reading, Writing
    <3>4. Purging(s)'
      BY <3>1 DEF Purging
    <3>5. Await(h, s)
      BY <1>1, <1>4, <2>6, <3>1 DEF UpdateWrite
    <3>6. QED
      BY <1>1, <1>2, <2>4, <3>1, <3>3, <3>4, <3>5, AwaitStep
  <2>7. CASE r.new = r.old
    <3>1. r.c \notin disturbed => interval'[r.c] = interval[r.c]
      BY <2>3, <2>5, <2>7
    <3>2. r.c \notin disturbed => InStep(r.c)'
      BY <2>2, <2>5, <3>1 DEF InStep, Right, Want, PostsOf
    <3>3. Finish(h)
      BY <1>1, <1>4, <2>7 DEF UpdateWrite
    <3>4. QED
      BY <1>1, <1>2, <2>4, <3>2, <3>3, FinishStep
  <2>8. QED
    BY <2>6, <2>7
<1>5. QED
  BY <1>3, <1>4

LEMMA RemoveSteps ==
    ASSUME IInv, DraftInv', NEW h \in Handler,
           RemoveRead(h) \/ RemoveWrite(h)
    PROVE  IInv'
<1>1. PICK r : r = req[h]
  OBVIOUS
<1>2. r.at # "idle" /\ r.c \in Campaign
      /\ (r.c \notin disturbed => Calm(r))
  BY <1>1, Resumed DEF RemoveRead, RemoveWrite, At
<1>3. CASE RemoveRead(h)
  <2>1. PICK s : s = [at |-> "removeWrite", c |-> r.c, seen |-> status[r.c]]
    OBVIOUS
  <2>2. Finish(h) \/ (Await(h, s) /\ r.c \notin deleted)
    BY <1>1, <1>3, <2>1 DEF RemoveRead
  <2>3. UNCHANGED <<db, sched, revived>> /\ UNCHANGED disturbed
    BY <1>3, <2>2 DEF RemoveRead, Finish, Await
  <2>4. r.c \notin disturbed => InStep(r.c)
    BY <1>1, <1>2, <1>3 DEF RemoveRead, At, Calm, Reading
  <2>5. /\ Elsewhere(r.c)
        /\ InStep(r.c)' <=> InStep(r.c)
    BY <2>3, ReadStep
  <2>6. CASE Finish(h)
    BY <1>1, <1>2, <2>4, <2>5, <2>6, FinishStep
  <2>7. CASE Await(h, s) /\ r.c \notin deleted
    <3>1. r.c \notin disturbed => Calm(s)'
      BY <2>1, <2>3, <2>4, <2>5, <2>7 DEF Calm, Reading, db
    <3>2. Purging(s)'
      BY <2>1 DEF Purging
    <3>3. QED
      BY <1>1, <1>2, <2>1, <2>5, <2>7, <3>1, <3>2, AwaitStep
  <2>8. QED
    BY <2>2, <2>6, <2>7
<1>4. CASE RemoveWrite(h)
  <2>1. r.at = "removeWrite"
    BY <1>1, <1>4 DEF RemoveWrite, At
  <2>2. /\ deleted' = deleted \cup {r.c}
        /\ UNCHANGED <<status, interval, row, override, sched, revived>>
        /\ UNCHANGED disturbed
    BY <1>1, <1>4 DEF RemoveWrite, Finish, Await
  <2>3. Elsewhere(r.c)
    BY <2>2 DEF Elsewhere
  <2>4. r.c \notin disturbed =>
          InStep(r.c) /\ r.c \notin deleted /\ r.seen = status[r.c]
    BY <1>2, <2>1 DEF Calm, Writing
  <2>5. CASE r.seen = "ACTIVE"
    <3>1. PICK s : s = [at |-> "listSchedulers", c |-> r.c]
      OBVIOUS
    <3>2. Calm(s)'
      BY <3>1 DEF Calm, Reading, Writing
    <3>3. Purging(s)'
      BY <2>2, <3>1 DEF Purging
    <3>4. Await(h, s)
      BY <1>1, <1>4, <2>5, <3>1 DEF RemoveWrite
    <3>5. QED
      BY <1>1, <1>2, <2>3, <3>1, <3>2, <3>3, <3>4, AwaitStep
  <2>6. CASE r.seen # "ACTIVE"
    <3>1. r.c \notin disturbed => InStep(r.c)'
      BY <2>2, <2>4, <2>6
         DEF InStep, Right, Want, Plan, CanSchedule, PostsOf
    <3>2. Finish(h)
      BY <1>1, <1>4, <2>6 DEF RemoveWrite
    <3>3. QED
      BY <1>1, <1>2, <2>3, <3>1, <3>2, FinishStep
  <2>7. QED
    BY <2>5, <2>6
<1>5. QED
  BY <1>3, <1>4
-----------------------------------------------------------------------------
(* POST /campaigns/:id/posts and /campaigns/:id/posts/bulk                 *)

LEMMA ReadForPostsStep ==
    ASSUME IInv, DraftInv', NEW h \in Handler,
           AddRead(h) \/ BulkRead(h)
    PROVE  IInv'
<1>1. PICK from \in Reading, to \in {"addCommit", "bulkCommit"} :
         ReadForPosts(h, from, to)
  BY DEF AddRead, BulkRead, Reading
<1>2. PICK r : r = req[h]
  OBVIOUS
<1>3. r.at \in Reading /\ r.at # "idle"
  BY <1>1, <1>2 DEF ReadForPosts, At, Reading
<1>4. r.c \in Campaign /\ (r.c \notin disturbed => Calm(r))
  BY <1>2, <1>3, Resumed
<1>5. PICK s : s = [at |-> to, c |-> r.c, seen |-> status[r.c]]
  OBVIOUS
<1>6. Finish(h) \/ (Await(h, s) /\ r.c \notin deleted)
  BY <1>1, <1>2, <1>5 DEF ReadForPosts
<1>7. UNCHANGED <<db, sched, revived>> /\ UNCHANGED disturbed
  BY <1>1, <1>6 DEF ReadForPosts, Finish, Await
<1>8. r.c \notin disturbed => InStep(r.c)
  BY <1>3, <1>4 DEF Calm
<1>9. /\ Elsewhere(r.c)
      /\ InStep(r.c)' <=> InStep(r.c)
  BY <1>7, ReadStep
<1>10. CASE Finish(h)
  BY <1>2, <1>4, <1>8, <1>9, <1>10, FinishStep
<1>11. CASE Await(h, s) /\ r.c \notin deleted
  <2>1. r.c \notin disturbed => Calm(s)'
    BY <1>5, <1>7, <1>8, <1>9, <1>11 DEF Calm, Reading, db
  <2>2. Purging(s)'
    BY <1>5 DEF Purging
  <2>3. QED
    BY <1>2, <1>4, <1>5, <1>9, <1>11, <2>1, <2>2, AwaitStep
<1>12. QED
  BY <1>6, <1>10, <1>11

LEMMA AddStep ==
    ASSUME IInv, DraftInv', NEW h \in Handler, AddCommit(h)
    PROVE  IInv'
<1>1. PICK r : r = req[h]
  OBVIOUS
<1>2. r.at = "addCommit"
  BY <1>1 DEF AddCommit, At
<1>3. r.c \in Campaign /\ (r.c \notin disturbed => Calm(r))
  BY <1>1, <1>2, Resumed
<1>4. r.c \notin disturbed =>
        InStep(r.c) /\ r.c \notin deleted /\ r.seen = status[r.c]
  BY <1>2, <1>3 DEF Calm, Writing
<1>5. UNCHANGED <<status, deleted, interval, override, sched, revived>>
  BY DEF AddCommit
<1>6. CASE Finish(h) /\ UNCHANGED row
  <2>1. UNCHANGED <<db, sched, revived>> /\ UNCHANGED disturbed
    BY <1>5, <1>6 DEF db, Finish
  <2>2. Elsewhere(r.c) /\ (InStep(r.c)' <=> InStep(r.c))
    BY <2>1, ReadStep
  <2>3. QED
    BY <1>1, <1>3, <1>4, <1>6, <2>2, FinishStep
<1>7. ASSUME NEW p \in PostsOf(r.c), row[p] = "unborn",
             row' = [row EXCEPT ![p] = "live"],
             \/ r.seen = "ACTIVE"
                /\ Await(h, [at |-> "loadPost", c |-> r.c, post |-> p])
             \/ r.seen # "ACTIVE" /\ Finish(h)
      PROVE  IInv'
  <2>1. p \in Post /\ CampaignOf[p] = r.c
    BY DEF PostsOf
  <2>2. row'[p] = "live" /\ \A q \in Post \ {p} : row'[q] = row[q]
    BY <1>7, <2>1 DEF IInv, DraftInv, TypeOK
  <2>3. UNCHANGED disturbed
    BY <1>7 DEF Finish, Await
  <2>4. Elsewhere(r.c)
    BY <1>5, <2>1, <2>2, <2>3 DEF Elsewhere
  <2>5. ASSUME r.c \notin disturbed,
               NEW q \in PostsOf(r.c) \ {p}, NEW d \in Dimension
        PROVE  Right(q, d, sched[q][d])'
    BY <1>4, <1>5, <2>2, <2>5 DEF InStep, Right, Want, PostsOf
  <2>6. CASE r.seen = "ACTIVE"
    <3>1. PICK s : s = [at |-> "loadPost", c |-> r.c, post |-> p]
      OBVIOUS
    <3>2. r.c \notin disturbed => Calm(s)'
      BY <1>4, <1>5, <2>2, <2>5, <3>1 DEF Calm, Reading, Writing
    <3>3. Purging(s)'
      BY <3>1 DEF Purging
    <3>4. QED
      BY <1>1, <1>3, <1>7, <2>4, <2>6, <3>1, <3>2, <3>3, AwaitStep
  <2>7. CASE r.seen # "ACTIVE"
    <3>1. ASSUME r.c \notin disturbed, NEW d \in Dimension
          PROVE  Right(p, d, sched[p][d])'
      BY <1>4, <1>5, <1>7, <2>1, <2>7, <3>1
         DEF InStep, Right, Want, Plan, CanSchedule
    <3>2. r.c \notin disturbed => InStep(r.c)'
      BY <2>5, <3>1 DEF InStep
    <3>3. QED
      BY <1>1, <1>3, <1>7, <2>4, <2>7, <3>2, FinishStep
  <2>8. QED
    BY <2>6, <2>7
<1>8. QED
  BY <1>1, <1>6, <1>7 DEF AddCommit

LEMMA BulkStep ==
    ASSUME IInv, DraftInv', NEW h \in Handler, BulkCommit(h)
    PROVE  IInv'
<1>1. PICK r : r = req[h]
  OBVIOUS
<1>2. r.at = "bulkCommit"
  BY <1>1 DEF BulkCommit, At
<1>3. r.c \in Campaign /\ (r.c \notin disturbed => Calm(r))
  BY <1>1, <1>2, Resumed
<1>4. r.c \notin disturbed =>
        InStep(r.c) /\ r.c \notin deleted /\ r.seen = status[r.c]
  BY <1>2, <1>3 DEF Calm, Writing
<1>5. PICK new \in SUBSET {p \in PostsOf(r.c) : row[p] = "unborn"} :
        /\ row' = [p \in Post |-> IF p \in new THEN "live" ELSE row[p]]
        /\ \/ r.seen = "ACTIVE" /\ Await(h, [at |-> "listPosts", c |-> r.c])
           \/ (r.seen # "ACTIVE" \/ new = {}) /\ Finish(h)
  BY <1>1 DEF BulkCommit
<1>6. /\ UNCHANGED <<status, deleted, interval, override, sched, revived>>
      /\ UNCHANGED disturbed
  BY <1>5 DEF BulkCommit, Finish, Await
<1>7. \A p \in Post : row'[p] = IF p \in new THEN "live" ELSE row[p]
  BY <1>5
<1>8. Elsewhere(r.c)
  BY <1>6, <1>7 DEF Elsewhere, PostsOf
<1>9. ASSUME r.c \notin disturbed, NEW p \in PostsOf(r.c), NEW d \in Dimension,
             p \notin new \/ r.seen # "ACTIVE"
      PROVE  Right(p, d, sched[p][d])'
  <2>1. p \in Post /\ CampaignOf[p] = r.c /\ sched[p][d] = Want(p, d)
    BY <1>4, <1>9 DEF PostsOf, InStep, Right
  <2>2. CASE p \notin new
    BY <1>4, <1>6, <1>7, <1>9, <2>1, <2>2 DEF Right, Want
  <2>3. CASE r.seen # "ACTIVE"
    BY <1>4, <1>6, <1>7, <1>9, <2>1, <2>3 DEF Right, Want, Plan, CanSchedule
  <2>4. QED
    BY <1>9, <2>2, <2>3
<1>10. CASE r.seen = "ACTIVE" /\ Await(h, [at |-> "listPosts", c |-> r.c])
  <2>1. PICK s : s = [at |-> "listPosts", c |-> r.c]
    OBVIOUS
  <2>2. \A p \in PostsOf(r.c) : row'[p] # "live" => p \notin new
    BY <1>7 DEF PostsOf
  <2>3. r.c \notin disturbed => Calm(s)'
    BY <1>4, <1>6, <1>9, <2>1, <2>2 DEF Calm, Reading, Writing
  <2>4. Purging(s)'
    BY <2>1 DEF Purging
  <2>5. QED
    BY <1>1, <1>3, <1>8, <1>10, <2>1, <2>3, <2>4, AwaitStep
<1>11. CASE (r.seen # "ACTIVE" \/ new = {}) /\ Finish(h)
  <2>1. r.c \notin disturbed => InStep(r.c)'
    BY <1>9, <1>11 DEF InStep
  <2>2. QED
    BY <1>1, <1>3, <1>8, <1>11, <2>1, FinishStep
<1>12. QED
  BY <1>5, <1>10, <1>11

-----------------------------------------------------------------------------
(* PATCH /posts/:id/settings and DELETE /posts/:id                         *)

LEMMA SettingsSteps ==
    ASSUME IInv, DraftInv', NEW h \in Handler,
           SettingsRead(h) \/ SettingsWrite(h)
    PROVE  IInv'
<1>1. PICK r : r = req[h]
  OBVIOUS
<1>2. r.at \in {"settingsRead", "settingsWrite"}
  BY <1>1 DEF SettingsRead, SettingsWrite, At
<1>3. /\ r.c \in Campaign /\ (r.c \notin disturbed => Calm(r))
      /\ r.post \in Post /\ CampaignOf[r.post] = r.c
      /\ r.new \in Overrides
  BY <1>1, <1>2, Resumed, Shapes DEF Coherent, PostLabels
<1>4. r.c \notin disturbed => InStep(r.c)
  BY <1>2, <1>3 DEF Calm, Reading, Writing
<1>5. CASE SettingsRead(h)
  <2>1. PICK s : s = [at |-> "settingsWrite", c |-> r.c, post |-> r.post,
                      new |-> r.new, old |-> override[r.post]]
    OBVIOUS
  <2>2. Finish(h) \/ (Await(h, s) /\ row[r.post] = "live")
    BY <1>1, <1>5, <2>1 DEF SettingsRead
  <2>3. UNCHANGED <<db, sched, revived>> /\ UNCHANGED disturbed
    BY <1>5, <2>2 DEF SettingsRead, Finish, Await
  <2>4. /\ Elsewhere(r.c)
        /\ InStep(r.c)' <=> InStep(r.c)
    BY <2>3, ReadStep
  <2>5. CASE Finish(h)
    BY <1>1, <1>3, <1>4, <2>4, <2>5, FinishStep
  <2>6. CASE Await(h, s) /\ row[r.post] = "live"
    <3>1. r.c \notin disturbed => Calm(s)'
      BY <1>4, <2>1, <2>3, <2>4, <2>6 DEF Calm, Reading, db
    <3>2. Purging(s)'
      BY <2>1 DEF Purging
    <3>3. QED
      BY <1>1, <1>3, <2>1, <2>4, <2>6, <3>1, <3>2, AwaitStep
  <2>7. QED
    BY <2>2, <2>5, <2>6
<1>6. CASE SettingsWrite(h)
  <2> DEFINE updated == Merge(r.new, override[r.post])
  <2>1. r.at = "settingsWrite"
    BY <1>1, <1>6 DEF SettingsWrite, At
  <2>2. r.c \notin disturbed => r.old = override[r.post]
    BY <1>3, <2>1 DEF Calm
  <2>3. /\ UNCHANGED <<status, deleted, interval, row, sched>>
        /\ UNCHANGED disturbed
    BY <1>6 DEF SettingsWrite, Finish, Await
  <2> HIDE DEF updated
  <2>4. CASE row[r.post] # "live"
    <3>1. Finish(h) /\ UNCHANGED <<override, revived>>
      BY <1>1, <1>6, <2>4 DEF SettingsWrite
    <3>2. UNCHANGED <<db, sched, revived>>
      BY <2>3, <3>1 DEF db
    <3>3. Elsewhere(r.c) /\ (InStep(r.c)' <=> InStep(r.c))
      BY <2>3, <3>2, ReadStep
    <3>4. QED
      BY <1>1, <1>3, <1>4, <3>1, <3>3, FinishStep
  <2>5. CASE row[r.post] = "live"
    <3>1. /\ override' = [override EXCEPT ![r.post] = updated]
          /\ revived' = IF updated # r.old /\ r.c \in deleted
                        THEN revived \cup {r.post} ELSE revived
          /\ \/ /\ updated # r.old
                /\ Await(h, [at |-> "loadPost", c |-> r.c, post |-> r.post])
             \/ updated = r.old /\ Finish(h)
      BY <1>1, <1>6, <2>5 DEF SettingsWrite, updated
    <3>2. /\ override'[r.post] = updated
          /\ \A q \in Post \ {r.post} :
               /\ override'[q] = override[q]
               /\ q \in revived' <=> q \in revived
      BY <1>3, <3>1 DEF IInv, DraftInv, TypeOK
    <3>3. Elsewhere(r.c)
      BY <1>3, <2>3, <3>2 DEF Elsewhere
    <3>4. ASSUME r.c \notin disturbed,
                 NEW q \in PostsOf(r.c) \ {r.post}, NEW d \in Dimension
          PROVE  Right(q, d, sched[q][d])'
      <4>1. Right(q, d, sched[q][d]) /\ q \in Post
        BY <1>4, <3>4 DEF InStep, PostsOf
      <4>2. QED
        BY <2>3, <3>2, <4>1 DEF Right, Want
    <3>5. CASE updated # r.old
      <4>1. PICK s : s = [at |-> "loadPost", c |-> r.c, post |-> r.post]
        OBVIOUS
      <4>2. r.c \in deleted => r.post \in revived'
        BY <3>1, <3>5
      <4>3. r.c \notin disturbed => Calm(s)'
        BY <2>3, <2>5, <3>4, <4>1, <4>2 DEF Calm, Reading, Writing
      <4>4. Purging(s)'
        BY <4>1 DEF Purging
      <4>5. QED
        BY <1>1, <1>3, <3>1, <3>3, <3>5, <4>1, <4>3, <4>4, AwaitStep
    <3>6. CASE updated = r.old
      <4>1. ASSUME r.c \notin disturbed, NEW d \in Dimension
            PROVE  Right(r.post, d, sched[r.post][d])'
        <5>1. override'[r.post] = override[r.post] /\ revived' = revived
          BY <2>2, <3>1, <3>2, <3>6, <4>1
        <5>2. Right(r.post, d, sched[r.post][d])
          BY <1>3, <1>4, <4>1 DEF InStep, PostsOf
        <5>3. QED
          BY <2>3, <5>1, <5>2 DEF Right, Want
      <4>2. r.c \notin disturbed => InStep(r.c)'
        BY <3>4, <4>1 DEF InStep
      <4>3. QED
        BY <1>1, <1>3, <3>1, <3>3, <3>6, <4>2, FinishStep
    <3>7. QED
      BY <3>5, <3>6
  <2>6. QED
    BY <2>4, <2>5
<1>7. QED
  BY <1>5, <1>6

LEMMA DeleteSteps ==
    ASSUME IInv, DraftInv', NEW h \in Handler,
           DeleteRead(h) \/ DeleteLoad(h) \/ DeleteRow(h)
    PROVE  IInv'
<1>1. PICK r : r = req[h]
  OBVIOUS
<1>2. r.at \in {"deleteRead", "deleteLoad", "unschedule"}
  BY <1>1 DEF DeleteRead, DeleteLoad, DeleteRow, At
<1>3. /\ r.c \in Campaign /\ (r.c \notin disturbed => Calm(r))
      /\ r.post \in Post /\ CampaignOf[r.post] = r.c
  BY <1>1, <1>2, Resumed, Shapes DEF Coherent, PostLabels
<1>4. CASE DeleteRead(h)
  <2>1. PICK s : s = [at |-> "deleteLoad", c |-> r.c, post |-> r.post]
    OBVIOUS
  <2>2. Finish(h) \/ (Await(h, s) /\ row[r.post] = "live")
    BY <1>1, <1>4, <2>1 DEF DeleteRead
  <2>3. UNCHANGED <<db, sched, revived>> /\ UNCHANGED disturbed
    BY <1>4, <2>2 DEF DeleteRead, Finish, Await
  <2>4. r.c \notin disturbed => InStep(r.c)
    BY <1>1, <1>3, <1>4 DEF DeleteRead, At, Calm, Reading
  <2>5. /\ Elsewhere(r.c)
        /\ InStep(r.c)' <=> InStep(r.c)
    BY <2>3, ReadStep
  <2>6. CASE Finish(h)
    BY <1>1, <1>3, <2>4, <2>5, <2>6, FinishStep
  <2>7. CASE Await(h, s) /\ row[r.post] = "live"
    <3>1. r.c \notin disturbed => Calm(s)'
      BY <2>1, <2>3, <2>4, <2>5, <2>7 DEF Calm, Reading, Writing, db
    <3>2. Purging(s)'
      BY <2>1 DEF Purging
    <3>3. QED
      BY <1>1, <1>3, <2>1, <2>5, <2>7, <3>1, <3>2, AwaitStep
  <2>8. QED
    BY <2>2, <2>6, <2>7
<1>5. CASE DeleteLoad(h)
  <2>1. PICK s : s = [at |-> "unschedule", c |-> r.c, post |-> r.post,
                      todo |-> IF row[r.post] = "live"
                               THEN Removals({r.post} \X Dimension) ELSE {}]
    OBVIOUS
  <2>2. Await(h, s)
    BY <1>1, <1>5, <2>1 DEF DeleteLoad
  <2>3. UNCHANGED <<db, sched, revived>> /\ UNCHANGED disturbed
    BY <1>5, <2>2 DEF DeleteLoad, Await
  <2>4. r.at = "deleteLoad"
    BY <1>1, <1>5 DEF DeleteLoad, At
  <2>5. r.c \notin disturbed => InStep(r.c) /\ row[r.post] = "live"
    BY <1>3, <2>4 DEF Calm, Reading
  <2>6. /\ Elsewhere(r.c)
        /\ \A p \in Post, d \in Dimension :
             Right(p, d, sched[p][d])' <=> Right(p, d, sched[p][d])
    BY <2>3, ReadStep
  <2>7. \A j \in s.todo : j.post = r.post /\ j.set = NoSchedule
    BY <2>1 DEF Removals
  <2>8. ASSUME r.c \notin disturbed, NEW d \in Dimension
        PROVE  Pending(s.todo, r.post, d)
    <3>1. [post |-> r.post, dim |-> d, set |-> NoSchedule] \in s.todo
      <4>1. <<r.post, d>> \in {r.post} \X Dimension
        OBVIOUS
      <4>2. QED
        BY <2>1, <2>5, <2>8, <4>1 DEF Removals
    <3>2. QED
      BY <3>1 DEF Pending
  <2>9. ASSUME r.c \notin disturbed,
               NEW p \in PostsOf(r.c) \ {r.post}, NEW d \in Dimension
        PROVE  Right(p, d, sched[p][d])'
    BY <2>5, <2>6, <2>9 DEF InStep, PostsOf
  <2>10. r.c \notin disturbed => Calm(s)'
    <3>1. s.at = "unschedule" /\ s.post = r.post /\ s.c = r.c
      BY <2>1
    <3>2. QED
      BY <2>7, <2>8, <2>9, <3>1 DEF Calm, Reading, Writing, Pending
  <2>11. Purging(s)'
    BY <2>1 DEF Purging
  <2>12. QED
    BY <1>1, <1>3, <2>1, <2>2, <2>6, <2>10, <2>11, AwaitStep
<1>6. CASE DeleteRow(h)
  <2>1. r.at = "unschedule" /\ r.todo = {}
    BY <1>1, <1>6 DEF DeleteRow, At
  <2>2. /\ row' = [row EXCEPT ![r.post] = "gone"]
        /\ UNCHANGED <<status, deleted, interval, override, sched, revived>>
        /\ UNCHANGED disturbed
        /\ Finish(h)
    BY <1>1, <1>6 DEF DeleteRow, Finish
  <2>3. row'[r.post] = "gone" /\ \A q \in Post \ {r.post} : row'[q] = row[q]
    BY <1>3, <2>2 DEF IInv, DraftInv, TypeOK
  <2>4. Elsewhere(r.c)
    BY <1>3, <2>2, <2>3 DEF Elsewhere
  <2>5. ASSUME r.c \notin disturbed
        PROVE  /\ \A p \in PostsOf(r.c) \ {r.post}, d \in Dimension :
                    Right(p, d, sched[p][d])
               /\ \A d \in Dimension : sched[r.post][d] = NoSchedule
    BY <1>3, <2>1, <2>5 DEF Calm, Pending
  <2>6. r.c \notin disturbed => InStep(r.c)'
    BY <2>2, <2>3, <2>5 DEF InStep, Right, Want, PostsOf
  <2>7. QED
    BY <1>1, <1>3, <2>2, <2>4, <2>6, FinishStep
<1>7. QED
  BY <1>4, <1>5, <1>6
-----------------------------------------------------------------------------
(* PollingSchedulerService                                                 *)

\* The calls of applyPostSchedules are the ones the rows ask for.
LEMMA DecisionsRight ==
    ASSUME UNCHANGED <<db, sched, revived>>,
           NEW p \in Post, row[p] = "live",
           CampaignOf[p] \in deleted => p \in revived
    PROVE  /\ \A j \in Decisions(p) : Right(j.post, j.dim, j.set)'
           /\ \A T : Decisions(p) \subseteq T =>
                \A d \in Dimension : Pending(T, p, d)
<1>1. ASSUME NEW j \in Decisions(p)
      PROVE  Right(j.post, j.dim, j.set)'
  <2>1. j.post = p /\ j.set = Want(p, j.dim)
    BY <1>1 DEF Decisions, Want
  <2>2. Want(p, j.dim)' = Want(p, j.dim)
    BY DEF Want, db
  <2>3. QED
    BY <2>1, <2>2 DEF Right, db
<1>2. ASSUME NEW T, Decisions(p) \subseteq T, NEW d \in Dimension
      PROVE  Pending(T, p, d)
  <2>1. [post |-> p, dim |-> d,
         set |-> Plan(status[CampaignOf[p]], override[p][d],
                      interval[CampaignOf[p]][d])] \in T
    BY <1>2 DEF Decisions
  <2>2. QED
    BY <2>1 DEF Pending
<1>3. QED
  BY <1>1, <1>2

LEMMA ListSteps ==
    ASSUME IInv, DraftInv', NEW h \in Handler,
           ListPosts(h) \/ ListInherited(h)
    PROVE  IInv'
<1>1. PICK r : r = req[h]
  OBVIOUS
<1>2. r.at \in {"listPosts", "listInherited"}
  BY <1>1 DEF ListPosts, ListInherited, At
<1>3. r.c \in Campaign /\ (r.c \notin disturbed => Calm(r))
  BY <1>1, <1>2, Resumed
<1>4. PICK S \in SUBSET LivePosts(r.c) :
        /\ r.c \notin disturbed =>
             \A p \in PostsOf(r.c) \ S, d \in Dimension :
                Right(p, d, sched[p][d])
        /\ Await(h, [at |-> "apply", c |-> r.c,
                     todo |-> UNION {Decisions(p) : p \in S}])
  <2>1. CASE ListPosts(h)
    <3>1. r.at = "listPosts"
      BY <1>1, <2>1 DEF ListPosts, At
    <3>2. r.c \notin disturbed =>
            \A p \in PostsOf(r.c) \ LivePosts(r.c), d \in Dimension :
                Right(p, d, sched[p][d])
      BY <1>3, <3>1 DEF Calm, LivePosts
    <3>3. QED
      BY <1>1, <2>1, <3>2 DEF ListPosts
  <2>2. CASE ListInherited(h)
    <3> DEFINE U == {q \in LivePosts(r.c) :
                       \E d \in Dimension : override[q][d] = Unset}
    <3>1. r.at = "listInherited"
      BY <1>1, <2>2 DEF ListInherited, At
    <3>2. r.c \notin disturbed =>
            \A p \in PostsOf(r.c) \ U, d \in Dimension :
                Right(p, d, sched[p][d])
      BY <1>3, <3>1 DEF Calm, LivePosts
    <3>3. Await(h, [at |-> "apply", c |-> r.c,
                    todo |-> UNION {Decisions(p) : p \in U}])
      BY <1>1, <2>2 DEF ListInherited
    <3>4. U \in SUBSET LivePosts(r.c)
      OBVIOUS
    <3> HIDE DEF U
    <3>5. QED
      BY <3>2, <3>3, <3>4
  <2>3. QED
    BY <2>1, <2>2
<1>5. PICK s : s = [at |-> "apply", c |-> r.c,
                    todo |-> UNION {Decisions(p) : p \in S}]
  OBVIOUS
<1>6. UNCHANGED <<db, sched, revived>> /\ UNCHANGED disturbed
  BY <1>4 DEF ListPosts, ListInherited, Await
<1>7. /\ Elsewhere(r.c)
      /\ \A p \in Post, d \in Dimension :
           Right(p, d, sched[p][d])' <=> Right(p, d, sched[p][d])
  BY <1>6, ReadStep
<1>8. r.c \notin disturbed => Calm(s)'
  <2>1. SUFFICES ASSUME r.c \notin disturbed PROVE Calm(s)'
    OBVIOUS
  <2>2. r.c \notin deleted
    BY <1>2, <1>3, <2>1 DEF Calm
  <2>3. \A p \in S : p \in Post /\ CampaignOf[p] = r.c /\ row[p] = "live"
    BY DEF LivePosts, PostsOf
  <2>4. ASSUME NEW j \in s.todo
        PROVE  Right(j.post, j.dim, j.set)'
    <3>1. PICK p \in S : j \in Decisions(p)
      BY <1>5
    <3>2. QED
      BY <1>6, <2>2, <2>3, <3>1, DecisionsRight
  <2>5. ASSUME NEW p \in PostsOf(r.c), NEW d \in Dimension
        PROVE  Right(p, d, sched[p][d])' \/ Pending(s.todo, p, d)
    <3>1. CASE p \in S
      <4>1. Decisions(p) \subseteq s.todo
        BY <1>5, <3>1
      <4>2. QED
        BY <1>6, <2>2, <2>3, <3>1, <4>1, DecisionsRight
    <3>2. CASE p \notin S
      BY <1>4, <1>7, <2>1, <3>2 DEF PostsOf
    <3>3. QED
      BY <3>1, <3>2
  <2>6. s.at = "apply" /\ s.c = r.c
    BY <1>5
  <2>7. QED
    BY <2>4, <2>5, <2>6 DEF Calm, Reading, Writing, Pending
<1>9. Purging(s)'
  BY <1>5 DEF Purging
<1>10. QED
  BY <1>1, <1>3, <1>4, <1>5, <1>7, <1>8, <1>9, AwaitStep

LEMMA LoadStep ==
    ASSUME IInv, DraftInv', NEW h \in Handler, LoadPost(h)
    PROVE  IInv'
<1>1. PICK r : r = req[h]
  OBVIOUS
<1>2. r.at = "loadPost"
  BY <1>1 DEF LoadPost, At
<1>3. /\ r.c \in Campaign /\ (r.c \notin disturbed => Calm(r))
      /\ r.post \in Post /\ CampaignOf[r.post] = r.c
  BY <1>1, <1>2, Resumed, Shapes DEF Coherent, PostLabels
<1>4. PICK s : s = [at |-> "apply", c |-> r.c, todo |-> Decisions(r.post)]
  OBVIOUS
<1>5. (Await(h, s) /\ row[r.post] = "live")
      \/ (row[r.post] # "live" /\ Finish(h))
  BY <1>1, <1>4 DEF LoadPost
<1>6. UNCHANGED <<db, sched, revived>> /\ UNCHANGED disturbed
  BY <1>5 DEF LoadPost, Await, Finish
<1>7. /\ Elsewhere(r.c)
      /\ \A p \in Post, d \in Dimension :
           Right(p, d, sched[p][d])' <=> Right(p, d, sched[p][d])
  BY <1>6, ReadStep
<1>8. ASSUME r.c \notin disturbed
      PROVE  /\ row[r.post] = "live"
             /\ r.c \in deleted => r.post \in revived
             /\ \A p \in PostsOf(r.c) \ {r.post}, d \in Dimension :
                  Right(p, d, sched[p][d])
  BY <1>2, <1>3, <1>8 DEF Calm
<1>9. CASE row[r.post] # "live" /\ Finish(h)
  BY <1>1, <1>3, <1>7, <1>8, <1>9, FinishStep
<1>10. CASE Await(h, s) /\ row[r.post] = "live"
  <2>1. ASSUME r.c \notin disturbed
        PROVE  /\ \A j \in s.todo : Right(j.post, j.dim, j.set)'
               /\ \A d \in Dimension : Pending(s.todo, r.post, d)
    BY <1>3, <1>4, <1>6, <1>8, <2>1, DecisionsRight
  <2>2. ASSUME r.c \notin disturbed,
               NEW p \in PostsOf(r.c), NEW d \in Dimension
        PROVE  Right(p, d, sched[p][d])' \/ Pending(s.todo, p, d)
    BY <1>7, <1>8, <2>1, <2>2 DEF PostsOf
  <2>3. r.c \notin disturbed => Calm(s)'
    <3>1. s.at = "apply" /\ s.c = r.c
      BY <1>4
    <3>2. QED
      BY <2>1, <2>2, <3>1 DEF Calm, Reading, Writing, Pending
  <2>4. Purging(s)'
    BY <1>4 DEF Purging
  <2>5. QED
    BY <1>1, <1>3, <1>4, <1>7, <1>10, <2>3, <2>4, AwaitStep
<1>11. QED
  BY <1>5, <1>9, <1>10

LEMMA ListSchedulersStep ==
    ASSUME IInv, DraftInv', NEW h \in Handler, ListSchedulers(h)
    PROVE  IInv'
<1> DEFINE ids(c) == {i \in PostsOf(c) \X Dimension :
                        sched[i[1]][i[2]] # NoSchedule}
<1>1. PICK r : r = req[h]
  OBVIOUS
<1>2. r.at = "listSchedulers"
  BY <1>1 DEF ListSchedulers, At
<1>3. r.c \in Campaign /\ (h \notin crowded => Purging(r))
  BY <1>1, <1>2, Resumed
<1>4. PICK s : s = [at |-> "purge", c |-> r.c, todo |-> Removals(ids(r.c))]
  OBVIOUS
<1>5. Await(h, s)
  BY <1>1, <1>4 DEF ListSchedulers
<1>6. UNCHANGED <<db, sched, revived>> /\ UNCHANGED disturbed
  BY <1>5 DEF ListSchedulers, Await
<1>7. Elsewhere(r.c)
  BY <1>6, ReadStep
<1>8. \A j \in s.todo : j.set = NoSchedule
  BY <1>4 DEF Removals
<1>9. ASSUME NEW p \in PostsOf(r.c), NEW d \in Dimension,
             sched[p][d] # NoSchedule
      PROVE  Pending(s.todo, p, d)
  <2>1. <<p, d>> \in ids(r.c)
    BY <1>9
  <2>2. [post |-> p, dim |-> d, set |-> NoSchedule] \in s.todo
    BY <1>4, <2>1 DEF Removals
  <2>3. QED
    BY <2>2 DEF Pending
<1>10. s.at = "purge" /\ s.c = r.c
  BY <1>4
<1>11. Calm(s)'
  BY <1>10 DEF Calm, Reading, Writing
<1>12. h \notin crowded => Purging(s)'
  BY <1>2, <1>3, <1>6, <1>8, <1>9, <1>10 DEF Purging, Pending, db
<1>13. QED
  BY <1>1, <1>3, <1>5, <1>7, <1>10, <1>11, <1>12, AwaitStep

LEMMA ApplyStep ==
    ASSUME IInv, DraftInv', NEW h \in Handler, ApplyDimension(h)
    PROVE  IInv'
<1>1. PICK r : r = req[h]
  OBVIOUS
<1>2. r.at \in Applying /\ r.at # "idle"
  BY <1>1 DEF ApplyDimension, Applying
<1>3. /\ r \in Request /\ r.c \in Campaign /\ Coherent(r)
      /\ r.c \notin disturbed => Calm(r)
      /\ h \notin crowded => Purging(r)
  BY <1>1, <1>2, Resumed
<1>4. PICK j, s :
         /\ j \in r.todo
         /\ s = [r EXCEPT !.todo = @ \ {j}]
         /\ sched' = [sched EXCEPT ![j.post][j.dim] = j.set]
         /\ Await(h, s)
  BY <1>1 DEF ApplyDimension
<1>5. s.at = r.at /\ s.c = r.c /\ s.todo = r.todo \ {j}
      /\ (r.at = "unschedule" => s.post = r.post)
  <2>1. \/ r \in [at : {"apply", "purge"}, c : Campaign, todo : SUBSET Job]
        \/ r \in [at : {"unschedule"}, c : Campaign, post : Post,
                  todo : SUBSET Job]
    BY <1>2, <1>3 DEF Request, Applying, Idle
  <2>2. QED
    BY <1>4, <2>1
<1>j. j \in r.todo
  BY <1>4
<1>6. /\ j.post \in Post /\ j.dim \in Dimension
      /\ CampaignOf[j.post] = r.c
  BY <1>2, <1>3, <1>4, Shapes DEF Coherent, Job
<1>7. /\ \A p \in Post, d \in Dimension :
           sched'[p][d] = IF p = j.post /\ d = j.dim THEN j.set
                          ELSE sched[p][d]
      /\ \A p \in Post \ {j.post} : sched'[p] = sched[p]
  BY <1>4, <1>6 DEF IInv, DraftInv, TypeOK
<1>8. UNCHANGED <<db, revived>> /\ UNCHANGED disturbed
  BY <1>4 DEF ApplyDimension, Await
<1>9. Elsewhere(r.c)
  BY <1>6, <1>7, <1>8 DEF Elsewhere, db
<1>10. \A v : \A p \in Post, d \in Dimension :
         Right(p, d, v)' <=> Right(p, d, v)
  BY <1>8 DEF Right, Want, db
<1>11. ASSUME NEW p \in Post, NEW d \in Dimension, Pending(r.todo, p, d)
       PROVE  Pending(s.todo, p, d) \/ (p = j.post /\ d = j.dim)
  BY <1>5, <1>11 DEF Pending
<1>12. r.c \notin disturbed => Calm(s)'
  <2>1. SUFFICES ASSUME r.c \notin disturbed PROVE Calm(s)'
    OBVIOUS
  <2>2. CASE r.at = "apply"
    <3>1. /\ \A i \in r.todo : Right(i.post, i.dim, i.set)
          /\ \A p \in PostsOf(r.c), d \in Dimension :
               Right(p, d, sched[p][d]) \/ Pending(r.todo, p, d)
      BY <1>3, <2>1, <2>2 DEF Calm
    <3>2. ASSUME NEW p \in PostsOf(r.c), NEW d \in Dimension
          PROVE  Right(p, d, sched'[p][d]) \/ Pending(s.todo, p, d)
      BY <1>j, <1>7, <1>11, <3>1 DEF PostsOf
    <3>3. ASSUME NEW p \in PostsOf(r.c), NEW d \in Dimension
          PROVE  Right(p, d, sched[p][d])' \/ Pending(s.todo, p, d)
      <4>1. PICK v : v = sched'[p][d]
        OBVIOUS
      <4>2. Right(p, d, v)' \/ Pending(s.todo, p, d)
        BY <1>10, <3>2, <4>1 DEF PostsOf
      <4>3. QED
        BY <4>1, <4>2 DEF Right
    <3>4. ASSUME NEW i \in s.todo
          PROVE  Right(i.post, i.dim, i.set)'
      <4>1. i \in r.todo /\ i \in Job
        BY <1>2, <1>3, <1>5, Shapes
      <4>2. i.post \in Post /\ i.dim \in Dimension
        BY <4>1 DEF Job
      <4>3. QED
        BY <1>10, <3>1, <4>1, <4>2
    <3>5. QED
      BY <1>5, <2>2, <3>3, <3>4 DEF Calm, Reading, Writing, Pending
  <2>3. CASE r.at = "unschedule"
    <3>1. /\ \A i \in r.todo : i.post = r.post /\ i.set = NoSchedule
          /\ \A p \in PostsOf(r.c) \ {r.post}, d \in Dimension :
               Right(p, d, sched[p][d])
          /\ \A d \in Dimension :
               sched[r.post][d] = NoSchedule \/ Pending(r.todo, r.post, d)
      BY <1>3, <2>1, <2>3 DEF Calm
    <3>2. j.post = r.post /\ j.set = NoSchedule
      BY <1>j, <3>1
    <3>3. ASSUME NEW p \in PostsOf(r.c) \ {r.post}, NEW d \in Dimension
          PROVE  Right(p, d, sched[p][d])'
      <4>1. p \in Post /\ sched'[p] = sched[p]
        BY <1>7, <3>2 DEF PostsOf
      <4>2. PICK v : v = sched[p][d]
        OBVIOUS
      <4>3. Right(p, d, v)'
        BY <1>10, <3>1, <4>1, <4>2
      <4>4. QED
        BY <4>1, <4>2, <4>3 DEF Right
    <3>4. ASSUME NEW d \in Dimension
          PROVE  sched'[r.post][d] = NoSchedule \/ Pending(s.todo, r.post, d)
      BY <1>6, <1>7, <1>11, <3>1, <3>2
    <3>5. QED
      BY <1>5, <2>3, <3>1, <3>3, <3>4 DEF Calm, Reading, Writing, Pending
  <2>4. CASE r.at = "purge"
    BY <1>5, <2>4 DEF Calm, Reading, Writing
  <2>5. QED
    BY <1>2, <2>2, <2>3, <2>4 DEF Applying
<1>13. ASSUME h \notin crowded PROVE Purging(s)'
  <2>1. CASE r.at = "purge"
    <3>1. /\ status[r.c] # "ACTIVE" \/ r.c \in deleted
          /\ \A i \in r.todo : i.set = NoSchedule
          /\ \A p \in PostsOf(r.c), d \in Dimension :
               sched[p][d] = NoSchedule \/ Pending(r.todo, p, d)
      BY <1>3, <1>13, <2>1 DEF Purging
    <3>2. ASSUME NEW p \in PostsOf(r.c), NEW d \in Dimension
          PROVE  sched'[p][d] = NoSchedule \/ Pending(s.todo, p, d)
      BY <1>j, <1>7, <1>11, <3>1 DEF PostsOf
    <3>3. QED
      BY <1>5, <1>8, <2>1, <3>1, <3>2 DEF Purging, Pending, db
  <2>2. CASE r.at # "purge"
    BY <1>2, <1>5, <2>2 DEF Purging, Applying
  <2>3. QED
    BY <2>1, <2>2
<1>14. QED
  BY <1>1, <1>3, <1>4, <1>5, <1>9, <1>12, <1>13, AwaitStep

LEMMA AppliedStep ==
    ASSUME IInv, DraftInv', NEW h \in Handler, Applied(h) \/ Purged(h)
    PROVE  IInv'
<1>1. PICK r : r = req[h]
  OBVIOUS
<1>2. r.at \in {"apply", "purge"} /\ r.todo = {}
  BY <1>1 DEF Applied, Purged, At
<1>3. /\ r.c \in Campaign
      /\ r.c \notin disturbed => Calm(r) /\ h \notin crowded
      /\ h \notin crowded => Purging(r)
  BY <1>1, <1>2, Resumed
<1>4. UNCHANGED <<db, sched, revived>>
  BY DEF Applied, Purged
<1>5. InStep(r.c)' <=> InStep(r.c)
  BY <1>4, ReadStep
<1>6. CASE Applied(h)
  <2>1. r.c \notin disturbed => InStep(r.c)
    BY <1>1, <1>2, <1>3, <1>6 DEF Applied, At, Calm, InStep, Pending
  <2>2. Finish(h) /\ UNCHANGED disturbed
    BY <1>6 DEF Applied, Finish
  <2>3. Elsewhere(r.c)
    BY <1>4, <2>2, ReadStep
  <2>4. QED
    BY <1>1, <1>3, <1>5, <2>1, <2>2, <2>3, FinishStep
<1>7. CASE Purged(h)
  <2>1. h \notin crowded => InStep(r.c)
    <3>1. SUFFICES ASSUME h \notin crowded,
                          NEW p \in PostsOf(r.c), NEW d \in Dimension
                   PROVE  Right(p, d, sched[p][d])
      BY DEF InStep
    <3>2. /\ status[r.c] # "ACTIVE" \/ r.c \in deleted
          /\ sched[p][d] = NoSchedule
      BY <1>1, <1>2, <1>3, <1>7, <3>1 DEF Purged, At, Purging, Pending
    <3>3. QED
      BY <3>2 DEF Right, Want, Plan, CanSchedule, PostsOf
  <2>2. /\ req' = [req EXCEPT ![h] = Idle]
        /\ crowded' = crowded \ {h}
        /\ disturbed' = IF h \in crowded THEN disturbed
                        ELSE disturbed \ {r.c}
    BY <1>1, <1>7 DEF Purged
  <2>3. Elsewhere(r.c)
    BY <1>4, <2>2 DEF Elsewhere, db
  <2>4. r.c \notin disturbed' => h \notin crowded
    BY <1>3, <2>2
  <2>5. QED
    BY <1>1, <1>3, <1>5, <2>1, <2>2, <2>3, <2>4, OneStep
<1>8. QED
  BY <1>6, <1>7
-----------------------------------------------------------------------------
(* Requests that arrive, fail or are forgotten.                            *)

\* A request that finds its campaign free finds it in step; one that does not
\* disturbs it.
LEMMA ArrivalStep ==
    ASSUME IInv, DraftInv', NEW h \in Handler, NEW r, r.c \in Campaign,
           r.at \in Reading \ {"deleteLoad"}, Start(h, r)
    PROVE  IInv'
<1> DEFINE c == r.c
<1>t. TypeOK /\ TypeOK'
  BY DEF IInv, DraftInv
<1>1. /\ req[h] = Idle /\ req' = [req EXCEPT ![h] = r]
      /\ UNCHANGED <<db, sched, revived>>
  BY DEF Start
<1>2. req'[h] = r /\ \A g \in Handler \ {h} : req'[g] = req[g]
  BY <1>1, <1>t DEF TypeOK
<1>i. Idle.c \notin Campaign
  BY PollingAssumption DEF Idle
<1>3. h \notin crowded
  BY <1>1, <1>i, <1>t DEF IInv, Alone, TypeOK
<1>4. Purging(r)'
  BY DEF Purging, Reading
<1>5. \A k \in Campaign : InStep(k)' <=> InStep(k)
  BY <1>1, ReadStep
<1>6. ASSUME NEW s, Calm(s) PROVE Calm(s)'
  <2>1. \A d, v : \A p \in Post : Right(p, d, v)' <=> Right(p, d, v)
    BY <1>1 DEF Right, Want, db
  <2>2. InStep(s.c)' <=> InStep(s.c)
    BY <1>1, ReadStep
  <2>3. \A d : \A p \in Post :
           Right(p, d, sched[p][d])' <=> Right(p, d, sched[p][d])
    BY <1>1 DEF Right, Want, db
  <2>4. QED
    BY <1>1, <1>6 DEF Calm, Right, Want, db, InStep
<1>7. ASSUME NEW s, Purging(s) PROVE Purging(s)'
  BY <1>1, <1>7 DEF Purging, db
<1>8. CASE InFlight(c) = {}
  <2>1. crowded' = crowded /\ disturbed' = disturbed
    BY <1>8 DEF Start
  <2>2. \A g \in Handler : req[g].c # c
    BY <1>8 DEF InFlight
  <2>3. Alone'
    <3>1. ASSUME NEW f \in Handler, NEW g \in Handler,
                 req'[f].c \in Campaign, req'[f].c = req'[g].c, f \notin crowded
          PROVE  f = g
      BY <1>2, <2>2, <3>1 DEF IInv, Alone
    <3>2. ASSUME NEW g \in crowded PROVE req'[g].c \in disturbed
      BY <1>2, <1>3, <1>t, <3>2 DEF IInv, Alone, TypeOK
    <3>3. QED
      BY <2>1, <3>1, <3>2 DEF Alone
  <2>4. InStepAtRest'
    <3>1. ASSUME NEW k \in Campaign \ disturbed, \A g \in Handler : req'[g].c # k
          PROVE  InStep(k)'
      <4>1. \A g \in Handler : req[g].c # k
        BY <1>1, <1>2, <1>i, <3>1
      <4>2. QED
        BY <1>5, <3>1, <4>1 DEF IInv, InStepAtRest, InFlight
    <3>2. QED
      BY <2>1, <3>1 DEF InStepAtRest, InFlight
  <2>5. c \notin disturbed => InStep(c)
    BY <2>2 DEF IInv, InStepAtRest, InFlight
  <2>6. c \notin disturbed => Calm(r)'
    BY <1>5, <2>5 DEF Calm, Reading, Writing, Applying
  <2>7. ASSUME NEW g \in Handler, req'[g].c \in Campaign \ disturbed
        PROVE  Calm(req[g])'
    <3>1. CASE g = h
      BY <1>2, <2>6, <2>7, <3>1 DEF Calm
    <3>2. CASE g # h
      <4>1. PICK s : s = req[g]
        OBVIOUS
      <4>2. req'[g] = s /\ Calm(s)
        BY <1>2, <2>7, <3>2, <4>1 DEF IInv
      <4>3. QED
        BY <1>6, <4>2 DEF Calm
    <3>3. QED
      BY <3>1, <3>2
  <2>8. ASSUME NEW g \in Handler \ crowded
        PROVE  Purging(req[g])'
    <3>1. CASE g = h
      BY <1>2, <1>4, <3>1 DEF Purging
    <3>2. CASE g # h
      <4>1. PICK s : s = req[g]
        OBVIOUS
      <4>2. req'[g] = s /\ Purging(s)
        BY <1>2, <3>2, <4>1 DEF IInv
      <4>3. QED
        BY <1>7, <4>2 DEF Purging
    <3>3. QED
      BY <3>1, <3>2
  <2>9. QED
    BY <2>1, <2>3, <2>4, <2>7, <2>8 DEF IInv
<1>9. CASE InFlight(c) # {}
  <2>1. /\ crowded' = crowded \cup InFlight(c) \cup {h}
        /\ disturbed' = disturbed \cup {c}
    BY <1>9 DEF Start
  <2>2. Alone'
    <3>1. ASSUME NEW f \in Handler, NEW g \in Handler,
                 req'[f].c \in Campaign, req'[f].c = req'[g].c,
                 f \notin crowded'
          PROVE  f = g
      <4>1. f # h /\ f \notin crowded /\ f \notin InFlight(c)
        BY <2>1, <3>1
      <4>2. req[f].c # c /\ req'[f] = req[f]
        BY <1>2, <4>1 DEF InFlight
      <4>3. g # h
        BY <1>2, <3>1, <4>2
      <4>4. QED
        BY <1>2, <3>1, <4>1, <4>2, <4>3 DEF IInv, Alone
    <3>2. ASSUME NEW g \in crowded' PROVE req'[g].c \in disturbed'
      <4>1. CASE g = h
        BY <1>2, <2>1, <4>1
      <4>2. CASE g # h /\ g \in InFlight(c)
        BY <1>2, <2>1, <4>2 DEF InFlight
      <4>3. CASE g # h /\ g \in crowded
        BY <1>2, <1>t, <2>1, <4>3 DEF IInv, Alone, TypeOK
      <4>4. QED
        BY <2>1, <3>2, <4>1, <4>2, <4>3
    <3>3. QED
      BY <3>1, <3>2 DEF Alone
  <2>3. InStepAtRest'
    <3>1. ASSUME NEW k \in Campaign \ disturbed', \A g \in Handler : req'[g].c # k
          PROVE  InStep(k)'
      <4>1. \A g \in Handler : req[g].c # k
        BY <1>1, <1>2, <1>i, <3>1
      <4>2. QED
        BY <1>5, <2>1, <3>1, <4>1 DEF IInv, InStepAtRest, InFlight
    <3>2. QED
      BY <3>1 DEF InStepAtRest, InFlight
  <2>4. ASSUME NEW g \in Handler, req'[g].c \in Campaign \ disturbed'
        PROVE  Calm(req[g])'
    <3>1. g # h
      BY <1>2, <2>1, <2>4
    <3>2. PICK s : s = req[g]
      OBVIOUS
    <3>3. req'[g] = s /\ Calm(s)
      BY <1>2, <2>1, <2>4, <3>1, <3>2 DEF IInv
    <3>4. QED
      BY <1>6, <3>3 DEF Calm
  <2>5. ASSUME NEW g \in Handler \ crowded'
        PROVE  Purging(req[g])'
    <3>1. g # h /\ g \notin crowded
      BY <2>1, <2>5
    <3>2. PICK s : s = req[g]
      OBVIOUS
    <3>3. req'[g] = s /\ Purging(s)
      BY <1>2, <3>1, <3>2 DEF IInv
    <3>4. QED
      BY <1>7, <3>3 DEF Purging
  <2>6. QED
    BY <2>2, <2>3, <2>4, <2>5 DEF IInv
<1>10. QED
  BY <1>8, <1>9

LEMMA ArrivesStep ==
    ASSUME IInv, DraftInv', NEW h \in Handler, Arrives(h)
    PROVE  IInv'
<1>1. CASE \E c \in Campaign, to \in Status :
             Start(h, [at |-> "statusRead", c |-> c, to |-> to])
  BY <1>1, ArrivalStep DEF Reading
<1>2. CASE \E c \in Campaign, new \in Settings :
             Start(h, [at |-> "updateRead", c |-> c, new |-> new])
  BY <1>2, ArrivalStep DEF Reading
<1>3. CASE \E c \in Campaign, l \in {"removeRead", "addRead", "bulkRead"} :
             Start(h, [at |-> l, c |-> c])
  BY <1>3, ArrivalStep DEF Reading
<1>4. CASE \E p \in Post, new \in Overrides :
             Start(h, [at |-> "settingsRead", c |-> CampaignOf[p], post |-> p,
                       new |-> new])
  BY <1>4, ArrivalStep, PollingAssumption DEF Reading
<1>5. CASE \E p \in Post :
             Start(h, [at |-> "deleteRead", c |-> CampaignOf[p], post |-> p])
  BY <1>5, ArrivalStep, PollingAssumption DEF Reading
<1>6. QED
  BY <1>1, <1>2, <1>3, <1>4, <1>5
     DEF Arrives, ChangeStatus, UpdateCampaign, RemoveCampaign, AddPost,
         BulkUpload, UpdateSettings, DeletePost

\* A handler that is not halfway leaves its campaign as it found it.
LEMMA NotHalfway ==
    ASSUME IInv, NEW h \in Handler, req[h].at # "idle", ~Halfway(h),
           req[h].c \notin disturbed
    PROVE  InStep(req[h].c)
<1>1. req[h] \in Request /\ Calm(req[h])
  BY Resumed
<1>2. req[h].at \in Reading \cup Writing
  BY <1>1 DEF Request, Idle, Halfway, Applying, Reading, Writing
<1>3. QED
  BY <1>1, <1>2 DEF Calm

LEMMA FailsStep ==
    ASSUME IInv, DraftInv', NEW h \in Handler, Fails(h)
    PROVE  IInv'
<1>1. PICK r : r = req[h]
  OBVIOUS
<1>2. r.at # "idle"
  BY <1>1 DEF Fails, QueryFails, SchedulerCallFails, At, Applying
<1>3. r.c \in Campaign /\ (h \notin crowded => Purging(r))
  BY <1>1, <1>2, Resumed
<1>4. UNCHANGED <<db, sched, revived>>
  BY DEF Fails, QueryFails, SchedulerCallFails
<1>5. CASE QueryFails(h)
  <2>1. /\ req' = [req EXCEPT ![h] = Idle]
        /\ crowded' = crowded \ {h}
        /\ disturbed' = IF Halfway(h) THEN disturbed \cup {r.c} ELSE disturbed
    BY <1>1, <1>5 DEF QueryFails, Abandoned
  <2>2. Elsewhere(r.c)
    BY <1>4, <2>1 DEF Elsewhere, db
  <2>3. r.c \notin disturbed' => InStep(r.c)
    BY <1>1, <1>2, <2>1, NotHalfway
  <2>4. InStep(r.c)' <=> InStep(r.c)
    BY <1>4, ReadStep
  <2>5. QED
    BY <1>1, <1>3, <2>1, <2>2, <2>3, <2>4, OneStep
<1>6. CASE SchedulerCallFails(h)
  <2>1. PICK j, s :
           /\ j \in r.todo
           /\ s = [at |-> "apply", c |-> r.c, todo |-> r.todo \ {j}]
           /\ req' = [req EXCEPT ![h] = s]
    BY <1>1, <1>6 DEF SchedulerCallFails
  <2>2. disturbed' = disturbed \cup {r.c} /\ crowded' = crowded
    BY <1>1, <1>6 DEF SchedulerCallFails
  <2>3. Elsewhere(r.c)
    BY <1>4, <2>2 DEF Elsewhere, db
  <2>4. Purging(s)' /\ s # Idle /\ s.c = r.c
    BY <2>1 DEF Purging, Idle
  <2>5. QED
    BY <1>1, <1>3, <2>1, <2>2, <2>3, <2>4, OneStep
<1>7. QED
  BY <1>5, <1>6 DEF Fails

LEMMA RestartStep ==
    ASSUME IInv, DraftInv', ApiRestarts
    PROVE  IInv'
<1>1. /\ \A h \in Handler : req'[h] = Idle
      /\ crowded' = {}
      /\ disturbed' = disturbed \cup Abandoned(Handler)
      /\ UNCHANGED <<db, sched, revived>>
  BY DEF ApiRestarts
<1>2. Idle.c \notin Campaign
  BY PollingAssumption DEF Idle
<1>3. Alone'
  BY <1>1, <1>2 DEF Alone
<1>4. InStepAtRest'
  <2>1. ASSUME NEW c \in Campaign \ disturbed' PROVE InStep(c)'
    <3>1. c \notin disturbed /\ c \notin Abandoned(Handler)
      BY <1>1, <2>1
    <3>2. InStep(c)' <=> InStep(c)
      BY <1>1, ReadStep
    <3>3. CASE InFlight(c) = {}
      BY <2>1, <3>1, <3>2, <3>3 DEF IInv, InStepAtRest
    <3>4. ASSUME NEW h \in InFlight(c) PROVE InStep(c)
      <4>1. h \in Handler /\ req[h].c = c
        BY DEF InFlight
      <4>2. req[h].at # "idle"
        <5>1. req[h] \in Request
          BY <4>1 DEF IInv, DraftInv, TypeOK
        <5>2. QED
          BY <1>2, <4>1, <5>1, Shapes
      <4>3. ~Halfway(h)
        BY <3>1, <4>1 DEF Abandoned
      <4>4. QED
        BY <3>1, <4>1, <4>2, <4>3, NotHalfway
    <3>5. QED
      BY <3>2, <3>3, <3>4
  <2>2. QED
    BY <2>1 DEF InStepAtRest
<1>5. \A h \in Handler : Purging(req[h])'
  BY <1>1 DEF Purging, Idle
<1>6. QED
  BY <1>1, <1>2, <1>3, <1>4, <1>5 DEF IInv

-----------------------------------------------------------------------------
LEMMA InStepInit == Init => IInv
<1> SUFFICES ASSUME Init PROVE IInv
  OBVIOUS
<1>1. DraftInv
  BY DraftInit
<1>2. \A h \in Handler : req[h] = Idle
  BY DEF Init
<1>3. Idle.c \notin Campaign
  BY PollingAssumption DEF Idle
<1>4. Alone
  BY <1>2, <1>3 DEF Alone, Init
<1>5. InStepAtRest
  BY DEF Init, InStepAtRest, InStep, Right, Want, PostsOf
<1>6. \A h \in Handler : Purging(req[h])
  BY <1>2 DEF Purging, Idle
<1>7. QED
  BY <1>1, <1>2, <1>3, <1>4, <1>5, <1>6 DEF IInv

LEMMA InStepNext == IInv /\ [Next]_vars => IInv'
<1> SUFFICES ASSUME IInv, [Next]_vars PROVE IInv'
  OBVIOUS
<1>1. DraftInv'
  BY DraftNext DEF IInv
<1>2. ASSUME NEW h \in Handler, Arrives(h)
      PROVE  IInv'
  BY <1>1, <1>2, ArrivesStep
<1>3. ASSUME NEW h \in Handler, Continues(h)
      PROVE  IInv'
  BY <1>1, <1>3, StatusSteps, UpdateSteps, RemoveSteps, ReadForPostsStep,
     AddStep, BulkStep, SettingsSteps, DeleteSteps, ListSteps, LoadStep,
     ListSchedulersStep, ApplyStep, AppliedStep
     DEF Continues
<1>4. ASSUME NEW h \in Handler, Fails(h)
      PROVE  IInv'
  BY <1>1, <1>4, FailsStep
<1>5. CASE ApiRestarts
  BY <1>1, <1>5, RestartStep
<1>6. CASE UNCHANGED vars
  <2>1. UNCHANGED <<status, deleted, interval, row, override, sched, req,
                    crowded, disturbed, revived>>
    BY <1>6 DEF vars, db, history
  <2>2. \A d, v : \A p \in Post : Right(p, d, v)' <=> Right(p, d, v)
    BY <2>1 DEF Right, Want
  <2>3. Alone' /\ InStepAtRest'
    BY <2>1 DEF IInv, Alone, InStepAtRest, InFlight, InStep, Right, Want
  <2>4. \A h \in Handler : Calm(req[h]) => Calm(req[h])'
    BY <2>1 DEF Calm, InStep, Right, Want
  <2>5. \A h \in Handler : Purging(req[h]) => Purging(req[h])'
    BY <2>1 DEF Purging
  <2>6. QED
    BY <1>1, <2>1, <2>3, <2>4, <2>5 DEF IInv
<1>7. QED
  BY <1>2, <1>3, <1>4, <1>5, <1>6 DEF Next

\* Whenever no request of a campaign is in flight its schedulers are those its
\* rows call for, unless two requests overlapped or one was abandoned halfway
\* and no deactivation has followed since (every path of CampaignsService and
\* PostsService through PollingSchedulerService).
THEOREM SchedulesInStep == Spec => []InStepAtRest
<1>1. IInv => InStepAtRest
  BY DEF IInv
<1>2. QED
  BY <1>1, InStepInit, InStepNext, PTL DEF Spec

LEMMA LawfulStep ==
    ASSUME IInv, [Next]_vars, NEW c \in Campaign \ disturbed,
           status'[c] # status[c]
    PROVE  ValidTransition(status[c], status'[c])
<1>1. PICK h \in Handler : StatusWrite(h)
  <2>1. ASSUME NEW h \in Handler, Arrives(h) PROVE UNCHANGED status
    BY <2>1 DEF Arrives, ChangeStatus, UpdateCampaign, RemoveCampaign,
                AddPost, BulkUpload, UpdateSettings, DeletePost, Start, db
  <2>2. ASSUME NEW h \in Handler, Continues(h), ~StatusWrite(h)
        PROVE  UNCHANGED status
    <3>1. CASE \/ StatusRead(h) \/ UpdateRead(h) \/ RemoveRead(h)
               \/ AddRead(h) \/ BulkRead(h) \/ SettingsRead(h)
               \/ DeleteRead(h) \/ DeleteLoad(h)
      BY <3>1 DEF StatusRead, UpdateRead, RemoveRead, AddRead, BulkRead,
                  ReadForPosts, SettingsRead, DeleteRead, DeleteLoad, db
    <3>2. CASE \/ UpdateWrite(h) \/ RemoveWrite(h) \/ AddCommit(h)
               \/ BulkCommit(h) \/ SettingsWrite(h) \/ DeleteRow(h)
      BY <3>2 DEF UpdateWrite, RemoveWrite, AddCommit, BulkCommit,
                  SettingsWrite, DeleteRow
    <3>3. CASE \/ ListPosts(h) \/ ListInherited(h) \/ ListSchedulers(h)
               \/ LoadPost(h) \/ ApplyDimension(h) \/ Applied(h)
               \/ Purged(h)
      BY <3>3 DEF ListPosts, ListInherited, ListSchedulers, LoadPost,
                  ApplyDimension, Applied, Purged, db
    <3>4. QED
      BY <2>2, <3>1, <3>2, <3>3 DEF Continues
  <2>3. ASSUME NEW h \in Handler, Fails(h) PROVE UNCHANGED status
    BY <2>3 DEF Fails, QueryFails, SchedulerCallFails, db
  <2>4. ApiRestarts \/ UNCHANGED vars => UNCHANGED status
    BY DEF ApiRestarts, vars, db
  <2>5. QED
    BY <2>1, <2>2, <2>3, <2>4 DEF Next
<1>2. PICK r : r = req[h]
  OBVIOUS
<1>3. r.at = "statusWrite"
  BY <1>1, <1>2 DEF StatusWrite, At
<1>4. /\ r \in Request /\ r.c \in Campaign /\ Coherent(r)
      /\ r.c \notin disturbed => Calm(r)
  BY <1>2, <1>3, Resumed
<1>5. status' = [status EXCEPT ![r.c] = r.to]
  BY <1>1, <1>2 DEF StatusWrite
<1>6. c = r.c /\ status'[c] = r.to
  BY <1>4, <1>5 DEF IInv, DraftInv, TypeOK
<1>7. r.seen = status[c] /\ ValidTransition(r.seen, r.to)
  BY <1>3, <1>4, <1>6 DEF Calm, Coherent
<1>8. QED
  BY <1>6, <1>7

\* A status only moves along VALID_TRANSITIONS as long as requests do not
\* overlap, although changeStatus reads at one await and writes at another.
THEOREM StatusLawful == Spec => LawfulTransitions
<1>1. IInv /\ [Next]_vars =>
        [\A c \in Campaign \ disturbed :
            status'[c] # status[c] => ValidTransition(status[c], status'[c])]_vars
  BY LawfulStep
<1>2. QED
  BY <1>1, InStepInit, InStepNext, PTL DEF Spec, LawfulTransitions
=============================================================================
