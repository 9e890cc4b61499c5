-------------------------- MODULE PollingSchedule --------------------------
(***************************************************************************)
(* How the API keeps the job schedulers of BullMQ in step with the         *)
(* campaigns and posts in Postgres.  Two stores, no transaction over both: *)
(* a request handler reads rows, writes rows, reads rows again and then    *)
(* sends the scheduler calls its second read asked for.  Every await is a  *)
(* step boundary, so that any number of handlers interleave at them; a     *)
(* call may fail and the API process may restart at any of them.           *)
(*                                                                         *)
(* A handler in flight is the record of where it is (at), the campaign it  *)
(* works on (c) and what it has read so far.  The scheduler calls sent     *)
(* together by Promise.all are its todo: they land in any order.           *)
(***************************************************************************)
EXTENDS PollingDefs

CONSTANTS
    Handler,     \* slots for concurrent API requests
    MayFail      \* whether calls fail and the API process restarts

ASSUME FailureAssumption == MayFail \in BOOLEAN

VARIABLES
    status,      \* campaign.status
    deleted,     \* the campaigns with deleted_at set
    interval,    \* campaign.{metric,comments}_polling_interval
    row,         \* the row of a post: not yet created, there, hard-deleted
    override,    \* post.polling_{metric,comment}_override
    sched,       \* the job schedulers: the pattern under each scheduler id
    req,         \* the handlers in flight
    crowded,     \* history: handlers that overlapped another of their campaign
    disturbed,   \* history: campaigns whose schedulers may be out of step
    revived      \* history: posts edited after their campaign was deleted

db == <<status, deleted, interval, row, override>>
history == <<crowded, disturbed, revived>>
vars == <<db, sched, req, history>>

-----------------------------------------------------------------------------
\* The body of a settings request: a column it leaves out is kept.
Overrides == UNION {[S -> Setting] : S \in SUBSET Dimension}

Merge(new, current) ==
    [d \in Dimension |-> IF d \in DOMAIN new THEN new[d] ELSE current[d]]

Job == [post : Post, dim : Dimension, set : Pattern]

Idle == [at |-> "idle", c |-> NoCampaign]

Request ==
    {Idle}
    \cup [at : {"statusRead"}, c : Campaign, to : Status]
    \cup [at : {"statusWrite"}, c : Campaign, to : Status, seen : Status]
    \cup [at : {"updateRead"}, c : Campaign, new : Settings]
    \cup [at : {"updateWrite"}, c : Campaign, new : Settings, old : Settings]
    \cup [at : {"removeRead", "addRead", "bulkRead"}, c : Campaign]
    \cup [at : {"removeWrite", "addCommit", "bulkCommit"}, c : Campaign,
          seen : Status]
    \cup [at : {"settingsRead"}, c : Campaign, post : Post, new : Overrides]
    \cup [at : {"settingsWrite"}, c : Campaign, post : Post, new : Overrides,
          old : Settings]
    \cup [at : {"deleteRead", "deleteLoad", "loadPost"}, c : Campaign,
          post : Post]
    \cup [at : {"listPosts", "listInherited", "listSchedulers"}, c : Campaign]
    \cup [at : {"apply", "purge"}, c : Campaign, todo : SUBSET Job]
    \cup [at : {"unschedule"}, c : Campaign, post : Post, todo : SUBSET Job]

\* Every row, scheduler entry and handler has the shape its store gives it.
TypeOK ==
    /\ status \in [Campaign -> Status]
    /\ deleted \subseteq Campaign
    /\ interval \in [Campaign -> Settings]
    /\ row \in [Post -> {"unborn", "live", "gone"}]
    /\ override \in [Post -> Settings]
    /\ sched \in [Post -> [Dimension -> Pattern]]
    /\ req \in [Handler -> Request]
    /\ crowded \subseteq Handler
    /\ disturbed \subseteq Campaign
    /\ revived \subseteq Post

Init ==
    /\ status = [c \in Campaign |-> "DRAFT"]
    /\ deleted = {}
    /\ interval \in [Campaign -> Settings]
    /\ row = [p \in Post |-> "unborn"]
    /\ override = [p \in Post |-> [d \in Dimension |-> Unset]]
    /\ sched = [p \in Post |-> [d \in Dimension |-> NoSchedule]]
    /\ req = [h \in Handler |-> Idle]
    /\ crowded = {}
    /\ disturbed = {}
    /\ revived = {}

LivePosts(c) == {p \in PostsOf(c) : row[p] = "live"}

\* The calls applyPostSchedules sends for a post, from the rows as they are.
Decisions(p) ==
    { [post |-> p, dim |-> d,
       set |-> Plan(status[CampaignOf[p]], override[p][d],
                    interval[CampaignOf[p]][d])] : d \in Dimension }

Removals(ids) ==
    { [post |-> i[1], dim |-> i[2], set |-> NoSchedule] : i \in ids }

-----------------------------------------------------------------------------
(* The life of a request.                                                  *)

InFlight(c) == {h \in Handler : req[h].c = c}

\* A request arrives.  History: it and those it meets on its campaign are
\* crowded, and the campaign is disturbed.
Start(h, r) ==
    /\ req[h] = Idle
    /\ req' = [req EXCEPT ![h] = r]
    /\ crowded' = IF InFlight(r.c) = {} THEN crowded
                  ELSE crowded \cup InFlight(r.c) \cup {h}
    /\ disturbed' = IF InFlight(r.c) = {} THEN disturbed
                    ELSE disturbed \cup {r.c}
    /\ UNCHANGED <<db, sched, revived>>

Await(h, r) ==
    /\ req' = [req EXCEPT ![h] = r]
    /\ UNCHANGED <<crowded, disturbed>>

Finish(h) ==
    /\ req' = [req EXCEPT ![h] = Idle]
    /\ crowded' = crowded \ {h}
    /\ UNCHANGED disturbed

At(h, label) == req[h].at = label

-----------------------------------------------------------------------------
(* PATCH /campaigns/:id/status                                             *)

ChangeStatus(h) ==
    \E c \in Campaign, to \in Status :
        Start(h, [at |-> "statusRead", c |-> c, to |-> to])

\* Mutant: the new status is not checked against VALID_TRANSITIONS.
StatusReadUnchecked(h) ==
    LET r == req[h] IN
    /\ At(h, "statusRead")
    /\ \/ r.c \in deleted /\ Finish(h)
       \/ /\ r.c \notin deleted
          /\ Await(h, [at |-> "statusWrite", c |-> r.c, to |-> r.to,
                       seen |-> status[r.c]])
    /\ UNCHANGED <<db, sched, revived>>

StatusRead(h) ==
    LET r == req[h] IN
    /\ At(h, "statusRead")
    /\ \/ /\ r.c \in deleted \/ ~ValidTransition(status[r.c], r.to)
          /\ Finish(h)
       \/ /\ r.c \notin deleted
          /\ ValidTransition(status[r.c], r.to)
          /\ Await(h, [at |-> "statusWrite", c |-> r.c, to |-> r.to,
                       seen |-> status[r.c]])
    /\ UNCHANGED <<db, sched, revived>>

\* The write is conditional on nothing: what was read may be stale by now.
StatusWrite(h) ==
    LET r == req[h] IN
    /\ At(h, "statusWrite")
    /\ status' = [status EXCEPT ![r.c] = r.to]
    /\ \/ /\ r.to = "ACTIVE"
          /\ Await(h, [at |-> "listPosts", c |-> r.c])
       \/ /\ r.to # "ACTIVE" /\ r.seen = "ACTIVE"
          /\ Await(h, [at |-> "listSchedulers", c |-> r.c])
       \/ /\ r.to # "ACTIVE" /\ r.seen # "ACTIVE"
          /\ Finish(h)
    /\ UNCHANGED <<deleted, interval, row, override, sched, revived>>

-----------------------------------------------------------------------------
(* PUT /campaigns/:id and DELETE /campaigns/:id                            *)

UpdateCampaign(h) ==
    \E c \in Campaign, new \in Settings :
        Start(h, [at |-> "updateRead", c |-> c, new |-> new])

UpdateRead(h) ==
    LET r == req[h] IN
    /\ At(h, "updateRead")
    /\ \/ /\ r.c \in deleted \/ status[r.c] = "COMPLETED"
          /\ Finish(h)
       \/ /\ r.c \notin deleted /\ status[r.c] # "COMPLETED"
          /\ Await(h, [at |-> "updateWrite", c |-> r.c, new |-> r.new,
                       old |-> interval[r.c]])
    /\ UNCHANGED <<db, sched, revived>>

UpdateWrite(h) ==
    LET r == req[h] IN
    /\ At(h, "updateWrite")
    /\ interval' = [interval EXCEPT ![r.c] = r.new]
    /\ \/ r.new # r.old /\ Await(h, [at |-> "listInherited", c |-> r.c])
       \/ r.new = r.old /\ Finish(h)
    /\ UNCHANGED <<status, deleted, row, override, sched, revived>>

RemoveCampaign(h) ==
    \E c \in Campaign : Start(h, [at |-> "removeRead", c |-> c])

RemoveRead(h) ==
    LET r == req[h] IN
    /\ At(h, "removeRead")
    /\ \/ r.c \in deleted /\ Finish(h)
       \/ /\ r.c \notin deleted
          /\ Await(h, [at |-> "removeWrite", c |-> r.c, seen |-> status[r.c]])
    /\ UNCHANGED <<db, sched, revived>>

\* The status stays what it was: a removed campaign can still read ACTIVE.
RemoveWrite(h) ==
    LET r == req[h] IN
    /\ At(h, "removeWrite")
    /\ deleted' = deleted \cup {r.c}
    /\ \/ /\ r.seen = "ACTIVE"
          /\ Await(h, [at |-> "listSchedulers", c |-> r.c])
       \/ r.seen # "ACTIVE" /\ Finish(h)
    /\ UNCHANGED <<status, interval, row, override, sched, revived>>

-----------------------------------------------------------------------------
(* POST /campaigns/:id/posts and /campaigns/:id/posts/bulk                 *)

AddPost(h) == \E c \in Campaign : Start(h, [at |-> "addRead", c |-> c])
BulkUpload(h) == \E c \in Campaign : Start(h, [at |-> "bulkRead", c |-> c])

\* Both read the campaign first and act on that status to the end.
ReadForPosts(h, from, to) ==
    LET r == req[h] IN
    /\ At(h, from)
    /\ \/ /\ r.c \in deleted \/ status[r.c] = "COMPLETED"
          /\ Finish(h)
       \/ /\ r.c \notin deleted /\ status[r.c] # "COMPLETED"
          /\ Await(h, [at |-> to, c |-> r.c, seen |-> status[r.c]])
    /\ UNCHANGED <<db, sched, revived>>

AddRead(h) == ReadForPosts(h, "addRead", "addCommit")
BulkRead(h) == ReadForPosts(h, "bulkRead", "bulkCommit")

\* The transaction commits one post, or fails on a duplicate.
AddCommit(h) ==
    LET r == req[h] IN
    /\ At(h, "addCommit")
    /\ \/ \E p \in PostsOf(r.c) :
            /\ row[p] = "unborn"
            /\ row' = [row EXCEPT ![p] = "live"]
            /\ \/ /\ r.seen = "ACTIVE"
                  /\ Await(h, [at |-> "loadPost", c |-> r.c, post |-> p])
               \/ r.seen # "ACTIVE" /\ Finish(h)
       \/ Finish(h) /\ UNCHANGED row
    /\ UNCHANGED <<status, deleted, interval, override, sched, revived>>

\* Mutant: the upload leaves its posts to the next activation.
BulkCommitUnscheduled(h) ==
    LET r == req[h] IN
    /\ At(h, "bulkCommit")
    /\ \E new \in SUBSET {p \in PostsOf(r.c) : row[p] = "unborn"} :
        row' = [p \in Post |-> IF p \in new THEN "live" ELSE row[p]]
    /\ Finish(h)
    /\ UNCHANGED <<status, deleted, interval, override, sched, revived>>

\* createMany skips the rows another request created since they were found
\* missing, and the upload goes on as if it had created them.
BulkCommit(h) ==
    LET r == req[h] IN
    /\ At(h, "bulkCommit")
    /\ \E new \in SUBSET {p \in PostsOf(r.c) : row[p] = "unborn"} :
        /\ row' = [p \in Post |-> IF p \in new THEN "live" ELSE row[p]]
        /\ \/ /\ r.seen = "ACTIVE"
              /\ Await(h, [at |-> "listPosts", c |-> r.c])
           \/ (r.seen # "ACTIVE" \/ new = {}) /\ Finish(h)
    /\ UNCHANGED <<status, deleted, interval, override, sched, revived>>

-----------------------------------------------------------------------------
(* PATCH /posts/:id/settings and DELETE /posts/:id                         *)

Known(p) == row[p] # "unborn"

UpdateSettings(h) ==
    \E p \in Post, new \in Overrides :
        /\ Known(p)
        /\ Start(h, [at |-> "settingsRead", c |-> CampaignOf[p], post |-> p,
                     new |-> new])

\* Neither the campaign's deleted_at nor its being DRAFT or PAUSED matters.
SettingsRead(h) ==
    LET r == req[h] IN
    /\ At(h, "settingsRead")
    /\ \/ /\ row[r.post] # "live" \/ status[r.c] = "COMPLETED"
          /\ Finish(h)
       \/ /\ row[r.post] = "live" /\ status[r.c] # "COMPLETED"
          /\ Await(h, [at |-> "settingsWrite", c |-> r.c, post |-> r.post,
                       new |-> r.new, old |-> override[r.post]])
    /\ UNCHANGED <<db, sched, revived>>

SettingsWrite(h) ==
    LET r == req[h]
        updated == Merge(r.new, override[r.post]) IN
    /\ At(h, "settingsWrite")
    /\ \/ /\ row[r.post] # "live"
          /\ Finish(h)
          /\ UNCHANGED <<override, revived>>
       \/ /\ row[r.post] = "live"
          /\ override' = [override EXCEPT ![r.post] = updated]
          /\ revived' = IF updated # r.old /\ r.c \in deleted
                        THEN revived \cup {r.post} ELSE revived
          /\ \/ /\ updated # r.old
                /\ Await(h, [at |-> "loadPost", c |-> r.c, post |-> r.post])
             \/ updated = r.old /\ Finish(h)
    /\ UNCHANGED <<status, deleted, interval, row, sched>>

DeletePost(h) ==
    \E p \in Post :
        /\ Known(p)
        /\ Start(h, [at |-> "deleteRead", c |-> CampaignOf[p], post |-> p])

DeleteRead(h) ==
    LET r == req[h] IN
    /\ At(h, "deleteRead")
    /\ \/ /\ row[r.post] # "live" \/ status[r.c] = "COMPLETED"
          /\ Finish(h)
       \/ /\ row[r.post] = "live" /\ status[r.c] # "COMPLETED"
          /\ Await(h, [at |-> "deleteLoad", c |-> r.c, post |-> r.post])
    /\ UNCHANGED <<db, sched, revived>>

DeleteLoad(h) ==
    LET r == req[h] IN
    /\ At(h, "deleteLoad")
    /\ Await(h, [at |-> "unschedule", c |-> r.c, post |-> r.post,
                 todo |-> IF row[r.post] = "live"
                          THEN Removals({r.post} \X Dimension) ELSE {}])
    /\ UNCHANGED <<db, sched, revived>>

\* The row goes last, once its schedulers are gone.
DeleteRow(h) ==
    LET r == req[h] IN
    /\ At(h, "unschedule") /\ r.todo = {}
    /\ row' = [row EXCEPT ![r.post] = "gone"]
    /\ Finish(h)
    /\ UNCHANGED <<status, deleted, interval, override, sched, revived>>

-----------------------------------------------------------------------------
(* PollingSchedulerService                                                 *)

\* scheduleCampaign: one read of the live posts decides every call.
ListPosts(h) ==
    LET r == req[h] IN
    /\ At(h, "listPosts")
    /\ Await(h, [at |-> "apply", c |-> r.c,
                 todo |-> UNION {Decisions(p) : p \in LivePosts(r.c)}])
    /\ UNCHANGED <<db, sched, revived>>

\* Mutant: only the posts that inherit both intervals are rescheduled.
ListFullyInherited(h) ==
    LET r == req[h]
        Inherits(p) == \A d \in Dimension : override[p][d] = Unset IN
    /\ At(h, "listInherited")
    /\ Await(h, [at |-> "apply", c |-> r.c,
                 todo |-> UNION {Decisions(p) :
                                 p \in {q \in LivePosts(r.c) : Inherits(q)}}])
    /\ UNCHANGED <<db, sched, revived>>

\* rescheduleCampaignInheritedPosts: the posts with an override missing.
ListInherited(h) ==
    LET r == req[h]
        Inherits(p) == \E d \in Dimension : override[p][d] = Unset IN
    /\ At(h, "listInherited")
    /\ Await(h, [at |-> "apply", c |-> r.c,
                 todo |-> UNION {Decisions(p) :
                                 p \in {q \in LivePosts(r.c) : Inherits(q)}}])
    /\ UNCHANGED <<db, sched, revived>>

\* Mutant: the ids are built from the posts the campaign still has.
ListSchedulersOfLivePosts(h) ==
    LET r == req[h] IN
    /\ At(h, "listSchedulers")
    /\ Await(h, [at |-> "purge", c |-> r.c,
                 todo |-> Removals(LivePosts(r.c) \X Dimension)])
    /\ UNCHANGED <<db, sched, revived>>

\* removeCampaign: by the prefix of the id, whether the post exists or not.
ListSchedulers(h) ==
    LET r == req[h] IN
    /\ At(h, "listSchedulers")
    /\ Await(h, [at |-> "purge", c |-> r.c,
                 todo |-> Removals({i \in PostsOf(r.c) \X Dimension :
                                    sched[i[1]][i[2]] # NoSchedule})])
    /\ UNCHANGED <<db, sched, revived>>

\* schedulePost: from the rows of this moment, not those of the request.
LoadPost(h) ==
    LET r == req[h] IN
    /\ At(h, "loadPost")
    /\ \/ /\ row[r.post] = "live"
          /\ Await(h, [at |-> "apply", c |-> r.c,
                       todo |-> Decisions(r.post)])
       \/ row[r.post] # "live" /\ Finish(h)
    /\ UNCHANGED <<db, sched, revived>>

Applying == {"apply", "purge", "unschedule"}

\* One upsertJobScheduler or removeJobScheduler lands.
ApplyDimension(h) ==
    LET r == req[h] IN
    /\ r.at \in Applying
    /\ \E j \in r.todo :
        /\ sched' = [sched EXCEPT ![j.post][j.dim] = j.set]
        /\ Await(h, [r EXCEPT !.todo = @ \ {j}])
    /\ UNCHANGED <<db, revived>>

Applied(h) ==
    /\ At(h, "apply") /\ req[h].todo = {}
    /\ Finish(h)
    /\ UNCHANGED <<db, sched, revived>>

\* History: a purge nobody crowded leaves its campaign in step again.
Purged(h) ==
    LET r == req[h] IN
    /\ At(h, "purge") /\ r.todo = {}
    /\ req' = [req EXCEPT ![h] = Idle]
    /\ crowded' = crowded \ {h}
    /\ disturbed' = IF h \in crowded THEN disturbed ELSE disturbed \ {r.c}
    /\ UNCHANGED <<db, sched, revived>>

-----------------------------------------------------------------------------
(* Failures.  Rows written stay written and no scheduler call is retried.  *)

\* Where a handler has changed one store and not yet the other.
Halfway(h) ==
    req[h].at \in {"listPosts", "listInherited", "listSchedulers", "loadPost"}
                  \cup Applying

Abandoned(H) == {req[h].c : h \in {g \in H : Halfway(g)}}

\* A query fails, and with it the request.
QueryFails(h) ==
    /\ MayFail
    /\ \/ req[h].at \notin Applying \cup {"idle"}
       \/ At(h, "unschedule") /\ req[h].todo = {}
    /\ req' = [req EXCEPT ![h] = Idle]
    /\ crowded' = crowded \ {h}
    /\ disturbed' = disturbed \cup Abandoned({h})
    /\ UNCHANGED <<db, sched, revived>>

\* One of the calls sent together fails: the request answers with an error,
\* the other calls are already on their way.
SchedulerCallFails(h) ==
    LET r == req[h] IN
    /\ MayFail
    /\ r.at \in Applying
    /\ \E j \in r.todo :
        req' = [req EXCEPT ![h] = [at |-> "apply", c |-> r.c,
                                   todo |-> r.todo \ {j}]]
    /\ disturbed' = disturbed \cup {r.c}
    /\ UNCHANGED <<db, sched, crowded, revived>>

ApiRestarts ==
    /\ MayFail
    /\ \E h \in Handler : req[h] # Idle
    /\ req' = [h \in Handler |-> Idle]
    /\ crowded' = {}
    /\ disturbed' = disturbed \cup Abandoned(Handler)
    /\ UNCHANGED <<db, sched, revived>>

-----------------------------------------------------------------------------
Arrives(h) ==
    \/ ChangeStatus(h) \/ UpdateCampaign(h) \/ RemoveCampaign(h)
    \/ AddPost(h) \/ BulkUpload(h) \/ UpdateSettings(h) \/ DeletePost(h)

Continues(h) ==
    \/ StatusRead(h) \/ StatusWrite(h)
    \/ UpdateRead(h) \/ UpdateWrite(h)
    \/ RemoveRead(h) \/ RemoveWrite(h)
    \/ AddRead(h) \/ AddCommit(h)
    \/ BulkRead(h) \/ BulkCommit(h)
    \/ SettingsRead(h) \/ SettingsWrite(h)
    \/ DeleteRead(h) \/ DeleteLoad(h) \/ DeleteRow(h)
    \/ ListPosts(h) \/ ListInherited(h) \/ ListSchedulers(h) \/ LoadPost(h)
    \/ ApplyDimension(h) \/ Applied(h) \/ Purged(h)

Fails(h) == QueryFails(h) \/ SchedulerCallFails(h)

Next ==
    \/ \E h \in Handler : Arrives(h) \/ Continues(h) \/ Fails(h)
    \/ ApiRestarts

Spec == Init /\ [][Next]_vars

\* A promise whose call returned is resumed by the event loop.
FairSpec == Spec /\ \A h \in Handler : WF_vars(Continues(h))
-----------------------------------------------------------------------------
(* Properties.                                                             *)

\* The pattern the rows of this moment call for under a scheduler id.
Want(p, d) ==
    IF row[p] = "live"
    THEN Plan(status[CampaignOf[p]], override[p][d],
              interval[CampaignOf[p]][d])
    ELSE NoSchedule

\* A scheduler is right when it is the one wanted; under a deleted campaign,
\* when there is none, unless the post's settings were edited since.
Right(p, d, v) ==
    IF CampaignOf[p] \in deleted
    THEN v = NoSchedule \/ (p \in revived /\ v = Want(p, d))
    ELSE v = Want(p, d)

InStep(c) ==
    \A p \in PostsOf(c), d \in Dimension : Right(p, d, sched[p][d])

\* Whenever no request of a campaign is in flight, its schedulers are exactly
\* those its rows call for, and none once it is deleted and its posts are left
\* alone; unless two of its requests overlapped or one was abandoned between its
\* write and its last scheduler call; and a deactivation that nothing
\* overlapped repairs even that (scheduleCampaign, schedulePost, removePost,
\* removeCampaign and rescheduleCampaignInheritedPosts taken together).
InStepAtRest ==
    \A c \in Campaign \ disturbed : InFlight(c) = {} => InStep(c)

\* However requests overlap, calls fail and the process restarts, a campaign
\* that was never activated has no scheduler: the posts added to it and the
\* settings changed on it do not start polling (canSchedule).
DraftNeverScheduled ==
    \A p \in Post, d \in Dimension :
        status[CampaignOf[p]] = "DRAFT" => sched[p][d] = NoSchedule

\* Without overlap a status only moves along VALID_TRANSITIONS, although
\* changeStatus checks one read and writes later.
LawfulTransitions ==
    [][\A c \in Campaign \ disturbed :
          status'[c] # status[c] => ValidTransition(status[c], status'[c])]_vars

\* Once the rows call for one pattern for good, and nothing disturbs their
\* campaign any more, that pattern ends up in the scheduler store and stays.
EventuallyInStep ==
    \A p \in Post, d \in Dimension, v \in Pattern :
        <>[](/\ Want(p, d) = v
             /\ CampaignOf[p] \notin deleted \cup disturbed)
            => <>[](sched[p][d] = v)
=============================================================================
