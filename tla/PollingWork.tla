---------------------------- MODULE PollingWork ----------------------------
(***************************************************************************)
(* From a tick of a job scheduler, or a click on "sync now", to a scrape:  *)
(* the dispatcher and the API ask for a work job, BullMQ keeps at most one *)
(* under each id, the scraper workers run it, and a failed attempt comes   *)
(* back later.                                                             *)
(*                                                                         *)
(* An ask is a promise suspended at an await.  Its campaign may be paused, *)
(* its post deleted and its job taken, finished or replaced by another     *)
(* process meanwhile.  A worker may crash, or lose the lock of a job it    *)
(* still works on; BullMQ then hands the job to another.                   *)
(***************************************************************************)
EXTENDS Naturals

CONSTANTS
    Post,        \* post ids
    Dimension,   \* "metrics", "comments"
    Asker,       \* slots for dispatch jobs and sync requests at work
    Worker,      \* slots of the scraper processor, over all its processes
    Attempts,    \* POLLING_JOB_ATTEMPTS
    StallLimit,  \* BullMQ's maxStalledCount
    MayFail      \* whether queries fail, processes die and locks expire

ASSUME WorkAssumption ==
    /\ Attempts \in Nat \ {0}
    /\ StallLimit \in Nat
    /\ MayFail \in BOOLEAN

VARIABLES
    live,        \* the posts with a row (and a URL: addPost asks for one)
    active,      \* the posts whose campaign reads ACTIVE
    ask,         \* the asks in flight
    job,         \* the work jobs BullMQ holds, by id
    run,         \* what each worker is doing
    begun,       \* history: the polls begun while an ask for them was in flight
    owed         \* history: polls "sync now" accepted and nobody began since

rows == <<live, active>>
history == <<begun, owed>>
vars == <<live, active, ask, job, run, begun, owed>>

Id == Post \X Dimension

Held == {"waiting", "active", "delayed"}

Job == [state : Held, manual : BOOLEAN,
        made : 0 .. Attempts - 1, stalls : 0 .. StallLimit]
NoJob == [state |-> "none"]

\* The next call for one dimension of an ask: getJob, a probe of isJobPending
\* for a state the job may be in, add.
Call == {"get", "add", "settled"} \cup Held

Idle == [at |-> "idle"]

Ask ==
    {Idle}
    \cup [at : {"load"}, manual : BOOLEAN, post : Post, dims : SUBSET Dimension]
    \cup [at : {"ask"}, manual : BOOLEAN, post : Post,
          next : [Dimension -> Call]]

Run ==
    {Idle}
    \cup [at : {"load", "fetch", "store", "returned", "thrown"}, id : Id,
          manual : BOOLEAN, holds : BOOLEAN]

\* Rows, jobs, asks and runs keep their shape; a job has tries left, and has
\* stalled no more often than BullMQ lets it.
TypeOK ==
    /\ live \subseteq Post
    /\ active \subseteq Post
    /\ ask \in [Asker -> Ask]
    /\ job \in [Id -> Job \cup {NoJob}]
    /\ run \in [Worker -> Run]
    /\ begun \subseteq Asker \X Dimension
    /\ owed \subseteq Id

Init ==
    /\ live = Post
    /\ active \in SUBSET Post
    /\ ask = [a \in Asker |-> Idle]
    /\ job = [id \in Id |-> NoJob]
    /\ run = [w \in Worker |-> Idle]
    /\ begun = {}
    /\ owed = {}

-----------------------------------------------------------------------------
(* Rows other requests change: see PollingSchedule.                        *)

DeletePost(p) ==
    /\ live' = live \ {p}
    /\ owed' = owed \ ({p} \X Dimension)
    /\ UNCHANGED <<active, ask, job, run, begun>>

ChangeStatus(p) ==
    /\ active' = IF p \in active THEN active \ {p} ELSE active \cup {p}
    /\ UNCHANGED <<live, ask, job, run, history>>

-----------------------------------------------------------------------------
(* Asking for a poll.                                                      *)

\* A scheduler's tick reaches the dispatcher, for one dimension; an old tick
\* may come after its scheduler is gone.
Tick(a) ==
    /\ ask[a] = Idle
    /\ \E p \in Post, d \in Dimension :
        ask' = [ask EXCEPT ![a] = [at |-> "load", manual |-> FALSE,
                                   post |-> p, dims |-> {d}]]
    /\ UNCHANGED <<rows, job, run, history>>

SyncNow(a) ==
    /\ ask[a] = Idle
    /\ \E p \in Post, dims \in SUBSET Dimension \ {{}} :
        ask' = [ask EXCEPT ![a] = [at |-> "load", manual |-> TRUE,
                                   post |-> p, dims |-> dims]]
    /\ UNCHANGED <<rows, job, run, history>>

\* The dispatcher's dimension, or those of the sync side by side.
Asking(r) ==
    [at |-> "ask", manual |-> r.manual, post |-> r.post,
     next |-> [d \in Dimension |->
                 IF d \in r.dims THEN "get" ELSE "settled"]]

Close(a) ==
    /\ ask' = [ask EXCEPT ![a] = Idle]
    /\ begun' = begun \ ({a} \X Dimension)

LoadAndAsk(a, wanted) ==
    /\ ask[a].at = "load"
    /\ \/ /\ wanted
          /\ ask' = [ask EXCEPT ![a] = Asking(ask[a])]
          /\ UNCHANGED begun
       \/ ~wanted /\ Close(a)
    /\ UNCHANGED <<rows, job, run, owed>>

\* Mutant: the dispatcher forwards whatever the campaign's status.
LoadAnyStatus(a) ==
    LoadAndAsk(a, ask[a].post \in live)

\* Mutant: the dispatcher looks at the campaign of a post it does not find.
LoadGonePost(a) ==
    LoadAndAsk(a, ask[a].post \in IF ask[a].manual THEN live ELSE active)

\* The guard of the dispatcher, or of the sync request.
Load(a) ==
    LoadAndAsk(a, /\ ask[a].post \in live
                  /\ ask[a].manual \/ ask[a].post \in active)

Proceed(a, d, call) == ask' = [ask EXCEPT ![a].next[d] = call]

Reaches(a, d, call) ==
    /\ ask[a].at = "ask"
    /\ ask[a].next[d] = call

GetJob(a, d) ==
    /\ Reaches(a, d, "get")
    /\ Proceed(a, d, IF job[<<ask[a].post, d>>] = NoJob THEN "add"
                     ELSE "active")
    /\ UNCHANGED <<rows, job, run, history>>

\* isActive, isWaiting and isDelayed leave together, in this order, and are
\* three calls at three moments: a job that moves between them can answer no
\* to each.
After == [active |-> "waiting", waiting |-> "delayed", delayed |-> "add"]

IsJobPending(a, d) ==
    \E probe \in Held :
        /\ Reaches(a, d, probe)
        /\ Proceed(a, d, IF job[<<ask[a].post, d>>].state = probe
                         THEN "settled" ELSE After[probe])
        /\ UNCHANGED <<rows, job, run, history>>

NewJob(manual) ==
    [state |-> "waiting", manual |-> manual, made |-> 0, stalls |-> 0]

\* Mutant: workJobOptions without a jobId, so that nothing is deduplicated.
AddAnew(a, d) ==
    LET id == <<ask[a].post, d>> IN
    /\ Reaches(a, d, "add")
    /\ job' = [job EXCEPT ![id] = NewJob(ask[a].manual)]
    /\ Proceed(a, d, "settled")
    /\ UNCHANGED owed
    /\ UNCHANGED <<rows, run, begun>>

\* An add under an id BullMQ still holds is a silent no-op: the caller takes
\* the poll for queued all the same.
Add(a, d) ==
    LET id == <<ask[a].post, d>> IN
    /\ Reaches(a, d, "add")
    /\ job' = IF job[id] = NoJob
              THEN [job EXCEPT ![id] = NewJob(ask[a].manual)] ELSE job
    /\ Proceed(a, d, "settled")
    /\ owed' = IF /\ ask[a].manual /\ ask[a].post \in live
                  /\ <<a, d>> \notin begun
               THEN owed \cup {id} ELSE owed
    /\ UNCHANGED <<rows, run, begun>>

Answer(a) ==
    /\ ask[a].at = "ask"
    /\ \A d \in Dimension : ask[a].next[d] = "settled"
    /\ Close(a)
    /\ UNCHANGED <<rows, job, run, owed>>

\* One call fails; the other dimension's calls are already on their way.
AskFails(a) ==
    /\ MayFail
    /\ \/ ask[a].at = "load" /\ Close(a)
       \/ \E d \in Dimension :
            /\ ask[a].at = "ask"
            /\ ask[a].next[d] # "settled"
            /\ Proceed(a, d, "settled")
            /\ UNCHANGED begun
    /\ UNCHANGED <<rows, job, run, owed>>

AskerRestarts(a) ==
    /\ MayFail
    /\ ask[a] # Idle
    /\ Close(a)
    /\ UNCHANGED <<rows, job, run, owed>>

-----------------------------------------------------------------------------
(* Running a work job.                                                     *)

\* BullMQ hands a waiting job, and its lock, to a free worker.
Take(w, id) ==
    /\ run[w] = Idle
    /\ job[id].state = "waiting"
    /\ job' = [job EXCEPT ![id].state = "active"]
    /\ run' = [run EXCEPT ![w] = [at |-> "load", id |-> id, holds |-> TRUE,
                                  manual |-> job[id].manual]]
    /\ UNCHANGED <<rows, ask, history>>

MoveOn(w, label) == run' = [run EXCEPT ![w].at = label]

\* PollingRunner.process loads the post again: it may be gone by now, or its
\* campaign paused, which only stops a scheduled job.
LoadPost(w) ==
    LET p == run[w].id[1] IN
    /\ run[w].at = "load"
    /\ \/ /\ p \in live /\ (run[w].manual \/ p \in active)
          /\ MoveOn(w, "fetch")
          /\ owed' = owed \ {run[w].id}
          /\ begun' = begun \cup
               { <<a, run[w].id[2]>> :
                 a \in {b \in Asker : ask[b] # Idle /\ ask[b].post = p
                                                  /\ ask[b].manual} }
       \/ /\ p \notin live \/ (~run[w].manual /\ p \notin active)
          /\ MoveOn(w, "returned")
          /\ UNCHANGED history
       \/ /\ MayFail
          /\ MoveOn(w, "thrown")
          /\ UNCHANGED history
    /\ UNCHANGED <<rows, ask, job>>

\* The adapter answers or gives up.
Fetch(w) ==
    /\ run[w].at = "fetch"
    /\ \E label \in {"store", "thrown"} : MoveOn(w, label)
    /\ UNCHANGED <<rows, ask, job, history>>

\* Updating the row of a deleted post throws, and so does marking it failed.
Store(w) ==
    /\ run[w].at = "store"
    /\ \/ run[w].id[1] \in live /\ MoveOn(w, "returned")
       \/ (run[w].id[1] \notin live \/ MayFail) /\ MoveOn(w, "thrown")
    /\ UNCHANGED <<rows, ask, job, history>>

\* A worker that lost the lock reports to nobody.
Report(w, outcome) ==
    /\ run' = [run EXCEPT ![w] = Idle]
    /\ job' = IF run[w].holds THEN [job EXCEPT ![run[w].id] = outcome] ELSE job
    /\ UNCHANGED <<rows, ask, history>>

\* Mutant: a completed job is kept, under its id.
CompleteKept(w) ==
    /\ run[w].at = "returned"
    /\ Report(w, [job[run[w].id] EXCEPT !.state = "completed"])

\* removeOnComplete frees the id.
Complete(w) ==
    /\ run[w].at = "returned"
    /\ Report(w, NoJob)

Retry(j) == [state |-> "delayed", manual |-> j.manual,
             made |-> j.made + 1, stalls |-> j.stalls]

\* Mutant: one attempt too many.
FailOnceMore(w) ==
    LET j == job[run[w].id] IN
    /\ run[w].at = "thrown"
    /\ Report(w, IF j.made + 1 > Attempts THEN NoJob ELSE Retry(j))

\* Mutant: a failed job is kept, under its id.
FailKept(w) ==
    LET j == job[run[w].id] IN
    /\ run[w].at = "thrown"
    /\ Report(w, IF j.made + 1 = Attempts THEN [j EXCEPT !.state = "failed"]
                 ELSE Retry(j))

\* Another attempt after the backoff, or the last one: removeOnFail frees the
\* id.
Fail(w) ==
    LET j == job[run[w].id] IN
    /\ run[w].at = "thrown"
    /\ Report(w, IF j.made + 1 < Attempts THEN Retry(j) ELSE NoJob)

\* platformBackoffStrategy: ten minutes, or what a rate limit asks for.
BackoffOver(id) ==
    /\ job[id].state = "delayed"
    /\ job' = [job EXCEPT ![id].state = "waiting"]
    /\ UNCHANGED <<rows, ask, run, history>>

WorkerCrashes(w) ==
    /\ MayFail
    /\ run[w] # Idle
    /\ run' = [run EXCEPT ![w] = Idle]
    /\ UNCHANGED <<rows, ask, job, history>>

\* A stretch of work too long for the lock to be renewed.
LockExpires(w) ==
    /\ MayFail
    /\ run[w] # Idle /\ run[w].holds
    /\ run' = [run EXCEPT ![w].holds = FALSE]
    /\ UNCHANGED <<rows, ask, job, history>>

Holder(w, id) == run[w] # Idle /\ run[w].id = id /\ run[w].holds

Requeue(j) == [state |-> "waiting", manual |-> j.manual,
               made |-> j.made, stalls |-> j.stalls + 1]

\* BullMQ finds an active job nobody holds: it goes back to the queue, or for
\* good when that has happened often enough.
Stalled(id) ==
    /\ job[id].state = "active"
    /\ \A w \in Worker : ~Holder(w, id)
    /\ job' = [job EXCEPT ![id] =
                 IF job[id].stalls = StallLimit THEN NoJob
                 ELSE Requeue(job[id])]
    /\ UNCHANGED <<rows, ask, run, history>>

-----------------------------------------------------------------------------
Asks(a) ==
    \/ Load(a) \/ Answer(a)
    \/ \E d \in Dimension : GetJob(a, d) \/ IsJobPending(a, d) \/ Add(a, d)

Runs(w) == LoadPost(w) \/ Fetch(w) \/ Store(w) \/ Complete(w) \/ Fail(w)

Next ==
    \/ \E p \in Post : DeletePost(p) \/ ChangeStatus(p)
    \/ \E a \in Asker :
        Tick(a) \/ SyncNow(a) \/ Asks(a) \/ AskFails(a) \/ AskerRestarts(a)
    \/ \E w \in Worker :
        \/ Runs(w) \/ WorkerCrashes(w) \/ LockExpires(w)
        \/ \E id \in Id : Take(w, id)
    \/ \E id \in Id : BackoffOver(id) \/ Stalled(id)

Spec == Init /\ [][Next]_vars

\* Calls return, timers fire, and BullMQ takes jobs in order of arrival, so
\* that none is passed over for ever by the workers that become free.
FairSpec ==
    /\ Spec
    /\ \A a \in Asker : WF_vars(Asks(a))
    /\ \A w \in Worker : WF_vars(Runs(w))
    /\ \A id \in Id :
        /\ SF_vars(\E w \in Worker : Take(w, id))
        /\ WF_vars(BackoffOver(id))
        /\ WF_vars(Stalled(id))
-----------------------------------------------------------------------------
(* Properties.                                                             *)

\* However ticks, syncs, crashes and lost locks interleave, two workers run
\* the same poll only after one of them lost its lock.  saveComment, which
\* looks for a comment and then creates it, has no other protection against
\* storing it twice.
OneRunPerId ==
    \A v, w \in Worker, id \in Id : Holder(v, id) /\ Holder(w, id) => v = w

\* Whatever fails, crashes or stalls, and however often, an id becomes free
\* again, so that a post is never shut out from polling (the comment of
\* workJobOptions).
IdFreesUp == \A id \in Id : []<>(job[id] = NoJob)

Quiet(p) ==
    /\ \A d \in Dimension : job[<<p, d>>] = NoJob
    /\ \A w \in Worker : run[w] = Idle \/ run[w].id[1] # p

\* The retries of a deleted post run out: in the end there is no job and no
\* run for it any more, although ticks may still arrive.
DeletedPostDrains == \A p \in Post : <>[](p \notin live) => <>[]Quiet(p)

\* Nor is there any for a post whose campaign stays paused and that nobody
\* syncs by hand, whoever asked for a poll before.
PausedFallsSilent ==
    \A p \in Post :
        <>[](/\ p \notin active
             /\ \A a \in Asker : ask[a] = Idle \/ ask[a].post # p
                                               \/ ~ask[a].manual)
            => <>[]Quiet(p)

\* A sync that was accepted leads to a scrape begun after it was asked for, as
\* long as the campaign is never paused and no call fails: neither an id that
\* is taken nor a job that moves between the probes swallows it.
AcceptedSyncPolls ==
    \A id \in Id :
        [](id[1] \in active) => (id \in owed ~> id \notin owed)

\* Asks, probes, attempts, backoffs, stalls, crashes and lost locks add up to the
\* abstract queue: one start at a time, and of one ask no more starts than attempts
\* and stalls together, each failed attempt and each stall being charged once.
StartsLeft(j) ==
    IF j = NoJob THEN Attempts + StallLimit
    ELSE (Attempts - j.made) + (StallLimit - j.stalls)
           - (IF j.state = "active" THEN 1 ELSE 0)

Phase(j) ==
    IF j = NoJob THEN "free" ELSE IF j.state = "active" THEN "running" ELSE "waiting"

Queue == INSTANCE PollQueue WITH
           Starts <- Attempts + StallLimit,
           phase <- [id \in Id |-> Phase(job[id])],
           left <- [id \in Id |-> StartsLeft(job[id])],
           held <- [id \in Id |-> {w \in Worker : Holder(w, id)}]

KeepsQueue == Queue!Safety
=============================================================================
