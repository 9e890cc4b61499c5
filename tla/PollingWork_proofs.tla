------------------------- MODULE PollingWork_proofs -------------------------
(***************************************************************************)
(* Two workers never run the same poll while both hold its lock, for any   *)
(* posts, dimensions, asks in flight and workers, and for any bounds on    *)
(* attempts and stalls; and PollingWork implements PollQueue.              *)
(***************************************************************************)
EXTENDS PollingWork, TLAPS

\* The job of a run that holds its lock is an active one.
HoldersActive ==
    \A w \in Worker, id \in Id : Holder(w, id) => job[id].state = "active"

IInv == TypeOK /\ HoldersActive /\ OneRunPerId

\* What the stores and the labels let a proof assume of a record.
LEMMA Shapes ==
    /\ \A r \in Ask : r.at \in {"idle", "load", "ask"}
    /\ \A r \in Ask : r.at = "load" =>
         /\ r = [at |-> "load", manual |-> r.manual, post |-> r.post,
                 dims |-> r.dims]
         /\ r.manual \in BOOLEAN /\ r.post \in Post /\ r.dims \subseteq Dimension
    /\ \A r \in Ask : r.at = "ask" =>
         /\ r = [at |-> "ask", manual |-> r.manual, post |-> r.post,
                 next |-> r.next]
         /\ r.manual \in BOOLEAN /\ r.post \in Post
         /\ r.next \in [Dimension -> Call]
    /\ \A r \in Run : r # Idle =>
         /\ r \in [at : {"load", "fetch", "store", "returned", "thrown"},
                   id : Id, manual : BOOLEAN, holds : BOOLEAN]
    /\ \A j \in Job \cup {NoJob} : j.state \in Held => j \in Job
    /\ \A j \in Job : j # NoJob
<1>1. \A r \in Ask : r.at \in {"idle", "load", "ask"}
  BY DEF Ask, Idle
<1>2. \A r \in Ask : r.at = "load" =>
         /\ r = [at |-> "load", manual |-> r.manual, post |-> r.post,
                 dims |-> r.dims]
         /\ r.manual \in BOOLEAN /\ r.post \in Post /\ r.dims \subseteq Dimension
  BY DEF Ask, Idle
<1>3. \A r \in Ask : r.at = "ask" =>
         /\ r = [at |-> "ask", manual |-> r.manual, post |-> r.post,
                 next |-> r.next]
         /\ r.manual \in BOOLEAN /\ r.post \in Post
         /\ r.next \in [Dimension -> Call]
  BY DEF Ask, Idle
<1>4. \A r \in Run : r # Idle =>
         /\ r \in [at : {"load", "fetch", "store", "returned", "thrown"},
                   id : Id, manual : BOOLEAN, holds : BOOLEAN]
  BY DEF Run
<1>5. /\ \A j \in Job \cup {NoJob} : j.state \in Held => j \in Job
      /\ \A j \in Job : j # NoJob
  BY DEF Job, NoJob, Held
<1>6. QED
  BY <1>1, <1>2, <1>3, <1>4, <1>5

\* Each family of steps keeps the types.
LEMMA AskType ==
    ASSUME TypeOK, NEW a \in Asker,
           Tick(a) \/ SyncNow(a) \/ Asks(a) \/ AskFails(a) \/ AskerRestarts(a)
    PROVE  TypeOK'
<1> USE DEF TypeOK
<1>2. Idle \in Ask
  BY DEF Ask
<1>3. CASE Tick(a)
  <2>1. PICK p \in Post, d \in Dimension :
          ask' = [ask EXCEPT ![a] = [at |-> "load", manual |-> FALSE,
                                     post |-> p, dims |-> {d}]]
    BY <1>3 DEF Tick
  <2>2. [at |-> "load", manual |-> FALSE, post |-> p, dims |-> {d}] \in Ask
    BY DEF Ask
  <2>3. QED
    BY <1>3, <2>1, <2>2 DEF Tick, rows, history
<1>4. CASE SyncNow(a)
  <2>1. PICK p \in Post, dims \in SUBSET Dimension :
          ask' = [ask EXCEPT ![a] = [at |-> "load", manual |-> TRUE,
                                     post |-> p, dims |-> dims]]
    BY <1>4 DEF SyncNow
  <2>2. [at |-> "load", manual |-> TRUE, post |-> p, dims |-> dims] \in Ask
    BY DEF Ask
  <2>3. QED
    BY <1>4, <2>1, <2>2 DEF SyncNow, rows, history
<1>5. Close(a) => /\ ask' \in [Asker -> Ask]
                  /\ begun' \subseteq Asker \X Dimension
  BY <1>2 DEF Close
<1>6. CASE Load(a)
  <2>1. ask[a].at = "load" => Asking(ask[a]) \in Ask
    BY Shapes DEF Asking, Ask, Call
  <2>2. QED
    BY <1>5, <1>6, <2>1 DEF Load, LoadAndAsk, rows
<1>7. CASE Answer(a) \/ AskerRestarts(a)
  BY <1>5, <1>7 DEF Answer, AskerRestarts, rows
<1>8. ASSUME NEW d \in Dimension, NEW c \in Call, ask[a].at = "ask",
             Proceed(a, d, c)
      PROVE  ask' \in [Asker -> Ask]
  <2>1. ask[a] \in Ask
    OBVIOUS
  <2>2. PICK r : r = ask[a]
    OBVIOUS
  <2>3. /\ r = [at |-> "ask", manual |-> r.manual, post |-> r.post,
                next |-> r.next]
        /\ r.manual \in BOOLEAN /\ r.post \in Post
        /\ r.next \in [Dimension -> Call]
    BY <1>8, <2>1, <2>2, Shapes
  <2>4. [r EXCEPT !.next = [r.next EXCEPT ![d] = c]]
          = [at |-> "ask", manual |-> r.manual, post |-> r.post,
             next |-> [r.next EXCEPT ![d] = c]]
    BY <2>3
  <2>5. [r EXCEPT !.next = [r.next EXCEPT ![d] = c]] \in Ask
    BY <2>3, <2>4 DEF Ask
  <2>6. ask' = [ask EXCEPT ![a] = [r EXCEPT !.next = [r.next EXCEPT ![d] = c]]]
    BY <1>8, <2>2 DEF Proceed
  <2>7. QED
    BY <2>5, <2>6
<1>9. ASSUME NEW d \in Dimension, GetJob(a, d)
      PROVE  TypeOK'
  BY <1>8, <1>9 DEF GetJob, Reaches, Call, Held, rows, history
<1>10. ASSUME NEW d \in Dimension, IsJobPending(a, d)
       PROVE  TypeOK'
  <2>1. PICK probe \in Held :
          /\ Reaches(a, d, probe)
          /\ Proceed(a, d, IF job[<<ask[a].post, d>>].state = probe
                           THEN "settled" ELSE After[probe])
          /\ UNCHANGED <<rows, job, run, history>>
    BY <1>10 DEF IsJobPending
  <2>2. After[probe] \in Call
    BY DEF After, Call, Held
  <2>3. (IF job[<<ask[a].post, d>>].state = probe THEN "settled"
         ELSE After[probe]) \in Call
    BY <2>2 DEF Call
  <2>4. ask' \in [Asker -> Ask]
    BY <1>8, <2>1, <2>3 DEF Reaches
  <2>5. QED
    BY <2>1, <2>4 DEF rows, history
<1>11. ASSUME NEW d \in Dimension, Add(a, d)
       PROVE  TypeOK'
  <2>1. ask[a].manual \in BOOLEAN /\ ask[a].post \in Post
    BY <1>11, Shapes DEF Add, Reaches
  <2>2. NewJob(ask[a].manual) \in Job
    BY <2>1, WorkAssumption DEF NewJob, Job, Held
  <2>3. <<ask[a].post, d>> \in Id
    BY <2>1 DEF Id
  <2>4. ask' \in [Asker -> Ask]
    BY <1>8, <1>11 DEF Add, Reaches, Call
  <2>5. job' \in [Id -> Job \cup {NoJob}]
    BY <1>11, <2>2, <2>3 DEF Add
  <2>6. QED
    BY <1>11, <2>3, <2>4, <2>5 DEF Add, rows
<1>12. CASE AskFails(a)
  BY <1>5, <1>8, <1>12 DEF AskFails, rows, Call
<1>13. QED
  BY <1>3, <1>4, <1>6, <1>7, <1>9, <1>10, <1>11, <1>12 DEF Asks

LEMMA WorkerType ==
    ASSUME TypeOK, HoldersActive, NEW w \in Worker,
           Runs(w) \/ WorkerCrashes(w) \/ LockExpires(w)
    PROVE  TypeOK'
<1> USE DEF TypeOK
<1>1. Idle \in Run
  BY DEF Run
<1>2. ASSUME NEW label \in {"load", "fetch", "store", "returned", "thrown"},
             run[w].at # "idle", MoveOn(w, label)
      PROVE  run' \in [Worker -> Run]
  <2>1. run[w] \in [at : {"load", "fetch", "store", "returned", "thrown"},
                    id : Id, manual : BOOLEAN, holds : BOOLEAN]
    BY <1>2, Shapes DEF Idle
  <2>2. [run[w] EXCEPT !.at = label] \in Run
    BY <2>1 DEF Run
  <2>3. QED
    BY <1>2, <2>2 DEF MoveOn
<1>3. run[w] # Idle => run[w].id \in Id /\ run[w].id[1] \in Post
                       /\ run[w].id[2] \in Dimension
  BY Shapes DEF Id
<1>4. CASE LoadPost(w)
  <2>1. run[w].id[2] \in Dimension
    BY <1>3, <1>4 DEF LoadPost, Idle
  <2>2. \A S \in SUBSET Asker :
          { <<a, run[w].id[2]>> : a \in S } \subseteq Asker \X Dimension
    BY <2>1
  <2>3. {b \in Asker : ask[b] # Idle /\ ask[b].post = run[w].id[1]
                                     /\ ask[b].manual} \in SUBSET Asker
    OBVIOUS
  <2>4. begun' \subseteq Asker \X Dimension
    BY <1>4, <2>2, <2>3 DEF LoadPost, history
  <2>5. owed' \subseteq Id
    BY <1>4 DEF LoadPost, history
  <2>6. run' \in [Worker -> Run]
    BY <1>2, <1>4 DEF LoadPost
  <2>7. QED
    BY <1>4, <2>4, <2>5, <2>6 DEF LoadPost, rows
<1>5. CASE Fetch(w) \/ Store(w)
  BY <1>2, <1>5 DEF Fetch, Store, rows, history
<1>6. ASSUME NEW outcome, run[w].at # "idle", Report(w, outcome),
             run[w].holds => outcome \in Job \cup {NoJob}
      PROVE  TypeOK'
  BY <1>1, <1>6 DEF Report, rows, history
<1>7. CASE Complete(w)
  BY <1>6, <1>7 DEF Complete
<1>8. CASE Fail(w)
  <2>1. run[w].id \in Id
    BY <1>3, <1>8 DEF Fail, Idle
  <2>2. PICK j : j = job[run[w].id]
    OBVIOUS
  <2>3. j \in Job => j.made \in Nat
    BY WorkAssumption DEF Job
  <2>4. j \in Job /\ j.made + 1 < Attempts => Retry(j) \in Job
    BY <2>3, WorkAssumption DEF Retry, Job, Held
  <2>5. run[w].holds => job[run[w].id] \in Job
    BY <2>1, <1>8, Shapes DEF HoldersActive, Holder, Held, Fail, Idle
  <2>6. run[w].at # "idle"
    BY <1>8 DEF Fail
  <2>7. run[w].holds => (IF j.made + 1 < Attempts THEN Retry(j) ELSE NoJob)
                          \in Job \cup {NoJob}
    BY <2>2, <2>4, <2>5
  <2>8. Report(w, IF j.made + 1 < Attempts THEN Retry(j) ELSE NoJob)
    BY <1>8, <2>2 DEF Fail
  <2>9. QED
    BY <1>6, <2>6, <2>7, <2>8
<1>9. CASE WorkerCrashes(w)
  BY <1>1, <1>9 DEF WorkerCrashes, rows, history
<1>10. CASE LockExpires(w)
  <2>1. run[w] \in [at : {"load", "fetch", "store", "returned", "thrown"},
                    id : Id, manual : BOOLEAN, holds : BOOLEAN]
    BY <1>10, Shapes DEF LockExpires
  <2>2. [run[w] EXCEPT !.holds = FALSE] \in Run
    BY <2>1 DEF Run
  <2>3. QED
    BY <1>10, <2>2 DEF LockExpires, rows, history
<1>11. QED
  BY <1>4, <1>5, <1>7, <1>8, <1>9, <1>10 DEF Runs

LEMMA QueueType ==
    ASSUME TypeOK, NEW id \in Id,
           (\E w \in Worker : Take(w, id)) \/ BackoffOver(id) \/ Stalled(id)
    PROVE  TypeOK'
<1> USE DEF TypeOK
<1>1. ASSUME NEW w \in Worker, Take(w, id)
      PROVE  TypeOK'
  <2>1. job[id] \in Job
    BY <1>1, Shapes DEF Take, Held
  <2>2. [job[id] EXCEPT !.state = "active"] \in Job
    BY <2>1 DEF Job, Held
  <2>3. [at |-> "load", id |-> id, holds |-> TRUE, manual |-> job[id].manual]
          \in Run
    BY <2>1 DEF Run, Job
  <2>4. QED
    BY <1>1, <2>2, <2>3 DEF Take, rows, history
<1>2. CASE BackoffOver(id)
  <2>1. job[id] \in Job
    BY <1>2, Shapes DEF BackoffOver, Held
  <2>2. [job[id] EXCEPT !.state = "waiting"] \in Job
    BY <2>1 DEF Job, Held
  <2>3. QED
    BY <1>2, <2>2 DEF BackoffOver, rows, history
<1>3. CASE Stalled(id)
  <2>1. job[id] \in Job
    BY <1>3, Shapes DEF Stalled, Held
  <2>2. job[id].stalls # StallLimit => Requeue(job[id]) \in Job
    BY <2>1, WorkAssumption DEF Requeue, Job, Held
  <2>3. QED
    BY <1>3, <2>2 DEF Stalled, rows, history
<1>4. QED
  BY <1>1, <1>2, <1>3

LEMMA TypeInit == Init => TypeOK
<1>1. Idle \in Ask /\ Idle \in Run
  BY DEF Ask, Run
<1>2. QED
  BY <1>1 DEF Init, TypeOK

-----------------------------------------------------------------------------
(* The lock.                                                               *)

\* Steps that touch neither runs nor a job that is active keep the lock.
LEMMA LockKept ==
    ASSUME HoldersActive, OneRunPerId, UNCHANGED run,
           \A id \in Id : job[id].state = "active" => job'[id].state = "active"
    PROVE  HoldersActive' /\ OneRunPerId'
  BY DEF HoldersActive, OneRunPerId, Holder

\* A run that ends, or goes on under the same lock, or loses it, takes no
\* lock from another.
LEMMA LockPassedOn ==
    ASSUME HoldersActive, OneRunPerId, NEW w \in Worker,
           \A v \in Worker, id \in Id : Holder(v, id)' => Holder(v, id),
           \A id \in Id : \/ job'[id].state = job[id].state
                          \/ Holder(w, id) /\ ~Holder(w, id)'
    PROVE  HoldersActive' /\ OneRunPerId'
<1>1. OneRunPerId'
  BY DEF OneRunPerId
<1>2. ASSUME NEW v \in Worker, NEW id \in Id, Holder(v, id)'
      PROVE  job'[id].state = "active"
  <2>1. Holder(v, id)
    BY <1>2
  <2>2. v = w => Holder(w, id)'
    BY <1>2
  <2>3. Holder(w, id) => v = w
    BY <2>1 DEF OneRunPerId
  <2>4. job'[id].state = job[id].state
    BY <2>2, <2>3
  <2>5. QED
    BY <2>1, <2>4 DEF HoldersActive
<1>3. QED
  BY <1>1, <1>2 DEF HoldersActive

LEMMA AskLock ==
    ASSUME IInv, NEW a \in Asker,
           Tick(a) \/ SyncNow(a) \/ Asks(a) \/ AskFails(a) \/ AskerRestarts(a)
    PROVE  HoldersActive' /\ OneRunPerId'
<1>1. UNCHANGED run
  BY DEF Tick, SyncNow, Asks, AskFails, AskerRestarts, Load, LoadAndAsk,
         Answer, GetJob, IsJobPending, Add
<1>2. CASE \E d \in Dimension : Add(a, d)
  <2>1. PICK d \in Dimension : Add(a, d)
    BY <1>2
  <2>2. \A id \in Id : job[id] # NoJob => job'[id] = job[id]
    BY <2>1 DEF Add, IInv, TypeOK
  <2>3. NoJob.state # "active"
    BY DEF NoJob
  <2>4. QED
    BY <1>1, <2>2, <2>3, LockKept DEF IInv
<1>3. CASE ~\E d \in Dimension : Add(a, d)
  <2>1. UNCHANGED job
    BY <1>3 DEF Tick, SyncNow, Asks, AskFails, AskerRestarts, Load, LoadAndAsk,
                Answer, GetJob, IsJobPending
  <2>2. QED
    BY <1>1, <2>1, LockKept DEF IInv
<1>4. QED
  BY <1>2, <1>3

LEMMA RunLock ==
    ASSUME IInv, NEW w \in Worker,
           Runs(w) \/ WorkerCrashes(w) \/ LockExpires(w)
    PROVE  HoldersActive' /\ OneRunPerId'
<1> USE DEF IInv, TypeOK
<1>1. ASSUME NEW label \in {"fetch", "store", "returned", "thrown"},
             run[w].at # "idle", MoveOn(w, label)
      PROVE  \A v \in Worker, id \in Id : Holder(v, id)' => Holder(v, id)
  BY <1>1, Shapes DEF MoveOn, Holder, Idle
<1>2. CASE LoadPost(w) \/ Fetch(w) \/ Store(w)
  <2>1. PICK label \in {"fetch", "store", "returned", "thrown"} :
          MoveOn(w, label)
    BY <1>2 DEF LoadPost, Fetch, Store
  <2>2. run[w].at # "idle"
    BY <1>2 DEF LoadPost, Fetch, Store
  <2>3. \A v \in Worker, id \in Id : Holder(v, id)' => Holder(v, id)
    BY <1>1, <2>1, <2>2
  <2>4. UNCHANGED job
    BY <1>2 DEF LoadPost, Fetch, Store
  <2>5. QED
    BY <2>3, <2>4, LockPassedOn
<1>3. CASE WorkerCrashes(w) \/ LockExpires(w)
  <2>1. \A v \in Worker \ {w} : run'[v] = run[v]
    BY <1>3 DEF WorkerCrashes, LockExpires
  <2>2. run'[w] = Idle \/ ~run'[w].holds
    <3>1. CASE WorkerCrashes(w)
      BY <3>1 DEF WorkerCrashes
    <3>2. CASE LockExpires(w)
      <4>1. run[w] \in [at : {"load", "fetch", "store", "returned", "thrown"},
                        id : Id, manual : BOOLEAN, holds : BOOLEAN]
        BY <3>2, Shapes DEF LockExpires
      <4>2. QED
        BY <3>2, <4>1 DEF LockExpires
    <3>3. QED
      BY <1>3, <3>1, <3>2
  <2>3. \A v \in Worker, id \in Id : Holder(v, id)' => Holder(v, id)
    BY <2>1, <2>2 DEF Holder
  <2>4. UNCHANGED job
    BY <1>3 DEF WorkerCrashes, LockExpires
  <2>5. QED
    BY <2>3, <2>4, LockPassedOn
<1>4. ASSUME NEW outcome, run[w].at # "idle", Report(w, outcome)
      PROVE  HoldersActive' /\ OneRunPerId'
  <2>1. \A v \in Worker, id \in Id : Holder(v, id)' => Holder(v, id)
    BY <1>4 DEF Report, Holder
  <2>2. run[w] # Idle /\ run'[w] = Idle
    BY <1>4 DEF Report, Idle
  <2>3. ASSUME NEW id \in Id
        PROVE  job'[id] = job[id] \/ (Holder(w, id) /\ ~Holder(w, id)')
    BY <1>4, <2>2 DEF Report, Holder
  <2>4. QED
    BY <2>1, <2>3, LockPassedOn
<1>5. CASE Complete(w) \/ Fail(w)
  BY <1>4, <1>5 DEF Complete, Fail
<1>6. QED
  BY <1>2, <1>3, <1>5 DEF Runs

LEMMA QueueLock ==
    ASSUME IInv, NEW id \in Id,
           (\E w \in Worker : Take(w, id)) \/ BackoffOver(id) \/ Stalled(id)
    PROVE  HoldersActive' /\ OneRunPerId'
<1> USE DEF IInv, TypeOK
<1>1. CASE \E w \in Worker : Take(w, id)
  <2>1. PICK w \in Worker : Take(w, id)
    BY <1>1
  <2>2. \A v \in Worker : ~Holder(v, id)
    BY <2>1 DEF Take, HoldersActive
  <2>3. \A v \in Worker, i \in Id :
          Holder(v, i)' => Holder(v, i) \/ (v = w /\ i = id)
    BY <2>1 DEF Take, Holder
  <2>4. OneRunPerId'
    BY <2>2, <2>3 DEF OneRunPerId
  <2>5. /\ job'[id].state = "active"
        /\ \A i \in Id \ {id} : job'[i] = job[i]
    BY <2>1, Shapes DEF Take, Job, Held
  <2>6. HoldersActive'
    BY <2>3, <2>5 DEF HoldersActive
  <2>7. QED
    BY <2>4, <2>6
<1>2. CASE BackoffOver(id)
  <2>1. \A i \in Id : job[i].state = "active" => job'[i] = job[i]
    BY <1>2 DEF BackoffOver
  <2>2. UNCHANGED run
    BY <1>2 DEF BackoffOver
  <2>3. QED
    BY <2>1, <2>2, LockKept
<1>3. CASE Stalled(id)
  <2>1. UNCHANGED run /\ \A v \in Worker : ~Holder(v, id)
    BY <1>3 DEF Stalled
  <2>2. \A i \in Id \ {id} : job'[i] = job[i]
    BY <1>3 DEF Stalled
  <2>3. \A v \in Worker, i \in Id : Holder(v, i)' <=> Holder(v, i)
    BY <2>1 DEF Holder
  <2>4. QED
    BY <2>1, <2>2, <2>3 DEF HoldersActive, OneRunPerId
<1>4. QED
  BY <1>1, <1>2, <1>3

LEMMA WorkInit == Init => IInv
  BY TypeInit DEF Init, IInv, HoldersActive, OneRunPerId, Holder

LEMMA WorkNext == IInv /\ [Next]_vars => IInv'
<1> SUFFICES ASSUME IInv, [Next]_vars PROVE IInv'
  OBVIOUS
<1>1. ASSUME NEW p \in Post, DeletePost(p) \/ ChangeStatus(p)
      PROVE  IInv'
  <2>1. TypeOK'
    BY <1>1 DEF DeletePost, ChangeStatus, IInv, TypeOK, history
  <2>2. UNCHANGED <<run, job>>
    BY <1>1 DEF DeletePost, ChangeStatus
  <2>3. QED
    BY <2>1, <2>2, LockKept DEF IInv
<1>2. ASSUME NEW a \in Asker,
             Tick(a) \/ SyncNow(a) \/ Asks(a) \/ AskFails(a) \/ AskerRestarts(a)
      PROVE  IInv'
  BY <1>2, AskType, AskLock DEF IInv
<1>3. ASSUME NEW w \in Worker, Runs(w) \/ WorkerCrashes(w) \/ LockExpires(w)
      PROVE  IInv'
  BY <1>3, WorkerType, RunLock DEF IInv
<1>4. ASSUME NEW id \in Id,
             (\E w \in Worker : Take(w, id)) \/ BackoffOver(id) \/ Stalled(id)
      PROVE  IInv'
  BY <1>4, QueueType, QueueLock DEF IInv
<1>5. CASE UNCHANGED vars
  BY <1>5, LockKept DEF vars, IInv, TypeOK
<1>6. QED
  BY <1>1, <1>2, <1>3, <1>4, <1>5 DEF Next

\* The rows, jobs, asks and runs keep their shape, and no job outlives its
\* attempts or its stalls.
THEOREM WorkTypeCorrect == Spec => []TypeOK
<1>1. IInv => TypeOK
  BY DEF IInv
<1>2. QED
  BY <1>1, WorkInit, WorkNext, PTL DEF Spec

\* Two workers run the same poll only after one of them lost its lock: the
\* stable ids of workJobOptions keep every poll to one run at a time.
THEOREM PollsExclusive == Spec => []OneRunPerId
<1>1. IInv => OneRunPerId
  BY DEF IInv
<1>2. QED
  BY <1>1, WorkInit, WorkNext, PTL DEF Spec

-----------------------------------------------------------------------------
(***************************************************************************)
(* The queue.  A step changes what it shows of one poll, or nothing.       *)
(***************************************************************************)
HeldBy(id) == {w \in Worker : Holder(w, id)}

Phases == [id \in Id |-> Phase(job[id])]
Lefts  == [id \in Id |-> StartsLeft(job[id])]
Helds  == [id \in Id |-> HeldBy(id)]

LEMMA JobShows ==
    ASSUME NEW j \in Job
    PROVE  /\ Phase(j) = IF j.state = "active" THEN "running" ELSE "waiting"
           /\ StartsLeft(j) = (Attempts - j.made) + (StallLimit - j.stalls)
                                - (IF j.state = "active" THEN 1 ELSE 0)
           /\ j.made \in Nat /\ j.stalls \in Nat
           /\ j.made + 1 <= Attempts /\ j.stalls <= StallLimit
  <1>1. j # NoJob
    BY Shapes
  <1>2. /\ j.made \in Nat /\ j.stalls \in Nat
        /\ j.made + 1 <= Attempts /\ j.stalls <= StallLimit
    BY WorkAssumption DEF Job
  <1> QED
    BY <1>1, <1>2 DEF Phase, StartsLeft

LEMMA FreeShows == Phase(NoJob) = "free" /\ StartsLeft(NoJob) = Attempts + StallLimit
  BY DEF Phase, StartsLeft

\* What a step shows that concerns one poll.
LEMMA OneShows ==
    ASSUME NEW id \in Id,
           \A i \in Id \ {id} : job'[i] = job[i] /\ HeldBy(i)' = HeldBy(i)
    PROVE  /\ Phases' = [Phases EXCEPT ![id] = Phase(job'[id])]
           /\ Lefts' = [Lefts EXCEPT ![id] = StartsLeft(job'[id])]
           /\ Helds' = [Helds EXCEPT ![id] = HeldBy(id)']
  BY DEF Phases, Lefts, Helds

LEMMA NothingShows ==
    ASSUME \A id \in Id : /\ Phase(job'[id]) = Phase(job[id])
                          /\ StartsLeft(job'[id]) = StartsLeft(job[id])
                          /\ HeldBy(id)' = HeldBy(id)
    PROVE  UNCHANGED Queue!vars
  <1>1. Phases' = Phases /\ Lefts' = Lefts /\ Helds' = Helds
    BY DEF Phases, Lefts, Helds
  <1> QED
    BY <1>1 DEF Queue!vars, Phases, Lefts, Helds, HeldBy

\* A worker holds one poll at most, and a poll has one holder at most.
LEMMA HoldsOne ==
    ASSUME IInv, NEW w \in Worker, NEW id \in Id, Holder(w, id)
    PROVE  /\ HeldBy(id) = {w} /\ \A i \in Id \ {id} : w \notin HeldBy(i)
           /\ job[id] \in Job /\ job[id].state = "active"
  <1>1. HeldBy(id) = {w} /\ \A i \in Id \ {id} : w \notin HeldBy(i)
    BY DEF IInv, OneRunPerId, HeldBy, Holder
  <1>2. job[id].state = "active" /\ job[id] \in Job
    BY Shapes DEF IInv, HoldersActive, TypeOK, Held
  <1> QED
    BY <1>1, <1>2

\* The worker's run changes, the others' stay.
LEMMA OthersHold ==
    ASSUME NEW w \in Worker, \A v \in Worker \ {w} : run'[v] = run[v], NEW id \in Id
    PROVE  HeldBy(id)' \ {w} = HeldBy(id) \ {w}
  BY DEF HeldBy, Holder

LEMMA QueueInit == Init => Queue!Init
  <1> SUFFICES ASSUME Init PROVE Queue!Init
    OBVIOUS
  <1>1. \A id \in Id : HeldBy(id) = {}
    BY DEF Init, HeldBy, Holder
  <1>2. \A id \in Id : Phase(job[id]) = "free"
                       /\ StartsLeft(job[id]) = Attempts + StallLimit
    BY FreeShows DEF Init
  <1> QED
    BY <1>1, <1>2 DEF Queue!Init, HeldBy

\* A poll is accepted when a job is made for it; asks that find one change nothing.
LEMMA AsksShow ==
    ASSUME IInv, NEW a \in Asker,
           Tick(a) \/ SyncNow(a) \/ Asks(a) \/ AskFails(a) \/ AskerRestarts(a)
    PROVE  Queue!Next \/ UNCHANGED Queue!vars
  <1>1. UNCHANGED run
    BY DEF Tick, SyncNow, Asks, AskFails, AskerRestarts, Load, LoadAndAsk,
           Answer, GetJob, IsJobPending, Add
  <1>2. \A i \in Id : HeldBy(i)' = HeldBy(i)
    BY <1>1 DEF HeldBy, Holder
  <1>3. CASE UNCHANGED job
    BY <1>2, <1>3, NothingShows
  <1>4. ASSUME NEW d \in Dimension, Add(a, d), job' # job PROVE Queue!Next
    <2> DEFINE id == <<ask[a].post, d>>
               j == NewJob(ask[a].manual)
    <2>1. id \in Id /\ j \in Job
      <3>1. ask[a].manual \in BOOLEAN /\ ask[a].post \in Post
        BY <1>4, Shapes DEF Add, Reaches, IInv, TypeOK
      <3> QED
        BY <3>1, WorkAssumption DEF NewJob, Job, Held, Id
    <2>2. job[id] = NoJob /\ job' = [job EXCEPT ![id] = j]
      BY <1>4 DEF Add
    <2>3. j.state = "waiting" /\ j.made = 0 /\ j.stalls = 0
      BY DEF NewJob
    <2> HIDE DEF id, j
    <2>4. job'[id] = j /\ \A i \in Id \ {id} : job'[i] = job[i]
      BY <2>1, <2>2 DEF IInv, TypeOK
    <2>5. /\ Phase(job[id]) = "free" /\ Phase(job'[id]) = "waiting"
          /\ StartsLeft(job'[id]) = StartsLeft(job[id])
      BY <2>1, <2>2, <2>3, <2>4, JobShows, FreeShows, WorkAssumption
    <2>6. /\ Phases' = [Phases EXCEPT ![id] = "waiting"]
          /\ Lefts' = Lefts /\ Helds' = Helds /\ Phases[id] = "free"
      BY <1>2, <2>1, <2>4, <2>5, OneShows DEF Phases, Lefts, Helds
    <2>7. Queue!Accept(id)
      BY <2>6 DEF Queue!Accept, Phases, Lefts, Helds, HeldBy
    <2> QED
      BY <2>1, <2>7 DEF Queue!Next
  <1>5. job' # job => \E d \in Dimension : Add(a, d)
    BY DEF Tick, SyncNow, Asks, AskFails, AskerRestarts, Load, LoadAndAsk,
           Answer, GetJob, IsJobPending
  <1> QED
    BY <1>3, <1>4, <1>5

\* A run goes on, or its worker loses the lock: at most Lose.
LEMMA RunsShow ==
    ASSUME IInv, NEW w \in Worker,
           LoadPost(w) \/ Fetch(w) \/ Store(w) \/ WorkerCrashes(w) \/ LockExpires(w)
    PROVE  Queue!Next \/ UNCHANGED Queue!vars
  <1>1. UNCHANGED job
    BY DEF LoadPost, Fetch, Store, WorkerCrashes, LockExpires
  <1>2. CASE LoadPost(w) \/ Fetch(w) \/ Store(w)
    <2>1. \E label \in {"fetch", "store", "returned", "thrown"} : MoveOn(w, label)
      BY <1>2 DEF LoadPost, Fetch, Store
    <2>2. run[w].at # "idle"
      BY <1>2 DEF LoadPost, Fetch, Store
    <2>3. run[w] \in [at : {"load", "fetch", "store", "returned", "thrown"},
                      id : Id, manual : BOOLEAN, holds : BOOLEAN]
      BY <2>2, Shapes DEF Idle, IInv, TypeOK
    <2>4. /\ run'[w] # Idle /\ run[w] # Idle
          /\ run'[w].id = run[w].id /\ run'[w].holds = run[w].holds
          /\ \A v \in Worker \ {w} : run'[v] = run[v]
      BY <2>1, <2>2, <2>3 DEF MoveOn, IInv, TypeOK, Idle
    <2>5. \A id \in Id : HeldBy(id)' = HeldBy(id)
      BY <2>4 DEF HeldBy, Holder
    <2> QED
      BY <1>1, <2>5, NothingShows
  <1>3. CASE WorkerCrashes(w) \/ LockExpires(w)
    <2>1. /\ \A v \in Worker \ {w} : run'[v] = run[v]
          /\ \A id \in Id : ~Holder(w, id)'
      <3>1. CASE WorkerCrashes(w)
        BY <3>1 DEF WorkerCrashes, Holder, IInv, TypeOK
      <3>2. CASE LockExpires(w)
        <4>1. run[w] \in [at : {"load", "fetch", "store", "returned", "thrown"},
                          id : Id, manual : BOOLEAN, holds : BOOLEAN]
          BY <3>2, Shapes DEF LockExpires, IInv, TypeOK
        <4> QED
          BY <3>2, <4>1 DEF LockExpires, Holder, IInv, TypeOK
      <3> QED
        BY <1>3, <3>1, <3>2
    <2>2. CASE \A id \in Id : ~Holder(w, id)
      <3>1. \A id \in Id : HeldBy(id)' = HeldBy(id)
        BY <2>1, <2>2 DEF HeldBy, Holder
      <3> QED
        BY <1>1, <3>1, NothingShows
    <2>3. ASSUME NEW id \in Id, Holder(w, id) PROVE Queue!Lose(id)
      <3>1. HeldBy(id) = {w} /\ job[id] \in Job /\ job[id].state = "active"
        BY <2>3, HoldsOne
      <3>2. \A i \in Id \ {id} : HeldBy(i)' = HeldBy(i)
        BY <2>1, <2>3, HoldsOne DEF HeldBy, Holder
      <3>3. HeldBy(id)' = {}
        BY <2>1, <3>1, OthersHold DEF HeldBy
      <3>4. Phase(job[id]) = "running"
        BY <3>1, JobShows
      <3>5. /\ Phases' = Phases /\ Lefts' = Lefts
            /\ Helds' = [Helds EXCEPT ![id] = {}] /\ Phases[id] = "running"
        BY <1>1, <3>2, <3>3, <3>4, OneShows DEF Phases, Lefts, Helds
      <3> QED
        BY <3>5 DEF Queue!Lose, Phases, Lefts, Helds, HeldBy
    <2> QED
      BY <2>2, <2>3 DEF Queue!Next
  <1> QED
    BY <1>2, <1>3

\* What the holder reports ends the start: for good, or with another one to come.
\* Each failed attempt and each stall is charged once.
LEMMA StartEnds ==
    ASSUME IInv, NEW id \in Id, job[id] \in Job, job[id].state = "active",
           \A i \in Id \ {id} : job'[i] = job[i] /\ HeldBy(i)' = HeldBy(i),
           HeldBy(id)' = {},
           \/ job'[id] = NoJob
           \/ job[id].made + 1 < Attempts /\ job'[id] = Retry(job[id])
           \/ job[id].stalls # StallLimit /\ job'[id] = Requeue(job[id])
    PROVE  Queue!Next
  <1>1. Phase(job[id]) = "running"
    BY JobShows
  <1>2. CASE job'[id] = NoJob
    <2>1. /\ Phases' = [Phases EXCEPT ![id] = "free"]
          /\ Lefts' = [Lefts EXCEPT ![id] = Attempts + StallLimit]
          /\ Helds' = [Helds EXCEPT ![id] = {}] /\ Phases[id] = "running"
      BY <1>1, <1>2, OneShows, FreeShows DEF Phases
    <2>2. Queue!End(id)
      BY <2>1 DEF Queue!End, Phases, Lefts, Helds, HeldBy
    <2> QED
      BY <2>2 DEF Queue!Next
  <1>3. ASSUME job'[id] \in Job, job'[id].state # "active",
               StartsLeft(job'[id]) = StartsLeft(job[id]), StartsLeft(job[id]) > 0
        PROVE  Queue!Next
    <2>1. Phase(job'[id]) = "waiting"
      BY <1>3, JobShows
    <2>2. /\ Phases' = [Phases EXCEPT ![id] = "waiting"]
          /\ Lefts' = Lefts
          /\ Helds' = [Helds EXCEPT ![id] = {}]
          /\ Phases[id] = "running" /\ Lefts[id] > 0
      BY <1>1, <1>3, <2>1, OneShows DEF Phases, Lefts
    <2>3. Queue!Again(id)
      BY <2>2 DEF Queue!Again, Phases, Lefts, Helds, HeldBy
    <2> QED
      BY <2>3 DEF Queue!Next
  <1> DEFINE j == job[id]
             k == job'[id]
  <1>4. /\ j.made \in Nat /\ j.stalls \in Nat /\ j.stalls <= StallLimit
        /\ StartsLeft(j) = (Attempts - j.made) + (StallLimit - j.stalls) - 1
    BY JobShows
  <1>5. CASE job[id].made + 1 < Attempts /\ job'[id] = Retry(job[id])
    <2>1. k \in Job /\ k.state = "delayed" /\ k.made = j.made + 1 /\ k.stalls = j.stalls
      BY <1>5, <1>4, WorkAssumption DEF Retry, Job, Held
    <2>2. StartsLeft(k) = (Attempts - k.made) + (StallLimit - k.stalls)
                            - (IF k.state = "active" THEN 1 ELSE 0)
      BY <2>1, JobShows
    <2> HIDE DEF j, k
    <2>3. StartsLeft(k) = StartsLeft(j) /\ StartsLeft(j) > 0
      BY <1>4, <1>5, <2>1, <2>2, WorkAssumption DEF j
    <2> QED
      BY <1>3, <2>1, <2>3 DEF j, k
  <1>6. CASE job[id].stalls # StallLimit /\ job'[id] = Requeue(job[id])
    <2>1. k \in Job /\ k.state = "waiting" /\ k.made = j.made /\ k.stalls = j.stalls + 1
      BY <1>6, <1>4, WorkAssumption DEF Requeue, Job, Held
    <2>2. StartsLeft(k) = (Attempts - k.made) + (StallLimit - k.stalls)
                            - (IF k.state = "active" THEN 1 ELSE 0)
      BY <2>1, JobShows
    <2>3. j.made + 1 <= Attempts /\ j.stalls # StallLimit
      BY <1>6, JobShows
    <2> HIDE DEF j, k
    <2>4. StartsLeft(k) = (Attempts - j.made) + (StallLimit - (j.stalls + 1))
      BY <1>4, <2>1, <2>2, WorkAssumption
    <2>5. (Attempts - j.made) + (StallLimit - (j.stalls + 1))
            = (Attempts - j.made) + (StallLimit - j.stalls) - 1
      BY <1>4, WorkAssumption
    <2>6. Attempts - j.made >= 1 /\ StallLimit - j.stalls >= 1
      BY <1>4, <2>3, WorkAssumption
    <2>7. StartsLeft(k) = StartsLeft(j) /\ StartsLeft(j) > 0
      BY <1>4, <2>4, <2>5, <2>6, WorkAssumption
    <2> QED
      BY <1>3, <2>1, <2>7 DEF j, k
  <1> QED
    BY <1>2, <1>5, <1>6

LEMMA ReportsShow ==
    ASSUME IInv, NEW w \in Worker, Complete(w) \/ Fail(w)
    PROVE  Queue!Next \/ UNCHANGED Queue!vars
  <1>1. run[w] # Idle /\ \E id \in Id : id = run[w].id
    BY Shapes DEF Complete, Fail, Idle, IInv, TypeOK
  <1> PICK id \in Id : id = run[w].id
    BY <1>1
  <1>2. /\ run'[w] = Idle /\ \A v \in Worker \ {w} : run'[v] = run[v]
        /\ ~run[w].holds => job' = job
        /\ \A i \in Id \ {id} : job'[i] = job[i]
        /\ run[w].holds =>
             \/ job'[id] = NoJob
             \/ job[id].made + 1 < Attempts /\ job'[id] = Retry(job[id])
    BY <1>1 DEF Complete, Fail, Report, IInv, TypeOK
  <1>3. CASE ~run[w].holds
    <2>1. \A i \in Id : HeldBy(i)' = HeldBy(i)
      BY <1>2, <1>3 DEF HeldBy, Holder
    <2> QED
      BY <1>2, <1>3, <2>1, NothingShows
  <1>4. CASE run[w].holds
    <2>1. Holder(w, id)
      BY <1>1, <1>4 DEF Holder
    <2>2. /\ HeldBy(id) = {w} /\ job[id] \in Job /\ job[id].state = "active"
          /\ \A i \in Id \ {id} : w \notin HeldBy(i)
      BY <1>1, <2>1, HoldsOne
    <2>3. HeldBy(id)' = {} /\ \A i \in Id \ {id} : HeldBy(i)' = HeldBy(i)
      <3>1. \A i \in Id : w \notin HeldBy(i)'
        BY <1>2 DEF HeldBy, Holder
      <3>2. \A i \in Id : HeldBy(i)' \ {w} = HeldBy(i) \ {w}
        BY <1>2, OthersHold
      <3> QED
        BY <1>1, <2>2, <3>1, <3>2
    <2> QED
      BY <1>1, <1>2, <1>4, <2>2, <2>3, StartEnds
  <1> QED
    BY <1>3, <1>4

\* BullMQ starts a poll, gives up waiting for its holder, or ends its backoff.
LEMMA QueueShows ==
    ASSUME IInv, NEW id \in Id,
           (\E w \in Worker : Take(w, id)) \/ BackoffOver(id) \/ Stalled(id)
    PROVE  Queue!Next \/ UNCHANGED Queue!vars
  <1>1. ASSUME NEW w \in Worker, Take(w, id) PROVE Queue!Next
    <2>1. job[id] \in Job /\ job[id].state = "waiting" /\ run[w] = Idle
      BY <1>1, Shapes DEF Take, Held, IInv, TypeOK
    <2>2. /\ job'[id] = [job[id] EXCEPT !.state = "active"]
          /\ \A i \in Id \ {id} : job'[i] = job[i]
          /\ \A v \in Worker \ {w} : run'[v] = run[v]
          /\ run'[w] = [at |-> "load", id |-> id, holds |-> TRUE, manual |-> job[id].manual]
      BY <1>1 DEF Take, IInv, TypeOK
    <2>3. /\ job'[id] \in Job /\ job'[id].state = "active"
          /\ job'[id].made = job[id].made /\ job'[id].stalls = job[id].stalls
      BY <2>1, <2>2 DEF Job, Held
    <2>4. /\ \A i \in Id : w \notin HeldBy(i)
          /\ HeldBy(id) = {}
      BY <2>1 DEF HeldBy, Holder, IInv, HoldersActive
    <2>5. /\ \A i \in Id \ {id} : HeldBy(i)' = HeldBy(i)
          /\ HeldBy(id)' = {w}
      <3>1. \A i \in Id : w \in HeldBy(i)' <=> i = id
        BY <2>2 DEF HeldBy, Holder, Idle
      <3>2. \A i \in Id : HeldBy(i)' \ {w} = HeldBy(i) \ {w}
        BY <2>2, OthersHold
      <3> QED
        BY <2>4, <3>1, <3>2
    <2>6. /\ Phase(job[id]) = "waiting" /\ Phase(job'[id]) = "running"
          /\ StartsLeft(job[id]) > 0 /\ StartsLeft(job'[id]) = StartsLeft(job[id]) - 1
      BY <2>1, <2>3, JobShows, WorkAssumption
    <2>7. /\ Phases' = [Phases EXCEPT ![id] = "running"] /\ Phases[id] = "waiting"
          /\ Lefts' = [Lefts EXCEPT ![id] = Lefts[id] - 1] /\ Lefts[id] > 0
          /\ Helds' = [Helds EXCEPT ![id] = {w}] /\ Helds[id] = {}
          /\ \A i \in Id : w \notin Helds[i]
      BY <2>2, <2>4, <2>5, <2>6, OneShows DEF Phases, Lefts, Helds
    <2>8. Queue!Start(w, id)
      BY <2>7 DEF Queue!Start, Phases, Lefts, Helds, HeldBy
    <2> QED
      BY <2>8 DEF Queue!Next
  <1>2. CASE BackoffOver(id)
    <2>1. job[id] \in Job /\ job[id].state = "delayed"
      BY <1>2, Shapes DEF BackoffOver, Held, IInv, TypeOK
    <2>2. /\ job'[id] \in Job /\ job'[id].state = "waiting"
          /\ job'[id].made = job[id].made /\ job'[id].stalls = job[id].stalls
          /\ \A i \in Id \ {id} : job'[i] = job[i]
      BY <1>2, <2>1 DEF BackoffOver, Job, Held, IInv, TypeOK
    <2>3. \A i \in Id : HeldBy(i)' = HeldBy(i)
      BY <1>2 DEF BackoffOver, HeldBy, Holder
    <2>4. Phase(job'[id]) = Phase(job[id]) /\ StartsLeft(job'[id]) = StartsLeft(job[id])
      BY <2>1, <2>2, JobShows
    <2> QED
      BY <2>2, <2>3, <2>4, NothingShows
  <1>3. CASE Stalled(id)
    <2>1. job[id] \in Job /\ job[id].state = "active"
      BY <1>3, Shapes DEF Stalled, Held, IInv, TypeOK
    <2>2. /\ \/ job'[id] = NoJob
             \/ job[id].stalls # StallLimit /\ job'[id] = Requeue(job[id])
          /\ \A i \in Id \ {id} : job'[i] = job[i]
      BY <1>3 DEF Stalled, IInv, TypeOK
    <2>3. HeldBy(id)' = {} /\ \A i \in Id : HeldBy(i)' = HeldBy(i)
      BY <1>3 DEF Stalled, HeldBy, Holder
    <2> QED
      BY <2>1, <2>2, <2>3, StartEnds
  <1> QED
    BY <1>1, <1>2, <1>3

LEMMA QueueStep == IInv /\ [Next]_vars => [Queue!Next]_Queue!vars
  <1> SUFFICES ASSUME IInv, [Next]_vars PROVE Queue!Next \/ UNCHANGED Queue!vars
    OBVIOUS
  <1>1. UNCHANGED <<job, run>> => UNCHANGED Queue!vars
    BY NothingShows DEF HeldBy, Holder
  <1>2. ASSUME NEW p \in Post, DeletePost(p) \/ ChangeStatus(p)
        PROVE  UNCHANGED Queue!vars
    BY <1>1, <1>2 DEF DeletePost, ChangeStatus
  <1>3. UNCHANGED vars => UNCHANGED Queue!vars
    BY <1>1 DEF vars
  <1> QED
    BY <1>2, <1>3, AsksShow, RunsShow, ReportsShow, QueueShows DEF Next, Runs

\* Dispatcher, sync, attempts, backoff, stalls and lost locks implement PollQueue:
\* one start at a time, one poll per worker, and of one ask at most as many starts
\* as attempts and stalls together.
THEOREM QueueKept == Spec => KeepsQueue
  BY QueueInit, QueueStep, WorkInit, WorkNext, PTL
     DEF Spec, KeepsQueue, Queue!Safety

-----------------------------------------------------------------------------
(***************************************************************************)
(* Overlapping runs.  CommentSync stores a comment twice only when two     *)
(* runs of the comments poll were at work at once; what that takes here.   *)
(***************************************************************************)
LocksKept == \A w \in Worker : run[w] # Idle => run[w].holds

RunsAlone ==
    \A v, w \in Worker :
        run[v] # Idle /\ run[w] # Idle /\ run[v].id = run[w].id => v = w

NoLockExpires == [][\A w \in Worker : ~LockExpires(w)]_vars

LEMMA LocksStay ==
    IInv /\ LocksKept /\ [Next]_vars /\ [\A w \in Worker : ~LockExpires(w)]_vars
      => LocksKept'
  <1> SUFFICES ASSUME IInv, LocksKept, Next, \A w \in Worker : ~LockExpires(w)
               PROVE  LocksKept'
    BY DEF vars, LocksKept
  <1>1. ASSUME UNCHANGED run PROVE LocksKept'
    BY <1>1 DEF LocksKept
  <1>2. ASSUME NEW w \in Worker, \A v \in Worker \ {w} : run'[v] = run[v],
               run'[w] = Idle \/ run'[w].holds
        PROVE  LocksKept'
    BY <1>2 DEF LocksKept
  <1>3. ASSUME NEW w \in Worker, LoadPost(w) \/ Fetch(w) \/ Store(w) PROVE LocksKept'
    <2>1. \E label \in {"fetch", "store", "returned", "thrown"} : MoveOn(w, label)
      BY <1>3 DEF LoadPost, Fetch, Store
    <2>2. run[w] # Idle
      BY <1>3 DEF LoadPost, Fetch, Store, Idle
    <2>3. run[w] \in [at : {"load", "fetch", "store", "returned", "thrown"},
                      id : Id, manual : BOOLEAN, holds : BOOLEAN]
      BY <2>2, Shapes DEF IInv, TypeOK
    <2>4. run'[w].holds = run[w].holds /\ \A v \in Worker \ {w} : run'[v] = run[v]
      BY <2>1, <2>3 DEF MoveOn, IInv, TypeOK
    <2> QED
      BY <1>2, <2>2, <2>4 DEF LocksKept
  <1>4. ASSUME NEW w \in Worker, Complete(w) \/ Fail(w) \/ WorkerCrashes(w)
        PROVE  LocksKept'
    BY <1>2, <1>4 DEF Complete, Fail, Report, WorkerCrashes, IInv, TypeOK
  <1>5. ASSUME NEW w \in Worker, NEW id \in Id, Take(w, id) PROVE LocksKept'
    BY <1>2, <1>5 DEF Take, IInv, TypeOK
  <1>6. ASSUME NEW a \in Asker,
               Tick(a) \/ SyncNow(a) \/ Asks(a) \/ AskFails(a) \/ AskerRestarts(a)
        PROVE  UNCHANGED run
    BY <1>6 DEF Tick, SyncNow, Asks, AskFails, AskerRestarts, Load, LoadAndAsk,
                Answer, GetJob, IsJobPending, Add
  <1>7. (\E p \in Post : DeletePost(p) \/ ChangeStatus(p))
        \/ (\E id \in Id : BackoffOver(id) \/ Stalled(id)) => UNCHANGED run
    BY DEF DeletePost, ChangeStatus, BackoffOver, Stalled
  <1> QED
    BY <1>1, <1>3, <1>4, <1>5, <1>6, <1>7 DEF Next, Runs

\* As long as every worker renews its locks in time, two runs of one poll are never
\* at work at once, whatever else fails, crashes or is asked for twice: the stable
\* job ids of workJobOptions alone keep saveComment's find-then-create apart.
THEOREM AloneWhileLocked == Spec /\ NoLockExpires => []RunsAlone
  <1>1. Init => LocksKept
    BY DEF Init, LocksKept
  <1>2. IInv /\ LocksKept => RunsAlone
    <2> SUFFICES ASSUME IInv, LocksKept, NEW v \in Worker, NEW w \in Worker,
                        run[v] # Idle, run[w] # Idle, run[v].id = run[w].id
                 PROVE  v = w
      BY DEF RunsAlone
    <2>1. run[v].id \in Id
      BY Shapes DEF IInv, TypeOK
    <2>2. Holder(v, run[v].id) /\ Holder(w, run[v].id)
      BY DEF LocksKept, Holder
    <2> QED
      BY <2>1, <2>2 DEF IInv, OneRunPerId
  <1> QED
    BY <1>1, <1>2, LocksStay, WorkInit, WorkNext, PTL DEF Spec, NoLockExpires
=============================================================================
