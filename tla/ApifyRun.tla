------------------------------ MODULE ApifyRun ------------------------------
(***************************************************************************)
(* ApifyClient.runSync: start an Actor run, wait for it until a deadline,  *)
(* abort it when the deadline passes, record it for the spending           *)
(* dashboard, fetch its items; and the delayed job that reads the usage of *)
(* a recorded run again.                                                   *)
(***************************************************************************)
EXTENDS Naturals

CONSTANTS
    Calls,       \* calls of runSync, each with an Actor run of its own
    Attempts     \* attempts of a refresh job (defaultJobOptions)

ASSUME AttemptsAssumption == Attempts \in Nat \ {0}

VARIABLES
    remote,      \* the status of the run at Apify
    call,        \* where each call is, and what it last read of its run
    answer,      \* what the caller was told
    row,         \* the row in apify_runs
    job,         \* the refresh job of the row
    entered      \* history: calls of recorder.record

vars == <<remote, call, answer, row, job, entered>>

Terminal == {"SUCCEEDED", "FAILED"}
Status   == {"RUNNING"} \cup Terminal
NoRow    == [status |-> "none", final |-> FALSE]
NoJob    == [at |-> "none", tries |-> 0, snap |-> "none"]

Call == [at : {"idle", "loop", "create", "enqueue", "check", "catch",
               "fetch", "done"},
         seen : Status \cup {"none"},     \* `run` of runSync
         late : BOOLEAN,                  \* deadline has passed
         recorded : BOOLEAN,
         then : {"check", "catch"}]       \* what follows record(run)

Job == [at : {"none", "queued", "read", "done", "failed"},
        tries : 0 .. Attempts, snap : Status \cup {"none"}]

TypeOK ==
    /\ remote \in [Calls -> Status \cup {"none"}]
    /\ call \in [Calls -> Call]
    /\ answer \in [Calls -> {"open", "items", "error", "crashed"}]
    /\ row \in [Calls -> [status : Status \cup {"none"}, final : BOOLEAN]]
    /\ job \in [Calls -> Job]
    /\ entered \in [Calls -> Nat]

Init ==
    /\ remote = [c \in Calls |-> "none"]
    /\ call = [c \in Calls |-> [at |-> "idle", seen |-> "none", late |-> FALSE,
                                recorded |-> FALSE, then |-> "check"]]
    /\ answer = [c \in Calls |-> "open"]
    /\ row = [c \in Calls |-> NoRow]
    /\ job = [c \in Calls |-> NoJob]
    /\ entered = [c \in Calls |-> 0]

Goto(c, l) == call' = [call EXCEPT ![c].at = l]

Settle(c, a) ==
    /\ Goto(c, "done")
    /\ answer' = [answer EXCEPT ![c] = a]

\* record(current): the flag is set before the row is written.
Record(c, current, next) ==
    /\ call' = [call EXCEPT ![c] = [at |-> "create", seen |-> current,
                                    late |-> call[c].late,
                                    recorded |-> TRUE, then |-> next]]
    /\ entered' = [entered EXCEPT ![c] = @ + 1]

-----------------------------------------------------------------------------
\* runSync

Start(c) ==
    /\ call[c].at = "idle"
    /\ remote' = [remote EXCEPT ![c] = "RUNNING"]
    /\ \/ /\ call' = [call EXCEPT ![c] = [at |-> "loop", seen |-> "RUNNING",
                                          late |-> FALSE, recorded |-> FALSE,
                                          then |-> "check"]]
          /\ UNCHANGED answer
       \/ Settle(c, "error")            \* the reply of startRun is lost
    /\ UNCHANGED <<row, job, entered>>

Refused(c) ==
    /\ call[c].at = "idle"
    /\ Settle(c, "error")
    /\ UNCHANGED <<remote, row, job, entered>>

Waiting(c) == call[c].at = "loop" /\ call[c].seen \notin Terminal

DeadlinePasses(c) ==
    /\ Waiting(c) /\ ~call[c].late
    /\ call' = [call EXCEPT ![c].late = TRUE]
    /\ UNCHANGED <<remote, answer, row, job, entered>>

Wait(c) ==
    /\ Waiting(c) /\ ~call[c].late
    /\ \/ call' = [call EXCEPT ![c].seen = remote[c]]
       \/ Goto(c, "catch")
    /\ UNCHANGED <<remote, answer, row, job, entered>>

AbortRecording(c, unheard) ==
    /\ Waiting(c) /\ call[c].late
    /\ remote' \in {remote, [remote EXCEPT ![c] =
                       IF remote[c] = "RUNNING" THEN "FAILED" ELSE remote[c]]}
    /\ \E read \in {remote'[c], unheard} : Record(c, read, "catch")
    /\ UNCHANGED <<answer, row, job>>

\* Mutant: an abort without reply is taken for one that worked.
AbortTrusted(c) == AbortRecording(c, "FAILED")

\* The abort takes effect at once, later or not at all, and its reply may be
\* lost: then the status read last is recorded.
Abort(c) == AbortRecording(c, call[c].seen)

RunEnded(c) ==
    /\ call[c].at = "loop" /\ call[c].seen \in Terminal
    /\ Record(c, call[c].seen, "check")
    /\ UNCHANGED <<remote, answer, row, job>>

\* Mutant: the dataset is fetched whatever the run came to.
CheckNothing(c) ==
    /\ call[c].at = "check"
    /\ Goto(c, "fetch")
    /\ UNCHANGED <<remote, answer, row, job, entered>>

Check(c) ==
    /\ call[c].at = "check"
    /\ Goto(c, IF call[c].seen = "SUCCEEDED" THEN "fetch" ELSE "catch")
    /\ UNCHANGED <<remote, answer, row, job, entered>>

\* Mutant: errors are rethrown without record(run).
CatchOnly(c) ==
    /\ call[c].at = "catch"
    /\ Settle(c, "error")
    /\ UNCHANGED <<remote, row, job, entered>>

Catch(c) ==
    /\ call[c].at = "catch"
    /\ IF call[c].recorded
         THEN Settle(c, "error") /\ UNCHANGED entered
         ELSE Record(c, call[c].seen, "catch") /\ UNCHANGED answer
    /\ UNCHANGED <<remote, row, job>>

FetchItems(c) ==
    /\ call[c].at = "fetch"
    /\ Settle(c, "items") \/ Settle(c, "error")
    /\ UNCHANGED <<remote, row, job, entered>>

-----------------------------------------------------------------------------
\* ApifyRunRecorder.record: what fails is logged and forgotten.

CreateRow(c) ==
    /\ call[c].at = "create"
    /\ \/ /\ row' = [row EXCEPT ![c] = [status |-> call[c].seen, final |-> FALSE]]
          /\ Goto(c, "enqueue")
       \/ /\ Goto(c, call[c].then)
          /\ UNCHANGED row
    /\ UNCHANGED <<remote, answer, job, entered>>

Enqueue(c) ==
    /\ call[c].at = "enqueue"
    /\ Goto(c, call[c].then)
    /\ \/ job' = [job EXCEPT ![c] = [at |-> "queued", tries |-> 0, snap |-> "none"]]
       \/ UNCHANGED job
    /\ UNCHANGED <<remote, answer, row, entered>>

-----------------------------------------------------------------------------
\* ApifyUsageRefresher.process, some time after it was enqueued

GetRun(c) ==
    /\ job[c].at = "queued"
    /\ job' = [job EXCEPT ![c] = [at |-> "read", tries |-> job[c].tries,
                                  snap |-> remote[c]]]
    /\ UNCHANGED <<remote, call, answer, row, entered>>

UpdateUsage(c) ==
    /\ job[c].at = "read"
    /\ row' = [row EXCEPT ![c] = [status |-> job[c].snap, final |-> TRUE]]
    /\ job' = [job EXCEPT ![c].at = "done"]
    /\ UNCHANGED <<remote, call, answer, entered>>

RefreshFailsOf(c, limit) ==
    /\ job[c].at \in {"queued", "read"}
    /\ LET n == job[c].tries + 1
       IN  job' = [job EXCEPT ![c] =
                     [at |-> IF n < limit THEN "queued" ELSE "failed",
                      tries |-> n, snap |-> "none"]]
    /\ UNCHANGED <<remote, call, answer, row, entered>>

\* Mutant: one attempt too many.
RefreshFailsOnceMore(c) == RefreshFailsOf(c, Attempts + 1)

RefreshFails(c) == RefreshFailsOf(c, Attempts)

-----------------------------------------------------------------------------
\* external: the run ends of its own; the worker process dies

RemoteEnds(c) ==
    /\ remote[c] = "RUNNING"
    /\ \E s \in Terminal : remote' = [remote EXCEPT ![c] = s]
    /\ UNCHANGED <<call, answer, row, job, entered>>

Crash(c) ==
    /\ call[c].at \notin {"idle", "done"}
    /\ Settle(c, "crashed")
    /\ UNCHANGED <<remote, row, job, entered>>

Continues(c) ==
    \/ Start(c) \/ Refused(c) \/ DeadlinePasses(c) \/ Wait(c) \/ Abort(c)
    \/ RunEnded(c) \/ Check(c) \/ Catch(c) \/ FetchItems(c)
    \/ CreateRow(c) \/ Enqueue(c)

Next ==
    \E c \in Calls :
        \/ Continues(c)
        \/ GetRun(c) \/ UpdateUsage(c) \/ RefreshFails(c)
        \/ RemoteEnds(c) \/ Crash(c)

Spec == Init /\ [][Next]_vars

\* The event loop goes on, every request has a time limit, and time passes.
FairSpec == /\ Spec
            /\ \A c \in Calls : WF_vars(Continues(c)) /\ WF_vars(DeadlinePasses(c))

-----------------------------------------------------------------------------
(***************************************************************************)
(* Properties                                                              *)
(***************************************************************************)

\* A run whose id the process got to know goes to the recorder exactly once
\* before its caller hears anything, on every path through the catch block:
\* a failed wait, a deadline, an abort without reply, a failed run.
KnownRunRecorded ==
    \A c \in Calls :
        /\ entered[c] <= 1
        /\ answer[c] \in {"items", "error"} /\ call[c].seen # "none"
              => entered[c] = 1

\* The dashboard never shows an outcome the run did not have: a row that names
\* a terminal status names the one of Apify, though the run may end while the
\* deadline passes, the abort is answered or the usage is read again.
RowsTellTheRun ==
    \A c \in Calls : row[c].status \in Terminal => row[c].status = remote[c]

\* What the spending dashboard is promised; the calls are answered in the end.
EntryOf(c) ==
    IF row[c] = NoRow THEN "none"
    ELSE IF row[c].final THEN "final" ELSE "preliminary"

Ledger == INSTANCE SpendLedger WITH run <- remote,
                                    entry <- [c \in Calls |-> EntryOf(c)]

KeepsLedger == Ledger!Spec
=============================================================================
