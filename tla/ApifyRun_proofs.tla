-------------------------- MODULE ApifyRun_proofs --------------------------
(***************************************************************************)
(* What the spending dashboards are made of, as in MCApifyRun.  For any    *)
(* number of calls and of attempts: a run the process knows of is recorded *)
(* once, rows tell the outcome the run had, and ApifyRun implements the    *)
(* safety part of SpendLedger.  For any rows and windows: the points of a  *)
(* chart add up to the rows it was drawn from.                             *)
(***************************************************************************)
EXTENDS ApifyRun, TimeSeries, FiniteSetTheorems, WellFoundedInduction, TLAPS

\* The call: what it has read of its run is not ahead of the run, and it is
\* recorded on every way from the loop to its answer.
CallInv(c) ==
    LET k == call[c] IN
    /\ k.at = "done" <=> answer[c] # "open"
    /\ k.at = "idle" => remote[c] = "none" /\ k.seen = "none" /\ ~k.recorded
    /\ k.at \notin {"idle", "done"} => k.seen # "none"
    /\ k.seen # "none" => remote[c] # "none"
    /\ k.seen \in Terminal => remote[c] = k.seen
    /\ k.at = "loop" => ~k.recorded
    /\ k.at \in {"create", "enqueue", "check", "fetch"} => k.recorded
    /\ k.at = "fetch" => k.seen = "SUCCEEDED"
    /\ answer[c] \in {"items", "error"} /\ k.seen # "none" => k.recorded
    /\ entered[c] = IF k.recorded THEN 1 ELSE 0

\* The row and its job: a job still to run has a row not refreshed yet.
RowInv(c) ==
    LET k == call[c] IN
    /\ ~k.recorded \/ k.at = "create" => row[c] = NoRow
    /\ row[c] = NoRow \/ k.at = "enqueue" => job[c].at = "none"
    /\ k.at = "enqueue" => row[c] # NoRow /\ ~row[c].final
    /\ job[c].at \in {"queued", "read"} =>
          row[c] # NoRow /\ ~row[c].final /\ job[c].tries < Attempts
    /\ job[c].at = "read" /\ job[c].snap \in Terminal => remote[c] = job[c].snap
    /\ row[c].status \in Terminal => remote[c] = row[c].status

IInv == TypeOK /\ \A c \in Calls : CallInv(c) /\ RowInv(c)

LEMMA InitInv == Init => IInv
  BY AttemptsAssumption
     DEF Init, IInv, TypeOK, Call, Job, Status, Terminal, NoRow, NoJob, CallInv, RowInv

Place == {"idle", "loop", "create", "enqueue", "check", "catch", "fetch", "done"}

\* What the call's own updates change, and nothing else.
Kept(c) ==
    /\ call'[c].seen = call[c].seen /\ call'[c].late = call[c].late
    /\ call'[c].recorded = call[c].recorded /\ call'[c].then = call[c].then

Only(f, g, c) == \A d \in Calls \ {c} : g[d] = f[d]

LEMMA GotoFact ==
    ASSUME TypeOK, NEW c \in Calls, NEW l \in Place, Goto(c, l)
    PROVE  /\ call' \in [Calls -> Call] /\ call'[c].at = l /\ Kept(c)
           /\ Only(call, call', c)
  <1>1. \A k \in Call : /\ [k EXCEPT !.at = l] \in Call
                        /\ [k EXCEPT !.at = l].at = l
                        /\ [k EXCEPT !.at = l].seen = k.seen
                        /\ [k EXCEPT !.at = l].late = k.late
                        /\ [k EXCEPT !.at = l].recorded = k.recorded
                        /\ [k EXCEPT !.at = l].then = k.then
    BY DEF Call, Place
  <1>2. call' = [call EXCEPT ![c] = [call[c] EXCEPT !.at = l]]
    BY DEF Goto
  <1>3. call \in [Calls -> Call]
    BY DEF TypeOK
  <1>4. call'[c] = [call[c] EXCEPT !.at = l] /\ call[c] \in Call
    BY <1>2, <1>3
  <1> QED
    BY <1>1, <1>2, <1>3, <1>4 DEF Kept, Only

LEMMA SettleFact ==
    ASSUME TypeOK, NEW c \in Calls, NEW a \in {"items", "error", "crashed"}, Settle(c, a)
    PROVE  /\ call' \in [Calls -> Call] /\ call'[c].at = "done" /\ Kept(c)
           /\ Only(call, call', c)
           /\ answer' \in [Calls -> {"open", "items", "error", "crashed"}]
           /\ answer'[c] = a /\ Only(answer, answer', c)
  <1>1. Goto(c, "done") /\ "done" \in Place
    BY DEF Settle, Place
  <1>2. /\ answer' \in [Calls -> {"open", "items", "error", "crashed"}]
        /\ answer'[c] = a /\ Only(answer, answer', c)
    BY DEF TypeOK, Settle, Only
  <1> QED
    BY <1>1, <1>2, GotoFact

LEMMA RecordFact ==
    ASSUME TypeOK, NEW c \in Calls, NEW current \in Status, NEW next \in {"check", "catch"},
           Record(c, current, next)
    PROVE  /\ call' \in [Calls -> Call] /\ Only(call, call', c)
           /\ call'[c].at = "create" /\ call'[c].seen = current /\ call'[c].recorded
           /\ entered' \in [Calls -> Nat] /\ Only(entered, entered', c)
           /\ entered'[c] = entered[c] + 1
  <1> DEFINE k == [at |-> "create", seen |-> current, late |-> call[c].late,
                   recorded |-> TRUE, then |-> next]
  <1>1. k \in Call
    BY DEF TypeOK, Call
  <1>2. call' = [call EXCEPT ![c] = k] /\ entered' = [entered EXCEPT ![c] = entered[c] + 1]
    BY DEF Record
  <1>3. call'[c] = k /\ k.at = "create" /\ k.seen = current /\ k.recorded
    BY <1>2 DEF TypeOK
  <1> HIDE DEF k
  <1> QED
    BY <1>1, <1>2, <1>3 DEF TypeOK, Only

(***************************************************************************)
(* A step of a call leaves the others alone, so each action is looked at   *)
(* for its own call only.                                                  *)
(***************************************************************************)
Same(d) ==
    /\ remote'[d] = remote[d] /\ call'[d] = call[d] /\ answer'[d] = answer[d]
    /\ row'[d] = row[d] /\ job'[d] = job[d] /\ entered'[d] = entered[d]

LEMMA OneCall ==
    ASSUME IInv, TypeOK', NEW c \in Calls, CallInv(c)', RowInv(c)',
           \A d \in Calls \ {c} : Same(d)
    PROVE  IInv'
  <1>1. ASSUME NEW d \in Calls \ {c} PROVE CallInv(d)' /\ RowInv(d)'
    BY <1>1 DEF IInv, Same, CallInv, RowInv
  <1> QED
    BY <1>1 DEF IInv

LEMMA StartInv == ASSUME IInv, NEW c \in Calls, Start(c) PROVE IInv'
  <1>1. /\ remote' \in [Calls -> Status \cup {"none"}] /\ remote'[c] = "RUNNING"
        /\ Only(remote, remote', c)
    BY DEF IInv, TypeOK, Start, Status, Only
  <1>2. CASE Settle(c, "error")
    BY <1>1, <1>2, SettleFact, OneCall
       DEF IInv, TypeOK, CallInv, RowInv, Start, Kept, Only, Same, Terminal
  <1>3. CASE ~Settle(c, "error")
    <2> DEFINE k == [at |-> "loop", seen |-> "RUNNING", late |-> FALSE,
                     recorded |-> FALSE, then |-> "check"]
    <2>1. k \in Call
      BY DEF Call, Status
    <2>2. /\ call' = [call EXCEPT ![c] = k] /\ UNCHANGED <<answer, row, job, entered>>
          /\ call[c].at = "idle"
      BY <1>3 DEF Start
    <2>3. call'[c] = k /\ k.at = "loop" /\ k.seen = "RUNNING" /\ ~k.recorded
      BY <2>2 DEF IInv, TypeOK
    <2> HIDE DEF k
    <2>4. call' \in [Calls -> Call] /\ Only(call, call', c)
      BY <2>1, <2>2 DEF IInv, TypeOK, Only
    <2> QED
      BY <1>1, <2>2, <2>3, <2>4, OneCall
         DEF IInv, TypeOK, CallInv, RowInv, Only, Same, Terminal
  <1> QED
    BY <1>2, <1>3

\* The actions of a call that write no row and record nothing.
LEMMA CallStepInv ==
    ASSUME IInv, NEW c \in Calls,
           \/ Refused(c) \/ DeadlinePasses(c) \/ Wait(c)
           \/ Check(c) \/ FetchItems(c) \/ Crash(c)
    PROVE  IInv'
  <1>1. CASE Refused(c) \/ FetchItems(c) \/ Crash(c)
    <2>1. PICK a \in {"items", "error", "crashed"} : Settle(c, a)
      BY <1>1 DEF Refused, FetchItems, Crash
    <2>2. a \in {"items", "error"} => call[c].at = "idle" \/ call[c].recorded
      BY <1>1, <2>1, SettleFact DEF IInv, CallInv, Refused, FetchItems, Crash
    <2>3. UNCHANGED <<remote, row, job, entered>>
      BY <1>1 DEF Refused, FetchItems, Crash
    <2>4. /\ call' \in [Calls -> Call] /\ call'[c].at = "done" /\ Kept(c)
          /\ Only(call, call', c)
          /\ answer' \in [Calls -> {"open", "items", "error", "crashed"}]
          /\ answer'[c] = a /\ Only(answer, answer', c)
      BY <2>1, SettleFact DEF IInv
    <2>5. CallInv(c)'
      BY <2>2, <2>3, <2>4 DEF IInv, CallInv, Kept
    <2>6. RowInv(c)'
      BY <2>3, <2>4 DEF IInv, RowInv, Kept
    <2> QED
      BY <2>3, <2>4, <2>5, <2>6, OneCall DEF IInv, TypeOK, Only, Same
  <1>2. CASE Check(c)
    <2>1. PICK l \in {"fetch", "catch"} :
            Goto(c, l) /\ (l = "fetch" => call[c].seen = "SUCCEEDED")
      BY <1>2 DEF Check
    <2>2. UNCHANGED <<remote, answer, row, job, entered>> /\ call[c].at = "check"
      BY <1>2 DEF Check
    <2> QED
      BY <2>1, <2>2, GotoFact, OneCall
         DEF IInv, TypeOK, CallInv, RowInv, Place, Kept, Only, Same
  <1>3. CASE Wait(c) /\ Goto(c, "catch")
    <2>1. /\ call' \in [Calls -> Call] /\ call'[c].at = "catch" /\ Kept(c)
          /\ Only(call, call', c)
      BY <1>3, GotoFact DEF IInv, Place
    <2>2. UNCHANGED <<remote, answer, row, job, entered>> /\ call[c].at = "loop"
      BY <1>3 DEF Wait, Waiting
    <2>3. CallInv(c)' /\ RowInv(c)'
      BY <2>1, <2>2 DEF IInv, CallInv, RowInv, Kept
    <2> QED
      BY <2>1, <2>2, <2>3, OneCall DEF IInv, TypeOK, Only, Same
  <1>4. CASE (Wait(c) /\ ~Goto(c, "catch")) \/ DeadlinePasses(c)
    <2>1. PICK k \in Call :
            /\ call' = [call EXCEPT ![c] = k]
            /\ k.at = "loop" /\ k.recorded = call[c].recorded
            /\ k.seen \in {call[c].seen, remote[c]} \ {"none"}
      <3>1. CASE Wait(c) /\ ~Goto(c, "catch")
        <4> DEFINE k == [call[c] EXCEPT !.seen = remote[c]]
        <4>1. /\ k \in Call /\ k.at = call[c].at /\ k.seen = remote[c]
              /\ k.recorded = call[c].recorded
          BY DEF IInv, TypeOK, Call
        <4>2. call' = [call EXCEPT ![c] = k]
          BY <3>1 DEF Wait
        <4>3. call[c].at = "loop" /\ remote[c] # "none"
          BY <3>1 DEF IInv, CallInv, Wait, Waiting
        <4>4. /\ k.at = "loop" /\ k.recorded = call[c].recorded
              /\ k.seen \in {call[c].seen, remote[c]} \ {"none"}
          BY <4>1, <4>3
        <4> HIDE DEF k
        <4> QED
          BY <4>1, <4>2, <4>4
      <3>2. CASE DeadlinePasses(c)
        <4> DEFINE k == [call[c] EXCEPT !.late = TRUE]
        <4>0. \A x \in Call : LET y == [x EXCEPT !.late = TRUE]
                             IN  /\ y \in Call /\ y.at = x.at /\ y.seen = x.seen
                                 /\ y.recorded = x.recorded
          BY DEF Call
        <4>1. /\ k \in Call /\ k.at = call[c].at /\ k.seen = call[c].seen
              /\ k.recorded = call[c].recorded
          BY <4>0 DEF IInv, TypeOK
        <4>2. call' = [call EXCEPT ![c] = k]
          BY <3>2 DEF DeadlinePasses
        <4>3. call[c].at = "loop" /\ call[c].seen # "none"
          BY <3>2 DEF IInv, CallInv, DeadlinePasses, Waiting
        <4>4. /\ k.at = "loop" /\ k.recorded = call[c].recorded
              /\ k.seen \in {call[c].seen, remote[c]} \ {"none"}
          BY <4>1, <4>3
        <4> HIDE DEF k
        <4> QED
          BY <4>1, <4>2, <4>4
      <3> QED
        BY <1>4, <3>1, <3>2
    <2>2. call' \in [Calls -> Call] /\ call'[c] = k /\ Only(call, call', c)
      BY <2>1 DEF IInv, TypeOK, Only
    <2>3. /\ call[c].at = "loop" /\ call[c].seen \notin Terminal
          /\ UNCHANGED <<remote, answer, row, job, entered>>
      BY <1>4 DEF Wait, DeadlinePasses, Waiting
    <2> QED
      BY <2>1, <2>2, <2>3, OneCall DEF IInv, TypeOK, CallInv, RowInv, Only, Same, Terminal
  <1> QED
    BY <1>1, <1>2, <1>3, <1>4

\* record(run): nothing was recorded before, and the run is as far as it is
\* said to be.
LEMMA RecordInv ==
    ASSUME IInv, NEW c \in Calls, NEW current \in Status, NEW next \in {"check", "catch"},
           call[c].at \in {"loop", "catch"}, ~call[c].recorded,
           Record(c, current, next),
           remote' \in [Calls -> Status \cup {"none"}],
           \A d \in Calls \ {c} : remote'[d] = remote[d],
           remote[c] # "none" /\ remote'[c] # "none",
           remote[c] \in Terminal => remote'[c] = remote[c],
           current \in Terminal => remote'[c] = current,
           UNCHANGED <<answer, row, job>>
    PROVE  IInv'
  <1>1. /\ call' \in [Calls -> Call] /\ Only(call, call', c)
        /\ call'[c].at = "create" /\ call'[c].seen = current /\ call'[c].recorded
        /\ entered' \in [Calls -> Nat] /\ Only(entered, entered', c)
        /\ entered'[c] = entered[c] + 1
    BY RecordFact DEF IInv
  <1>2. TypeOK'
    BY <1>1 DEF IInv, TypeOK
  <1>3. CallInv(c)'
    BY <1>1 DEF IInv, CallInv, Status
  <1>4. RowInv(c)'
    BY <1>1 DEF IInv, TypeOK, RowInv, NoRow, Terminal
  <1>5. \A d \in Calls \ {c} : Same(d)
    BY <1>1 DEF Only, Same
  <1> QED
    BY <1>2, <1>3, <1>4, <1>5, OneCall

LEMMA AbortInv == ASSUME IInv, NEW c \in Calls, Abort(c) PROVE IInv'
  <1>1. PICK current \in {remote'[c], call[c].seen} : Record(c, current, "catch")
    BY DEF Abort, AbortRecording
  <1>2. /\ call[c].at = "loop" /\ ~call[c].recorded /\ call[c].seen = "RUNNING"
        /\ remote[c] \in Status
    BY DEF IInv, TypeOK, CallInv, Abort, AbortRecording, Waiting, Call, Status, Terminal
  <1>3. /\ remote' \in [Calls -> Status \cup {"none"}]
        /\ \A d \in Calls \ {c} : remote'[d] = remote[d]
        /\ remote'[c] \in Status
        /\ remote[c] \in Terminal => remote'[c] = remote[c]
    BY <1>2 DEF IInv, TypeOK, Abort, AbortRecording, Status, Terminal
  <1>4. current \in Status /\ (current \in Terminal => remote'[c] = current)
    BY <1>1, <1>2, <1>3 DEF Status, Terminal
  <1>5. remote[c] # "none" /\ remote'[c] # "none"
    BY <1>2, <1>3 DEF Status, Terminal
  <1>6. UNCHANGED <<answer, row, job>>
    BY DEF Abort, AbortRecording
  <1> QED
    BY <1>1, <1>2, <1>3, <1>4, <1>5, <1>6, RecordInv

LEMMA RecordsInv == ASSUME IInv, NEW c \in Calls, RunEnded(c) \/ Catch(c) PROVE IInv'
  <1>1. CASE RunEnded(c)
    <2>1. /\ call[c].seen \in Status /\ remote[c] = call[c].seen /\ remote[c] # "none"
          /\ ~call[c].recorded /\ remote \in [Calls -> Status \cup {"none"}]
      BY <1>1 DEF IInv, TypeOK, CallInv, RunEnded, Status, Terminal
    <2> QED
      BY <1>1, <2>1, RecordInv DEF RunEnded
  <1>2. CASE Catch(c) /\ ~call[c].recorded
    <2>1. /\ call[c].seen \in Status /\ remote[c] # "none"
          /\ call[c].seen \in Terminal => remote[c] = call[c].seen
          /\ remote \in [Calls -> Status \cup {"none"}]
      BY <1>2 DEF IInv, TypeOK, CallInv, Catch, Call
    <2> QED
      BY <1>2, <2>1, RecordInv DEF Catch
  <1>3. CASE Catch(c) /\ call[c].recorded
    BY <1>3, SettleFact, OneCall DEF IInv, TypeOK, CallInv, RowInv, Catch, Kept, Only, Same
  <1> QED
    BY <1>1, <1>2, <1>3

LEMMA CreateRowInv == ASSUME IInv, NEW c \in Calls, CreateRow(c) PROVE IInv'
  <1>1. /\ call[c].then \in {"check", "catch"} /\ call[c].seen \in Status
        /\ call[c].at = "create" /\ call[c].recorded /\ row[c] = NoRow
    BY DEF IInv, TypeOK, CallInv, RowInv, CreateRow, Call
  <1>2. PICK l \in {"enqueue", "check", "catch"} : Goto(c, l)
    BY <1>1 DEF CreateRow
  <1>3. /\ call' \in [Calls -> Call] /\ call'[c].at = l /\ Kept(c)
        /\ Only(call, call', c)
    BY <1>2, GotoFact DEF IInv, Place
  <1>4. UNCHANGED <<remote, answer, job, entered>>
    BY DEF CreateRow
  <1>5. CallInv(c)'
    BY <1>1, <1>3, <1>4 DEF IInv, CallInv, Kept
  <1>6. CASE UNCHANGED row
    <2>1. l # "enqueue"
      <3>1. row # [row EXCEPT ![c] = [status |-> call[c].seen, final |-> FALSE]]
        BY <1>1 DEF IInv, TypeOK, NoRow, Status, Terminal
      <3> QED
        BY <1>1, <1>2, <1>3, <1>6, <3>1, GotoFact DEF IInv, CreateRow, Place
    <2> QED
      BY <2>1, <1>1, <1>3, <1>4, <1>5, <1>6, OneCall
         DEF IInv, TypeOK, RowInv, Kept, Only, Same
  <1>7. CASE row' = [row EXCEPT ![c] = [status |-> call[c].seen, final |-> FALSE]]
    <2>1. /\ row' \in [Calls -> [status : Status \cup {"none"}, final : BOOLEAN]]
          /\ row'[c].status = call[c].seen /\ ~row'[c].final /\ row'[c] # NoRow
          /\ Only(row, row', c)
      BY <1>1, <1>7 DEF IInv, TypeOK, NoRow, Only, Status, Terminal
    <2>2. RowInv(c)'
      BY <2>1, <1>1, <1>3, <1>4 DEF IInv, CallInv, RowInv, Kept
    <2> QED
      BY <2>1, <2>2, <1>3, <1>4, <1>5, OneCall DEF IInv, TypeOK, Only, Same
  <1> QED
    BY <1>6, <1>7 DEF CreateRow

LEMMA EnqueueInv == ASSUME IInv, NEW c \in Calls, Enqueue(c) PROVE IInv'
  <1>1. /\ call[c].then \in {"check", "catch"} /\ Goto(c, call[c].then)
        /\ call[c].at = "enqueue" /\ UNCHANGED <<remote, answer, row, entered>>
    BY DEF IInv, TypeOK, Enqueue, Call
  <1>2. /\ call' \in [Calls -> Call] /\ call'[c].at \in {"check", "catch"} /\ Kept(c)
        /\ Only(call, call', c)
    BY <1>1, GotoFact DEF IInv, Place
  <1>3. /\ job' \in [Calls -> Job] /\ Only(job, job', c)
        /\ job'[c].at \in {"none", "queued"}
        /\ job'[c].at = "queued" => job'[c].tries < Attempts
    <2>1. [at |-> "queued", tries |-> 0, snap |-> "none"] \in Job
      BY AttemptsAssumption DEF Job
    <2>2. job[c].at = "none"
      BY <1>1 DEF IInv, RowInv
    <2> QED
      BY <2>1, <2>2, AttemptsAssumption DEF IInv, TypeOK, Enqueue, Only
  <1>4. CallInv(c)' /\ RowInv(c)'
    BY <1>1, <1>2, <1>3 DEF IInv, CallInv, RowInv, Kept
  <1> QED
    BY <1>1, <1>2, <1>3, <1>4, OneCall DEF IInv, TypeOK, Only, Same

\* The refresh job, and the run ending of its own.
LEMMA RefreshInv ==
    ASSUME IInv, NEW c \in Calls,
           GetRun(c) \/ UpdateUsage(c) \/ RefreshFails(c) \/ RemoteEnds(c)
    PROVE  IInv'
  <1>1. TypeOK'
    <2>1. CASE GetRun(c)
      BY <2>1 DEF IInv, TypeOK, GetRun, Job
    <2>2. CASE UpdateUsage(c)
      BY <2>2 DEF IInv, TypeOK, UpdateUsage, Job
    <2>3. CASE RefreshFails(c)
      <3> DEFINE n == job[c].tries + 1
                 j == [at |-> IF n < Attempts THEN "queued" ELSE "failed",
                       tries |-> n, snap |-> "none"]
      <3>1. n \in 0 .. Attempts
        BY <2>3, AttemptsAssumption DEF IInv, TypeOK, RowInv, RefreshFails, RefreshFailsOf, Job
      <3>2. j \in Job
        BY <3>1 DEF Job
      <3>3. job' = [job EXCEPT ![c] = j] /\ UNCHANGED <<remote, call, answer, row, entered>>
        BY <2>3 DEF RefreshFails, RefreshFailsOf
      <3> HIDE DEF j
      <3> QED
        BY <3>2, <3>3 DEF IInv, TypeOK
    <2>4. CASE RemoteEnds(c)
      BY <2>4 DEF IInv, TypeOK, RemoteEnds, Status
    <2> QED
      BY <2>1, <2>2, <2>3, <2>4
  <1>2. CallInv(c)'
    BY DEF IInv, TypeOK, CallInv, GetRun, UpdateUsage, RefreshFails, RefreshFailsOf,
           RemoteEnds, Terminal
  <1>3. RowInv(c)'
    <2>1. CASE GetRun(c)
      BY <2>1 DEF IInv, TypeOK, RowInv, GetRun, Job
    <2>2. CASE UpdateUsage(c)
      BY <2>2 DEF IInv, TypeOK, RowInv, UpdateUsage, Job, NoRow
    <2>3. CASE RefreshFails(c)
      BY <2>3 DEF IInv, TypeOK, RowInv, RefreshFails, RefreshFailsOf, Job
    <2>4. CASE RemoteEnds(c)
      BY <2>4 DEF IInv, TypeOK, RowInv, RemoteEnds, Terminal
    <2> QED
      BY <2>1, <2>2, <2>3, <2>4
  <1>4. \A d \in Calls \ {c} : Same(d)
    BY DEF IInv, TypeOK, GetRun, UpdateUsage, RefreshFails, RefreshFailsOf, RemoteEnds, Same
  <1> QED
    BY <1>1, <1>2, <1>3, <1>4, OneCall

LEMMA NextInv == IInv /\ [Next]_vars => IInv'
  <1> SUFFICES ASSUME IInv, [Next]_vars PROVE IInv'
    OBVIOUS
  <1>1. CASE UNCHANGED vars
    BY <1>1 DEF vars, IInv, TypeOK, CallInv, RowInv
  <1> QED
    BY <1>1, StartInv, CallStepInv, AbortInv, RecordsInv, CreateRowInv, EnqueueInv,
       RefreshInv DEF Next, Continues

THEOREM Invariance == Spec => []IInv
  BY InitInv, NextInv, PTL DEF Spec

\* Calls, rows and jobs keep their shape; a job makes no more than its attempts.
THEOREM ApifyTypeCorrect == Spec => []TypeOK
  BY Invariance, PTL DEF IInv

\* Every run the process knows of is recorded once before the caller hears.
THEOREM RunsRecorded == Spec => []KnownRunRecorded
  <1>1. ASSUME IInv, NEW c \in Calls
        PROVE  /\ entered[c] <= 1
               /\ answer[c] \in {"items", "error"} /\ call[c].seen # "none"
                     => entered[c] = 1
    <2>1. entered[c] = IF call[c].recorded THEN 1 ELSE 0
      BY <1>1 DEF IInv, CallInv
    <2>2. answer[c] \in {"items", "error"} /\ call[c].seen # "none" => call[c].recorded
      BY <1>1 DEF IInv, CallInv
    <2> QED
      BY <2>1, <2>2
  <1>2. IInv => KnownRunRecorded
    BY <1>1 DEF KnownRunRecorded
  <1> QED
    BY <1>2, Invariance, PTL

\* A row never shows an outcome the run did not have.
THEOREM RowsFaithful == Spec => []RowsTellTheRun
  <1>1. IInv => RowsTellTheRun
    BY DEF IInv, RowInv, RowsTellTheRun
  <1> QED
    BY <1>1, Invariance, PTL

(***************************************************************************)
(* The refinement: the row is the entry of the ledger, and every step is   *)
(* one of the ledger's or leaves it alone.                                 *)
(***************************************************************************)
Entry == [c \in Calls |-> EntryOf(c)]

LEMMA EntryUnchanged == row' = row => Entry' = Entry
  BY DEF Entry, EntryOf

LEMMA InitLedger == Init => Ledger!Init
  BY DEF Init, Ledger!Init, Ledger!Open, EntryOf, NoRow

\* An answer; items only after a run that succeeded.
LEMMA AnswerStep ==
    ASSUME IInv, NEW c \in Calls, call[c].at # "done",
           NEW a \in {"items", "error", "crashed"}, Settle(c, a),
           a = "items" => call[c].at = "fetch",
           UNCHANGED <<remote, row>>
    PROVE  Ledger!Answer(c)
  <1>1. answer[c] = "open"
    BY DEF IInv, CallInv
  <1>2. a = "items" => remote[c] = "SUCCEEDED"
    BY DEF IInv, CallInv, Terminal
  <1> QED
    BY <1>1, <1>2, EntryUnchanged
       DEF Ledger!Answer, Ledger!Open, Ledger!Told, Settle, Entry

LEMMA EndStep ==
    ASSUME NEW c \in Calls, remote[c] = "RUNNING", NEW s \in Terminal,
           remote' = [remote EXCEPT ![c] = s], UNCHANGED <<answer, row>>
    PROVE  Ledger!End(c)
  BY EntryUnchanged DEF Ledger!End, Ledger!Ended, Terminal, Entry

LEMMA LedgerStep ==
    ASSUME IInv, [Next]_vars PROVE [Ledger!Next]_(Ledger!vars)
  <1>1. ASSUME UNCHANGED <<remote, answer, row>> PROVE UNCHANGED Ledger!vars
    BY <1>1, EntryUnchanged DEF Ledger!vars, Entry
  <1>2. ASSUME NEW c \in Calls, Start(c) PROVE Ledger!Begin(c)
    <2>1. answer[c] = "open" /\ remote[c] = "none"
      BY <1>2 DEF IInv, CallInv, Start
    <2>2. answer' \in {answer, [answer EXCEPT ![c] = "error"]}
      BY <1>2 DEF Start, Settle
    <2> QED
      BY <1>2, <2>1, <2>2, EntryUnchanged DEF Ledger!Begin, Ledger!Open, Start, Entry
  <1>3. ASSUME NEW c \in Calls, Refused(c) \/ FetchItems(c) \/ Crash(c)
        PROVE  Ledger!Answer(c)
    BY <1>3, AnswerStep DEF Refused, FetchItems, Crash
  <1>4. ASSUME NEW c \in Calls, Catch(c)
        PROVE  Ledger!Answer(c) \/ UNCHANGED Ledger!vars
    BY <1>1, <1>4, AnswerStep DEF Catch
  <1>5. ASSUME NEW c \in Calls, Abort(c)
        PROVE  Ledger!End(c) \/ UNCHANGED Ledger!vars
    <2>1. CASE remote' = remote
      BY <1>1, <1>5, <2>1 DEF Abort, AbortRecording
    <2>2. CASE remote' # remote
      <3>1. remote[c] = "RUNNING" /\ remote' = [remote EXCEPT ![c] = "FAILED"]
        BY <1>5, <2>2 DEF IInv, TypeOK, Abort, AbortRecording
      <3> QED
        BY <1>5, <3>1, EndStep DEF Abort, AbortRecording, Terminal
    <2> QED
      BY <2>1, <2>2
  <1>6. ASSUME NEW c \in Calls, RemoteEnds(c) PROVE Ledger!End(c)
    BY <1>6, EndStep DEF RemoteEnds
  <1>7. ASSUME NEW c \in Calls, CreateRow(c)
        PROVE  Ledger!Enter(c) \/ UNCHANGED Ledger!vars
    <2>1. CASE UNCHANGED row
      BY <1>1, <1>7, <2>1 DEF CreateRow
    <2>2. CASE row' = [row EXCEPT ![c] = [status |-> call[c].seen, final |-> FALSE]]
      <3>1. row[c] = NoRow /\ answer[c] = "open" /\ remote[c] # "none"
        BY <1>7 DEF IInv, CallInv, RowInv, CreateRow
      <3>2. call[c].seen # "none"
        BY <1>7 DEF IInv, CallInv, CreateRow
      <3>3. row'[c] # NoRow /\ ~row'[c].final /\ \A d \in Calls \ {c} : row'[d] = row[d]
        BY <2>2, <3>2 DEF IInv, TypeOK, NoRow
      <3>4. Entry' = [Entry EXCEPT ![c] = "preliminary"] /\ Entry[c] = "none"
        BY <3>1, <3>3 DEF Entry, EntryOf
      <3> QED
        BY <1>7, <3>1, <3>4 DEF Ledger!Enter, Ledger!Open, CreateRow, Entry
    <2> QED
      BY <1>7, <2>1, <2>2 DEF CreateRow
  <1>8. ASSUME NEW c \in Calls, UpdateUsage(c) PROVE Ledger!Finalise(c)
    <2>1. row[c] # NoRow /\ ~row[c].final
      BY <1>8 DEF IInv, RowInv, UpdateUsage
    <2>2. row'[c] # NoRow /\ row'[c].final /\ \A d \in Calls \ {c} : row'[d] = row[d]
      BY <1>8 DEF IInv, TypeOK, UpdateUsage, NoRow
    <2>3. EntryOf(c) = "preliminary" /\ EntryOf(c)' = "final"
      BY <2>1, <2>2, Zenon DEF EntryOf
    <2>4. \A d \in Calls \ {c} : EntryOf(d)' = EntryOf(d)
      BY <2>2, Zenon DEF EntryOf
    <2>5. Entry' = [Entry EXCEPT ![c] = "final"] /\ Entry[c] = "preliminary"
      BY <2>3, <2>4 DEF Entry
    <2> QED
      BY <1>8, <2>5 DEF Ledger!Finalise, UpdateUsage, Entry
  <1>9. ASSUME NEW c \in Calls,
               \/ DeadlinePasses(c) \/ Wait(c) \/ RunEnded(c) \/ Check(c)
               \/ Enqueue(c) \/ GetRun(c) \/ RefreshFails(c)
        PROVE  UNCHANGED Ledger!vars
    BY <1>1, <1>9 DEF DeadlinePasses, Wait, RunEnded, Check, Enqueue, GetRun,
                      RefreshFails, RefreshFailsOf
  <1>10. CASE UNCHANGED vars
    BY <1>1, <1>10 DEF vars
  <1> QED
    BY <1>2, <1>3, <1>4, <1>5, <1>6, <1>7, <1>8, <1>9, <1>10
       DEF Next, Continues, Ledger!Next

\* ApifyRun implements the ledger: a run is entered once and before its caller
\* hears, its figures are replaced once, items come of runs that succeeded.
THEOREM LedgerKept == Spec => Ledger!Safety
  BY InitLedger, LedgerStep, Invariance, PTL DEF Spec, Ledger!Safety

-----------------------------------------------------------------------------
(***************************************************************************)
(* Charts.  A series is a sum over its buckets, so the proof needs what    *)
(* the fold of the community modules computes.  Induction is an appeal to  *)
(* the least counterexample, which WFMin states without an operator as a   *)
(* parameter.                                                              *)
(***************************************************************************)
LEMMA LeastNatural ==
    ASSUME NEW T \in SUBSET Nat, T # {}
    PROVE  \E m \in T : \A n \in T : m <= n
  <1>1. PICK m \in T : \A n \in T : ~(<<n, m>> \in OpToRel(<, Nat))
    BY NatLessThanWellFounded, WFMin, Zenon
  <1>2. \A n \in T : ~(n < m)
    BY <1>1, Zenon DEF OpToRel
  <1> QED
    BY <1>2

\* The element the fold takes next.
Pick(s) == CHOOSE x \in s : TRUE

\* g sums up fun over each set of D.
Adds(g, fun, D) ==
    g = [s \in D |-> IF s = {} THEN 0 ELSE fun[Pick(s)] + g[s \ {Pick(s)}]]

\* SumFunctionOnSet is defined by a recursion over subsets.
LEMMA SumUnfolds ==
    ASSUME NEW fun, NEW S
    PROVE  SumFunctionOnSet(fun, S) = (CHOOSE g : Adds(g, fun, SUBSET S))[S]
  BY DEF SumFunctionOnSet, FoldFunctionOnSet, MapThenFoldSet, Adds, Pick

LEMMA Without ==
    ASSUME NEW s, IsFiniteSet(s), s # {}
    PROVE  /\ Pick(s) \in s /\ IsFiniteSet(s \ {Pick(s)})
           /\ Cardinality(s) \in Nat /\ Cardinality(s \ {Pick(s)}) = Cardinality(s) - 1
  <1>1. Pick(s) \in s
    BY DEF Pick
  <1> QED
    BY <1>1, FS_RemoveElement, FS_CardinalityType

\* The recursion defines a function: sets are added up by size.
LEMMA SumExists ==
    ASSUME NEW fun, NEW S, IsFiniteSet(S)
    PROVE  \E g : Adds(g, fun, SUBSET S)
  <1> DEFINE UpTo(n) == {s \in SUBSET S : Cardinality(s) <= n}
             Bad == {n \in Nat : ~\E g : Adds(g, fun, UpTo(n))}
  <1>1. \A s \in SUBSET S : IsFiniteSet(s) /\ Cardinality(s) \in Nat
    BY FS_Subset, FS_CardinalityType
  <1>2. ASSUME NEW m \in Bad, \A n \in Bad : m <= n PROVE FALSE
    <2>1. CASE m = 0
      <3> DEFINE g == [s \in UpTo(0) |-> 0]
      <3>1. \A s \in UpTo(0) : s = {}
        BY <1>1, FS_EmptySet
      <3>2. g = [s \in UpTo(0) |-> IF s = {} THEN 0 ELSE fun[Pick(s)] + g[s \ {Pick(s)}]]
        BY <3>1
      <3> QED
        BY <1>2, <2>1, <3>2 DEF Adds
    <2>2. CASE m # 0
      <3>1. m - 1 \in Nat /\ ~(m <= m - 1)
        BY <2>2
      <3>2. PICK g : Adds(g, fun, UpTo(m - 1))
        <4> HIDE DEF UpTo
        <4> QED
          BY <1>2, <3>1
      <3> DEFINE h == [s \in UpTo(m) |->
                         IF s = {} THEN 0 ELSE fun[Pick(s)] + g[s \ {Pick(s)}]]
      <3>3. ASSUME NEW s \in UpTo(m), s # {} PROVE h[s \ {Pick(s)}] = g[s \ {Pick(s)}]
        <4> DEFINE u == s \ {Pick(s)}
        <4>1. u \in UpTo(m - 1) /\ u \in UpTo(m)
          BY <1>1, <3>3, Without
        <4>2. g[u] = IF u = {} THEN 0 ELSE fun[Pick(u)] + g[u \ {Pick(u)}]
          <5> HIDE DEF u, UpTo
          <5> QED
            BY <3>2, <4>1 DEF Adds
        <4>3. h[u] = IF u = {} THEN 0 ELSE fun[Pick(u)] + g[u \ {Pick(u)}]
          <5> HIDE DEF u, UpTo
          <5> QED
            BY <4>1
        <4> QED
          BY <4>2, <4>3
      <3>4. h = [s \in UpTo(m) |-> IF s = {} THEN 0 ELSE fun[Pick(s)] + h[s \ {Pick(s)}]]
        <4>1. \A s \in UpTo(m) : (IF s = {} THEN 0 ELSE fun[Pick(s)] + h[s \ {Pick(s)}])
                               = (IF s = {} THEN 0 ELSE fun[Pick(s)] + g[s \ {Pick(s)}])
          <5> HIDE DEF h, UpTo
          <5> QED
            BY <3>3
        <4> HIDE DEF UpTo
        <4> QED
          BY <4>1
      <3>5. Adds(h, fun, UpTo(m))
        <4> HIDE DEF h, UpTo
        <4> QED
          BY <3>4 DEF Adds
      <3> HIDE DEF h, UpTo
      <3> QED
        BY <1>2, <3>5 
    <2> QED
      BY <2>1, <2>2
  <1>3. Bad = {}
    <2> HIDE DEF UpTo
    <2> QED
      BY <1>2, LeastNatural
  <1>4. UpTo(Cardinality(S)) = SUBSET S
    BY <1>1, FS_Subset
  <1>5. \E g : Adds(g, fun, UpTo(Cardinality(S)))
    <2> HIDE DEF UpTo
    <2> QED
      BY <1>3, FS_CardinalityType
  <1> QED
    BY <1>4, <1>5

\* g holds the sums over the subsets of S.
Totals(g, fun, S) ==
    /\ SumFunctionOnSet(fun, S) = g[S] /\ g[{}] = 0
    /\ \A s \in SUBSET S : s # {} => g[s] = fun[Pick(s)] + g[s \ {Pick(s)}]

LEMMA SumsAdd ==
    ASSUME NEW fun, NEW S, IsFiniteSet(S)
    PROVE  \E g : Totals(g, fun, S)
  <1> DEFINE g == CHOOSE h : Adds(h, fun, SUBSET S)
  <1>1. Adds(g, fun, SUBSET S)
    BY SumExists
  <1>2. SumFunctionOnSet(fun, S) = g[S]
    BY SumUnfolds
  <1> HIDE DEF g
  <1>3. g = [s \in SUBSET S |-> IF s = {} THEN 0 ELSE fun[Pick(s)] + g[s \ {Pick(s)}]]
    BY <1>1 DEF Adds
  <1>4. \A s \in SUBSET S : g[s] = IF s = {} THEN 0 ELSE fun[Pick(s)] + g[s \ {Pick(s)}]
    BY <1>3
  <1> QED
    BY <1>2, <1>4 DEF Totals

LEMMA DisjointUnion ==
    ASSUME NEW A, NEW B, IsFiniteSet(A), IsFiniteSet(B), A \cap B = {}
    PROVE  /\ IsFiniteSet(A \cup B)
           /\ Cardinality(A \cup B) = Cardinality(A) + Cardinality(B)
  <1>1. /\ Cardinality(A) \in Nat /\ Cardinality(B) \in Nat /\ Cardinality({}) = 0
        /\ IsFiniteSet(A \cup B)
        /\ Cardinality(A \cup B) = Cardinality(A) + Cardinality(B) - Cardinality(A \cap B)
    BY FS_Union, FS_EmptySet, FS_CardinalityType
  <1>2. Cardinality(A \cap B) = 0
    BY FS_EmptySet
  <1> QED
    BY <1>1, <1>2

AllOf(part, S) == UNION {part[i] : i \in S}

\* The sizes of disjoint sets add up to the size of their union.
LEMMA PartsAddUp ==
    ASSUME NEW S, IsFiniteSet(S), NEW part, NEW fun,
           \A i \in S : IsFiniteSet(part[i]) /\ fun[i] = Cardinality(part[i]),
           \A i, j \in S : i # j => part[i] \cap part[j] = {}
    PROVE  /\ IsFiniteSet(AllOf(part, S))
           /\ SumFunctionOnSet(fun, S) = Cardinality(AllOf(part, S))
  <1> DEFINE All(s) == UNION {part[i] : i \in s}
  <1>1. PICK g : Totals(g, fun, S)
    BY SumsAdd
  <1> DEFINE Good(s) == IsFiniteSet(All(s)) /\ g[s] = Cardinality(All(s))
             Bad == {n \in Nat : \E s \in SUBSET S : Cardinality(s) = n /\ ~Good(s)}
  <1>2. \A s \in SUBSET S : IsFiniteSet(s) /\ Cardinality(s) \in Nat
    BY FS_Subset, FS_CardinalityType
  <1>3. ASSUME NEW m \in Bad, \A n \in Bad : m <= n PROVE FALSE
    <2>1. PICK s \in SUBSET S : Cardinality(s) = m /\ ~Good(s)
      OBVIOUS
    <2>2. s # {}
      <3>1. All({}) = {}
        OBVIOUS
      <3>2. Good({})
        <4> HIDE DEF All
        <4> QED
          BY <1>1, <3>1, FS_EmptySet DEF Totals
      <3> HIDE DEF Good
      <3> QED
        BY <2>1, <3>2
    <2> DEFINE x == Pick(s)
               u == s \ {x}
    <2>3. x \in s /\ u \in SUBSET S /\ Cardinality(u) = m - 1 /\ m - 1 \in Nat
      <3>1. /\ x \in s /\ Cardinality(s) \in Nat /\ Cardinality(u) = Cardinality(s) - 1
            /\ Cardinality(u) \in Nat
        BY <1>2, <2>2, Without, FS_CardinalityType
      <3> HIDE DEF x, Good
      <3> QED
        BY <2>1, <3>1
    <2> HIDE DEF x, u, Good
    <2>4. Good(u)
      <3>1. ~(m <= m - 1)
        BY <2>3
      <3>2. m - 1 \notin Bad
        <4> HIDE DEF Bad
        <4> QED
          BY <1>3, <3>1
      <3> QED
        BY <2>3, <3>2
    <2>5. /\ All(s) = part[x] \cup All(u)
          /\ part[x] \cap All(u) = {}
      BY <2>3 DEF u
    <2>6. g[s] = Cardinality(part[x]) + g[u]
      BY <1>1, <2>2, <2>3 DEF x, u, Totals
    <2>7. IsFiniteSet(part[x])
      BY <2>3
    <2>8. Good(s)
      <3> HIDE DEF All
      <3>1. Cardinality(part[x]) \in Nat /\ Cardinality(All(u)) \in Nat
        BY <2>4, <2>7, FS_CardinalityType DEF Good
      <3>2. /\ IsFiniteSet(All(s))
            /\ Cardinality(All(s)) = Cardinality(part[x]) + Cardinality(All(u))
        <4>1. IsFiniteSet(All(u))
          BY <2>4 DEF Good
        <4>2. /\ IsFiniteSet(part[x] \cup All(u))
              /\ Cardinality(part[x] \cup All(u)) = Cardinality(part[x]) + Cardinality(All(u))
          BY <2>5, <2>7, <4>1, DisjointUnion
        <4> QED
          BY <2>5, <4>2
      <3> QED
        BY <2>4, <2>6, <3>2 DEF Good
    <2> QED
      BY <2>1, <2>8
  <1>4. Bad = {}
    <2> HIDE DEF Good
    <2> QED
      BY <1>3, LeastNatural
  <1>5. Good(S)
    <2> HIDE DEF Good
    <2> QED
      BY <1>2, <1>4
  <1> QED
    BY <1>1, <1>5 DEF Totals, AllOf

\* An amount of n is n things, and a sum of amounts is a number of things.
Unit(w, t) == {t} \X (1 .. w[t])
Units(w, W) == UNION {Unit(w, t) : t \in W}

LEMMA SumIsSize ==
    ASSUME NEW W, IsFiniteSet(W), NEW w, \A t \in W : w[t] \in Nat
    PROVE  /\ IsFiniteSet(Units(w, W))
           /\ SumFunctionOnSet(w, W) = Cardinality(Units(w, W))
           /\ SumFunctionOnSet(w, W) \in Nat
  <1> DEFINE part == [t \in W |-> Unit(w, t)]
  <1>1. ASSUME NEW t \in W
        PROVE  IsFiniteSet(Unit(w, t)) /\ w[t] = Cardinality(Unit(w, t))
    <2> DEFINE one == {t}
               many == 1 .. w[t]
    <2>1. /\ IsFiniteSet(one) /\ Cardinality(one) = 1
          /\ IsFiniteSet(many) /\ Cardinality(many) = w[t] /\ w[t] \in Nat
      <3>1. w[t] \in Nat
        OBVIOUS
      <3>2. IsFiniteSet(one) /\ Cardinality(one) = 1
        BY FS_Singleton, Zenon
      <3>3. \A n \in Nat : IsFiniteSet(1 .. n) /\ Cardinality(1 .. n) = n
        BY FS_Interval
      <3> QED
        BY <3>1, <3>2, <3>3
    <2>2. Unit(w, t) = one \X many
      BY DEF Unit
    <2> HIDE DEF one, many
    <2>3. /\ IsFiniteSet(one \X many)
          /\ Cardinality(one \X many) = Cardinality(one) * Cardinality(many)
      BY <2>1, FS_Product
    <2>4. Cardinality(one) * Cardinality(many) = w[t]
      BY <2>1
    <2> QED
      BY <2>2, <2>3, <2>4
  <1>2. \A i \in W : IsFiniteSet(part[i]) /\ w[i] = Cardinality(part[i])
    BY <1>1
  <1>3. \A i, j \in W : i # j => part[i] \cap part[j] = {}
    BY DEF Unit
  <1>4. AllOf(part, W) = Units(w, W)
    BY DEF AllOf, Units
  <1> HIDE DEF part
  <1>5. /\ IsFiniteSet(AllOf(part, W))
        /\ SumFunctionOnSet(w, W) = Cardinality(AllOf(part, W))
    BY <1>2, <1>3, PartsAddUp
  <1> QED
    BY <1>4, <1>5, FS_CardinalityType

LEMMA SumGrows ==
    ASSUME NEW W, IsFiniteSet(W), NEW V \in SUBSET W,
           NEW w, \A t \in W : w[t] \in Nat
    PROVE  SumFunctionOnSet(w, V) <= SumFunctionOnSet(w, W)
  <1>1. IsFiniteSet(V)
    BY FS_Subset
  <1>2. /\ SumFunctionOnSet(w, V) = Cardinality(Units(w, V))
        /\ SumFunctionOnSet(w, W) = Cardinality(Units(w, W))
        /\ IsFiniteSet(Units(w, W))
    BY <1>1, SumIsSize
  <1>3. Units(w, V) \subseteq Units(w, W)
    BY DEF Units
  <1> QED
    BY <1>2, <1>3, FS_Subset

(***************************************************************************)
(* Days and weeks.                                                         *)
(***************************************************************************)
LEMMA DayOfType == ASSUME NEW t \in Nat PROVE DayOf(t) \in Nat
  BY TimeSeriesAssumption DEF DayOf

LEMMA DayBounds ==
    ASSUME NEW t \in Nat
    PROVE  DayTicks * DayOf(t) <= t /\ t < DayTicks * DayOf(t) + DayTicks
  BY TimeSeriesAssumption DEF DayOf

LEMMA DaysInOrder ==
    ASSUME NEW s \in Nat, NEW t \in Nat, s <= t
    PROVE  DayOf(s) <= DayOf(t)
  <1> DEFINE a == DayOf(s)
             b == DayOf(t)
  <1>1. a \in Nat /\ b \in Nat /\ DayTicks \in Nat
    BY DayOfType, TimeSeriesAssumption
  <1>2. DayTicks * a <= s /\ t < DayTicks * b + DayTicks
    BY DayBounds
  <1> HIDE DEF a, b
  <1>3. DayTicks * a < DayTicks * (b + 1)
    BY <1>1, <1>2
  <1>4. a < b + 1
    BY <1>1, <1>3
  <1> QED
    BY <1>1, <1>4 DEF a, b

LEMMA MidnightOfDay == ASSUME NEW d \in Nat PROVE DayOf(Midnight(d)) = d
  BY TimeSeriesAssumption DEF DayOf, Midnight

\* The days a bucket is long.
Step(g) == IF g = "week" THEN 7 ELSE 1

\* The buckets of the code and of the database are the same, and bucketStart finds
\* the bucket the database names by its first midnight again.
LEMMA Buckets ==
    ASSUME NEW t \in Nat, NEW g \in {"day", "week"}
    PROVE  /\ bucketStart(t, g) \in Nat /\ DateTrunc(t, g) = bucketStart(t, g)
           /\ bucketStart(t, g) = Step(g) * (DayOf(t) \div Step(g))
           /\ bucketStart(Midnight(bucketStart(t, g)), g) = bucketStart(t, g)
  <1>1. DayOf(t) \in Nat
    BY DayOfType
  <1>2. /\ bucketStart(t, g) \in Nat /\ DateTrunc(t, g) = bucketStart(t, g)
        /\ bucketStart(t, g) = Step(g) * (DayOf(t) \div Step(g))
    BY <1>1 DEF bucketStart, DateTrunc, Step
  <1>3. DayOf(Midnight(bucketStart(t, g))) = bucketStart(t, g)
    BY <1>2, MidnightOfDay
  <1>4. g = "week" => bucketStart(t, g) % 7 = 0
    BY <1>1, <1>2 DEF Step
  <1>5. bucketStart(Midnight(bucketStart(t, g)), g) = bucketStart(t, g)
    <2> DEFINE b == bucketStart(t, g)
    <2>1. bucketStart(Midnight(b), g) = IF g = "week" THEN b - (b % 7) ELSE b
      BY <1>3 DEF bucketStart
    <2> HIDE DEF b
    <2>2. b \in Nat /\ (g = "week" => b % 7 = 0)
      BY <1>2, <1>4 DEF b
    <2> QED
      BY <2>1, <2>2 DEF b
  <1> QED
    BY <1>2, <1>5

\* Instants of a window fall into the buckets from that of its start to that of its
\* end.
LEMMA BucketsCover ==
    ASSUME NEW from \in Nat, NEW to \in Nat, NEW t \in Nat, from <= t, t <= to,
           NEW g \in {"day", "week"}
    PROVE  LET count == ((bucketStart(to, g) - bucketStart(from, g)) \div Step(g)) + 1
           IN  \E i \in 1 .. count : bucketStart(t, g) = bucketStart(from, g) + (i - 1) * Step(g)
  <1> DEFINE a == DayOf(from)
             b == DayOf(t)
             c == DayOf(to)
             count == ((bucketStart(to, g) - bucketStart(from, g)) \div Step(g)) + 1
  <1>1. a \in Nat /\ b \in Nat /\ c \in Nat /\ a <= b /\ b <= c
    BY DayOfType, DaysInOrder
  <1>2. /\ bucketStart(from, g) = Step(g) * (a \div Step(g))
        /\ bucketStart(t, g) = Step(g) * (b \div Step(g))
        /\ bucketStart(to, g) = Step(g) * (c \div Step(g))
    BY Buckets
  <1> DEFINE i == (b \div Step(g)) - (a \div Step(g)) + 1
  <1> HIDE DEF a, b, c
  <1>3. /\ i \in 1 .. count
        /\ bucketStart(t, g) = bucketStart(from, g) + (i - 1) * Step(g)
    <2>1. CASE g = "day"
      BY <1>1, <1>2, <2>1 DEF Step
    <2>2. CASE g = "week"
      BY <1>1, <1>2, <2>2 DEF Step
    <2> QED
      BY <2>1, <2>2
  <1> HIDE DEF i, count
  <1>4. \E k \in 1 .. count : bucketStart(t, g) = bucketStart(from, g) + (k - 1) * Step(g)
    BY <1>3
  <1> QED
    BY <1>4 DEF count

\* What requests see: an amount for every instant.
Amounts == [Instant -> Nat]

LEMMA WithinFinite ==
    ASSUME NEW rows \in Amounts, NEW from, NEW to
    PROVE  /\ Within(rows, from, to) \in SUBSET Nat
           /\ IsFiniteSet(Within(rows, from, to))
           /\ \A t \in Within(rows, from, to) : rows[t] \in Nat
  <1>1. Instant \in SUBSET Nat /\ IsFiniteSet(Instant)
    BY TimeSeriesAssumption, FS_Interval DEF Instant
  <1>2. Within(rows, from, to) \subseteq Instant
    BY DEF Within
  <1> QED
    BY <1>1, <1>2, FS_Subset DEF Amounts

\* The count of a point is the sum of the window's rows in its bucket.
LEMMA PointCounts ==
    ASSUME NEW rows \in Amounts, NEW from, NEW to, NEW g \in {"day", "week"}, NEW day
    PROVE  CountOn(Grouped(rows, from, to, g), g, day)
             = SumFunctionOnSet(rows, {t \in Within(rows, from, to) :
                                          bucketStart(t, g) = day})
  <1> DEFINE W == Within(rows, from, to)
             grouped == Grouped(rows, from, to, g)
             here == {t \in W : bucketStart(t, g) = day}
             match == {b \in DOMAIN grouped : bucketStart(Midnight(b), g) = day}
  <1>1. W \in SUBSET Nat
    BY WithinFinite
  <1>2. grouped = [b \in {bucketStart(t, g) : t \in W} |->
                     SumFunctionOnSet(rows, {t \in W : bucketStart(t, g) = b})]
    <2>1. \A t \in W : DateTrunc(t, g) = bucketStart(t, g)
      BY <1>1, Buckets
    <2>2. {DateTrunc(t, g) : t \in W} = {bucketStart(t, g) : t \in W}
      BY <2>1
    <2>3. \A b : {t \in W : DateTrunc(t, g) = b} = {t \in W : bucketStart(t, g) = b}
      BY <2>1
    <2>4. grouped = [b \in {DateTrunc(t, g) : t \in W} |->
                       SumFunctionOnSet(rows, {t \in W : DateTrunc(t, g) = b})]
      BY DEF Grouped
    <2> HIDE DEF W, grouped
    <2> QED
      BY <2>2, <2>3, <2>4
  <1>3. \A b \in DOMAIN grouped : bucketStart(Midnight(b), g) = b
    <2> HIDE DEF W, grouped
    <2> QED
      BY <1>1, <1>2, Buckets
  <1>4. CASE here = {}
    <2>1. match = {}
      <3> HIDE DEF W, grouped
      <3> QED
        BY <1>2, <1>3, <1>4
    <2>2. SumFunctionOnSet(rows, {}) = 0
      <3>1. Units(rows, {}) = {}
        BY DEF Units
      <3> QED
        BY <3>1, SumIsSize, FS_EmptySet
    <2> QED
      BY <1>4, <2>1, <2>2 DEF CountOn
  <1>5. CASE here # {}
    <2>1. match = {day} /\ day \in DOMAIN grouped
      <3> HIDE DEF W, grouped
      <3> QED
        BY <1>2, <1>3, <1>5
    <2>2. CountOn(grouped, g, day) = grouped[day]
      <3>1. (CHOOSE b \in match : TRUE) = day
        <4> HIDE DEF match
        <4> QED
          BY <2>1
      <3>2. CountOn(grouped, g, day)
              = IF match = {} THEN 0 ELSE grouped[CHOOSE b \in match : TRUE]
        BY DEF CountOn
      <3> HIDE DEF match, grouped
      <3> QED
        BY <2>1, <3>1, <3>2
    <2>3. grouped[day] = SumFunctionOnSet(rows, here)
      <3> HIDE DEF W, grouped
      <3> QED
        BY <1>2, <2>1
    <2> QED
      BY <2>2, <2>3
  <1> QED
    BY <1>4, <1>5

\* The points of a series add up to the rows of its window.
LEMMA SeriesAddsUp ==
    ASSUME NEW rows \in Amounts, NEW from \in Nat, NEW to \in Nat
    PROVE  SeriesTotal(Series(rows, from, to)) = TotalIn(rows, from, to)
  <1> DEFINE g == pickGranularity(from, to)
             W == Within(rows, from, to)
             start == bucketStart(from, g)
             count == ((bucketStart(to, g) - start) \div Step(g)) + 1
             day(i) == start + (i - 1) * Step(g)
             points == Series(rows, from, to)
             fun == [i \in DOMAIN points |-> points[i].count]
             part == [i \in 1 .. count |->
                        Units(rows, {t \in W : bucketStart(t, g) = day(i)})]
  <1>1. g \in {"day", "week"}
    BY DEF pickGranularity
  <1>2. W \in SUBSET Nat /\ IsFiniteSet(W) /\ \A t \in W : rows[t] \in Nat
    BY WithinFinite
  <1>3. points = [i \in 1 .. count |->
                    [date |-> day(i),
                     count |-> CountOn(Grouped(rows, from, to, g), g, day(i))]]
    BY DEF Series, zeroFillBuckets, Step
  <1>4. fun = [i \in 1 .. count |->
                 SumFunctionOnSet(rows, {t \in W : bucketStart(t, g) = day(i)})]
    <2>1. \A i \in 1 .. count :
             CountOn(Grouped(rows, from, to, g), g, day(i))
               = SumFunctionOnSet(rows, {t \in W : bucketStart(t, g) = day(i)})
      <3> HIDE DEF g, day, count
      <3> QED
        BY <1>1, PointCounts
    <2> HIDE DEF g, day, count, W, points
    <2> QED
      BY <1>3, <2>1
  <1>5. /\ start \in Nat /\ bucketStart(to, g) \in Nat /\ Step(g) \in {1, 7}
        /\ count \in Int
    <2>1. start \in Nat /\ bucketStart(to, g) \in Nat /\ Step(g) \in {1, 7}
      <3> HIDE DEF g
      <3> QED
        BY <1>1, Buckets DEF Step
    <2> HIDE DEF start, g
    <2> QED
      BY <2>1
  <1>6. IsFiniteSet(1 .. count)
    BY <1>5, FS_Interval
  <1>7. \A i \in 1 .. count : IsFiniteSet(part[i]) /\ fun[i] = Cardinality(part[i])
    <2>1. ASSUME NEW i \in 1 .. count
          PROVE  IsFiniteSet(part[i]) /\ fun[i] = Cardinality(part[i])
      <3> DEFINE here == {t \in W : bucketStart(t, g) = day(i)}
      <3>1. IsFiniteSet(here) /\ \A t \in here : rows[t] \in Nat
        <4> HIDE DEF g, day, W
        <4> QED
          BY <1>2, FS_Subset
      <3>2. part[i] = Units(rows, here) /\ fun[i] = SumFunctionOnSet(rows, here)
        <4> HIDE DEF g, day, count, W, fun
        <4> QED
          BY <1>4
      <3> HIDE DEF here, part, fun, count
      <3> QED
        BY <3>1, <3>2, SumIsSize
    <2> HIDE DEF part, fun, count
    <2> QED
      BY <2>1
  <1>8. \A i, j \in 1 .. count : i # j => part[i] \cap part[j] = {}
    <2>1. \A i, j \in 1 .. count : i # j => day(i) # day(j)
      <3> HIDE DEF start, count, g
      <3> QED
        BY <1>5
    <2>2. ASSUME NEW i \in 1 .. count, NEW u \in part[i]
          PROVE  bucketStart(u[1], g) = day(i)
      <3> HIDE DEF g, day, count, W
      <3> QED
        BY <2>2 DEF Units, Unit
    <2> HIDE DEF g, day, count, W, part
    <2> QED
      BY <2>1, <2>2
  <1>9. AllOf(part, 1 .. count) = Units(rows, W)
    <2>1. \A t \in W : \E i \in 1 .. count : bucketStart(t, g) = day(i)
      <3>1. \A t \in W : from <= t /\ t <= to
        BY DEF Within
      <3> HIDE DEF g, W
      <3> QED
        BY <1>1, <1>2, <3>1, BucketsCover
    <2> HIDE DEF g, day, count, W
    <2> QED
      BY <2>1 DEF AllOf, Units
  <1>10. SumFunctionOnSet(fun, 1 .. count) = Cardinality(AllOf(part, 1 .. count))
    <2> DEFINE S == 1 .. count
    <2>1. /\ IsFiniteSet(S)
          /\ \A i \in S : IsFiniteSet(part[i]) /\ fun[i] = Cardinality(part[i])
          /\ \A i, j \in S : i # j => part[i] \cap part[j] = {}
      BY <1>6, <1>7, <1>8
    <2> HIDE DEF part, fun, S
    <2>2. SumFunctionOnSet(fun, S) = Cardinality(AllOf(part, S))
      BY <2>1, PartsAddUp
    <2> QED
      BY <2>2 DEF S
  <1>11. SeriesTotal(points) = SumFunctionOnSet(fun, 1 .. count)
    <2>1. DOMAIN fun = 1 .. count
      <3> HIDE DEF fun, count, W, g, day
      <3> QED
        BY <1>4
    <2>2. SeriesTotal(points) = SumFunctionOnSet(fun, DOMAIN fun)
      BY DEF SeriesTotal, SumFunction
    <2> HIDE DEF fun, count, points
    <2> QED
      BY <2>1, <2>2
  <1>12. SumFunctionOnSet(rows, W) = Cardinality(Units(rows, W))
    <2> HIDE DEF W
    <2> QED
      BY <1>2, SumIsSize
  <1> HIDE DEF part, fun, count, W, points
  <1>13. SeriesTotal(points) = SumFunctionOnSet(rows, W)
    BY <1>9, <1>10, <1>11, <1>12
  <1> QED
    BY <1>13 DEF points, W, TotalIn

(***************************************************************************)
(* The page.                                                               *)
(***************************************************************************)
LEMMA TotalsOrdered ==
    ASSUME NEW rows \in Amounts, NEW from, NEW to
    PROVE  /\ TotalIn(rows, from, to) \in Nat /\ TotalOf(rows) \in Nat
           /\ TotalIn(rows, from, to) <= TotalOf(rows)
  <1> DEFINE W == Within(rows, from, to)
             All == Within(rows, FirstTick, LastTick)
  <1>1. /\ IsFiniteSet(W) /\ IsFiniteSet(All)
        /\ \A t \in W : rows[t] \in Nat
        /\ \A t \in All : rows[t] \in Nat
    BY WithinFinite
  <1>2. W \in SUBSET All
    BY TimeSeriesAssumption DEF Within, Instant
  <1> HIDE DEF W, All
  <1>3. /\ SumFunctionOnSet(rows, W) \in Nat /\ SumFunctionOnSet(rows, All) \in Nat
        /\ SumFunctionOnSet(rows, W) <= SumFunctionOnSet(rows, All)
    BY <1>1, <1>2, SumIsSize, SumGrows
  <1> QED
    BY <1>3 DEF W, All, TotalIn, TotalOf

Figure == [at : {"figure"}, kind : {"overview", "spending"}, from : Nat, to : Nat,
           total : Nat, moved : BOOLEAN]

\* A page that has its figure knows a window, and the figure is that of the rows
\* until one of them is written; the points are those of the rows.
PageKept ==
    /\ stored \in Amounts
    /\ page.at = "figure" => page \in Figure
    /\ page.at \in {"figure", "shown"} =>
         /\ page.from \in Nat /\ page.to \in Nat
         /\ page.kind = "overview" /\ ~page.moved =>
              page.total = TotalIn(stored, page.from, page.to)
         /\ page.kind = "spending" /\ ~page.moved => page.total = TotalOf(stored)
    /\ page.at = "shown" => page.points = Series(stored, page.from, page.to)

LEMMA WriteKeeps ==
    ASSUME PageKept, Writable, NEW t \in Instant, NEW n \in Nat, Written(t, n)
    PROVE  PageKept'
  <1>1. stored' \in Amounts
    BY DEF Written, PageKept, Amounts
  <1>2. CASE page.at = "figure"
    <2>1. page' = [page EXCEPT !.moved = TRUE]
      BY <1>2 DEF Written
    <2>2. /\ page'.at = "figure" /\ page'.moved
          /\ page'.from = page.from /\ page'.to = page.to
      BY <1>2, <2>1 DEF PageKept, Figure
    <2>3. page' \in Figure
      BY <1>2, <2>1 DEF PageKept, Figure
    <2> QED
      BY <1>1, <1>2, <2>2, <2>3 DEF PageKept
  <1>3. CASE page.at # "figure"
    BY <1>1, <1>3 DEF Written, Writable, PageKept
  <1> QED
    BY <1>2, <1>3

LEMMA PagesKept == PageKept /\ [SeriesNext]_<<stored, page>> => PageKept'
  <1> SUFFICES ASSUME PageKept, [SeriesNext]_<<stored, page>> PROVE PageKept'
    OBVIOUS
  <1>1. stored \in Amounts /\ \A t \in Instant : stored[t] \in Nat
    BY DEF PageKept, Amounts
  <1>2. Room \in Int
    BY <1>1, TotalsOrdered, TimeSeriesAssumption DEF Room
  <1>3. CASE RowArrives \/ AmountUpdated \/ RowLeaves
    <2>1. PICK t \in Instant, n \in Nat : Written(t, n)
      <3>1. CASE RowArrives
        BY <1>1, <1>2, <3>1 DEF RowArrives
      <3>2. CASE AmountUpdated
        BY <1>1, <1>2, <3>2 DEF AmountUpdated
      <3>3. CASE RowLeaves
        BY <1>1, <3>3 DEF RowLeaves
      <3> QED
        BY <1>3, <3>1, <3>2, <3>3
    <2>2. Writable
      BY <1>3 DEF RowArrives, AmountUpdated, RowLeaves
    <2> QED
      BY <2>1, <2>2, WriteKeeps
  <1>4. ASSUME NEW start \in CampaignDate, NEW end \in CampaignDate
        PROVE  start \in Nat /\ Earlier(end, Now) \in Nat
    BY TimeSeriesAssumption DEF Earlier
  <1>5. ASSUME NEW start \in CampaignDate, NEW end \in CampaignDate,
               GetCommentVolume(start, end)
        PROVE  PageKept'
    BY <1>4, <1>5 DEF GetCommentVolume, Draw, PageKept
  <1>6. ASSUME NEW start \in CampaignDate, NEW end \in CampaignDate,
               GetSpending(start, end)
        PROVE  PageKept'
    <2>1. TotalOf(stored) \in Nat
      BY <1>1, TotalsOrdered
    <2> QED
      BY <1>4, <1>6, <2>1 DEF GetSpending, AwaitSeries, PageKept, Figure
  <1>7. ASSUME NEW first \in {DayOf(t) : t \in Instant},
               NEW last \in {DayOf(t) : t \in Instant}, GetSummary(first, last)
        PROVE  PageKept'
    <2>1. Midnight(first) \in Nat /\ Midnight(last) + DayTicks - 1 \in Nat
      <3>1. Instant \subseteq Nat
        BY TimeSeriesAssumption DEF Instant
      <3>2. first \in Nat /\ last \in Nat
        BY <3>1, DayOfType
      <3>3. Midnight(first) \in Nat /\ Midnight(last) \in Nat
        BY <3>2, TimeSeriesAssumption DEF Midnight
      <3> QED
        BY <3>3, TimeSeriesAssumption
    <2>2. TotalIn(stored, Midnight(first), Midnight(last) + DayTicks - 1) \in Nat
      BY <1>1, TotalsOrdered
    <2> QED
      BY <1>7, <2>1, <2>2 DEF GetSummary, AwaitSeries, PageKept, Figure
  <1>8. CASE GetSeries
    BY <1>8 DEF GetSeries, Draw, PageKept
  <1>9. CASE Leave
    BY <1>9 DEF Leave, NoPage, PageKept
  <1>10. CASE UNCHANGED <<stored, page>>
    BY <1>10 DEF PageKept
  <1> QED
    BY <1>3, <1>5, <1>6, <1>7, <1>8, <1>9, <1>10 DEF SeriesNext

\* Whatever rows are written and however long a day is: the points of
\* pickGranularity, bucketStart and zeroFillBuckets add up to the rows of the window,
\* and to the figure of the cost explorer if nothing was written between the queries;
\* a campaign's figure is not less.
THEOREM ChartsComplete == SeriesSpec => []ChartsAddUp
  <1>1. SeriesInit => PageKept
    BY DEF SeriesInit, NoPage, PageKept, Amounts
  <1>2. ASSUME PageKept PROVE ChartsAddUp
    <2> SUFFICES ASSUME page.at = "shown"
                 PROVE  LET sum == SeriesTotal(page.points) IN
                        /\ sum = TotalIn(stored, page.from, page.to)
                        /\ page.kind = "overview" /\ ~page.moved => page.total = sum
                        /\ page.kind = "spending" /\ ~page.moved => page.total >= sum
      BY DEF ChartsAddUp
    <2>1. SeriesTotal(page.points) = TotalIn(stored, page.from, page.to)
      BY <1>2, SeriesAddsUp DEF PageKept
    <2>2. /\ TotalIn(stored, page.from, page.to) \in Nat /\ TotalOf(stored) \in Nat
          /\ TotalIn(stored, page.from, page.to) <= TotalOf(stored)
      BY <1>2, TotalsOrdered DEF PageKept
    <2> QED
      BY <1>2, <2>1, <2>2 DEF PageKept
  <1> QED
    BY <1>1, <1>2, PagesKept, PTL DEF SeriesSpec
=============================================================================
