------------------------------ MODULE PollQueue ------------------------------
(***************************************************************************)
(* What the work queue promises of a poll, whatever dispatchers, syncs,    *)
(* workers and lost locks do inside: asking again for a poll under way     *)
(* changes nothing; it is started by one worker at a time, each busy with  *)
(* no other; and it is started a bounded number of times, counting those   *)
(* that failed and those that died, before its id is free for the next     *)
(* ask.  PollingWork implements it.                                        *)
(***************************************************************************)
EXTENDS Naturals

CONSTANTS
    Id,                 \* the ids of the polls
    Worker,             \* slots of the processor
    Starts              \* how often an accepted poll may be started

VARIABLES
    phase,              \* whether a poll is free, waiting or running
    left,               \* how often it may still be started
    held                \* the workers that have it under their lock

vars == <<phase, left, held>>

Init ==
    /\ phase = [id \in Id |-> "free"]
    /\ left  = [id \in Id |-> Starts]
    /\ held  = [id \in Id |-> {}]

Accept(id) ==
    /\ phase[id] = "free"
    /\ phase' = [phase EXCEPT ![id] = "waiting"]
    /\ UNCHANGED <<left, held>>

Start(w, id) ==
    /\ phase[id] = "waiting" /\ left[id] > 0
    /\ \A i \in Id : w \notin held[i]
    /\ held[id] = {}
    /\ phase' = [phase EXCEPT ![id] = "running"]
    /\ left'  = [left EXCEPT ![id] = left[id] - 1]
    /\ held'  = [held EXCEPT ![id] = {w}]

\* The worker dies, or works on without the lock.
Lose(id) ==
    /\ phase[id] = "running"
    /\ held' = [held EXCEPT ![id] = {}]
    /\ UNCHANGED <<phase, left>>

\* The start failed, or nobody was left to tell how it went.
Again(id) ==
    /\ phase[id] = "running" /\ left[id] > 0
    /\ phase' = [phase EXCEPT ![id] = "waiting"]
    /\ held'  = [held EXCEPT ![id] = {}]
    /\ UNCHANGED left

End(id) ==
    /\ phase[id] = "running"
    /\ phase' = [phase EXCEPT ![id] = "free"]
    /\ left'  = [left EXCEPT ![id] = Starts]
    /\ held'  = [held EXCEPT ![id] = {}]

Next ==
    \E id \in Id :
        Accept(id) \/ (\E w \in Worker : Start(w, id)) \/ Lose(id) \/ Again(id) \/ End(id)

Safety == Init /\ [][Next]_vars
=============================================================================
