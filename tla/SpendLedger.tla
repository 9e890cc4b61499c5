---------------------------- MODULE SpendLedger ----------------------------
(***************************************************************************)
(* What the recording of Apify runs promises to the spending dashboard:    *)
(* a run is entered in the ledger at most once, after it was started and   *)
(* before its caller hears the outcome; its usage figures are replaced     *)
(* once and stay; items are only returned of a run that succeeded; and     *)
(* every caller gets an answer.  ApifyRun implements it.                   *)
(***************************************************************************)
CONSTANT Calls          \* calls of ApifyClient.runSync

VARIABLES
    run,                \* run[c]    the Actor run behind the call
    entry,              \* entry[c]  its row in apify_runs
    answer              \* answer[c] what the caller was told

Open   == "open"
Told   == {"items", "error", "crashed"}
Ended  == {"SUCCEEDED", "FAILED"}

Init ==
    /\ run    = [c \in Calls |-> "none"]
    /\ entry  = [c \in Calls |-> "none"]
    /\ answer = [c \in Calls |-> Open]

Begin(c) ==
    /\ run[c] = "none" /\ answer[c] = Open
    /\ run' = [run EXCEPT ![c] = "RUNNING"]
    /\ answer' \in {answer, [answer EXCEPT ![c] = "error"]}
    /\ UNCHANGED entry

End(c) ==
    /\ run[c] = "RUNNING"
    /\ \E s \in Ended : run' = [run EXCEPT ![c] = s]
    /\ UNCHANGED <<entry, answer>>

Enter(c) ==
    /\ entry[c] = "none" /\ run[c] # "none" /\ answer[c] = Open
    /\ entry' = [entry EXCEPT ![c] = "preliminary"]
    /\ UNCHANGED <<run, answer>>

Finalise(c) ==
    /\ entry[c] = "preliminary"
    /\ entry' = [entry EXCEPT ![c] = "final"]
    /\ UNCHANGED <<run, answer>>

Answer(c) ==
    /\ answer[c] = Open
    /\ \E a \in Told :
          /\ a = "items" => run[c] = "SUCCEEDED"
          /\ answer' = [answer EXCEPT ![c] = a]
    /\ UNCHANGED <<run, entry>>

Next == \E c \in Calls : Begin(c) \/ End(c) \/ Enter(c) \/ Finalise(c) \/ Answer(c)

vars == <<run, entry, answer>>

Safety == Init /\ [][Next]_vars
Spec   == Safety /\ \A c \in Calls : WF_vars(Answer(c))
=============================================================================
