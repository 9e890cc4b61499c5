----------------------------- MODULE MCApifyRun -----------------------------
(***************************************************************************)
(* Instances for TLC of what the spending dashboards are made of: the      *)
(* recording of the runs, step by step, and the charts drawn from rows.    *)
(* The two share no variable, so the instance has behaviours of the one    *)
(* and behaviours of the other and does not mix them.                      *)
(***************************************************************************)
EXTENDS ApifyRun, TimeSeries

BothInit == Init /\ SeriesInit

BothNext ==
    \/ Next /\ SeriesInit /\ UNCHANGED <<stored, page>>
    \/ SeriesNext /\ Init /\ UNCHANGED vars

\* The fairness of FairSpec.
BothSpec ==
    /\ BothInit /\ [][BothNext]_<<vars, stored, page>>
    /\ \A c \in Calls : WF_vars(Continues(c)) /\ WF_vars(DeadlinePasses(c))
=============================================================================
