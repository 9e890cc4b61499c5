------------------------- MODULE MCPollingSchedule -------------------------
(***************************************************************************)
(* Instances of PollingSchedule for TLC: the posts share one campaign.     *)
(***************************************************************************)
EXTENDS PollingSchedule

CONSTANT c1

OneCampaign == [p \in Post |-> c1]
=============================================================================
