--------------------------- MODULE CampaignStatus ---------------------------
(***************************************************************************)
(* The life cycle of a campaign, which its polls and its project rest on.  *)
(***************************************************************************)

Status == {"DRAFT", "ACTIVE", "PAUSED", "COMPLETED"}

Transitions ==
    { <<"DRAFT", "ACTIVE">>,
      <<"ACTIVE", "PAUSED">>, <<"ACTIVE", "COMPLETED">>,
      <<"PAUSED", "ACTIVE">>, <<"PAUSED", "COMPLETED">> }

ValidTransition(from, to) == <<from, to>> \in Transitions

=============================================================================
