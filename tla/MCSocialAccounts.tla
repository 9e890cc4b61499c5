-------------------------- MODULE MCSocialAccounts --------------------------
(***************************************************************************)
(* Instances of SocialAccounts for TLC: the posts share one author.        *)
(***************************************************************************)
EXTENDS SocialAccounts

CONSTANT a1
OneAuthor == [p \in Post |-> a1]
=============================================================================
