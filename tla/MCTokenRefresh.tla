-------------------------- MODULE MCTokenRefresh ---------------------------
(***************************************************************************)
(* Instance of TokenRefresh for TLC: three calls, one of them a sign-out.  *)
(***************************************************************************)
EXTENDS TokenRefresh
=============================================================================
