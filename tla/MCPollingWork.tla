--------------------------- MODULE MCPollingWork ---------------------------
(***************************************************************************)
(* Instances of PollingWork for TLC.                                       *)
(***************************************************************************)
EXTENDS PollingWork
=============================================================================
