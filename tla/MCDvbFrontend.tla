---------------------------- MODULE MCDvbFrontend ---------------------------
(* The frontend device for TLC. *)
EXTENDS DvbFrontend
=============================================================================
