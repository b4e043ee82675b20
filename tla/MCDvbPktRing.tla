---------------------------- MODULE MCDvbPktRing ----------------------------
(* DvbPktRing for TLC.                                                     *)
EXTENDS DvbPktRing
=============================================================================
