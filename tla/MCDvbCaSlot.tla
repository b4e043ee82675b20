---------------------------- MODULE MCDvbCaSlot -----------------------------
(* DvbCaSlot for TLC. *)
EXTENDS DvbCaSlot
=============================================================================
