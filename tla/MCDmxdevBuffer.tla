-------------------------- MODULE MCDmxdevBuffer --------------------------
(* DmxdevBuffer for TLC. *)
EXTENDS DmxdevBuffer
=============================================================================
