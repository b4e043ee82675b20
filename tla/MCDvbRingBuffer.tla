-------------------------- MODULE MCDvbRingBuffer --------------------------
(* DvbRingBuffer for TLC, with the mutants of its definitions.             *)
EXTENDS DvbRingBuffer
=============================================================================
