---------------------------- MODULE MCDvbSection ----------------------------
(* DvbSection on small packets and few sections. *)
EXTENDS DvbSection
=============================================================================
