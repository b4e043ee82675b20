-------------------------- MODULE MCDvbCaMessages ---------------------------
(* DvbCaMessages for TLC.  Connection ids are interchangeable; the CAM in slot 0 *)
(* uses smaller fragments.                                                       *)
EXTENDS DvbCaMessages, TLC

ConnSymmetry == Permutations(Conns)
Room == [s \in Slots |-> IF s = 0 THEN 3 ELSE 2]
=============================================================================
