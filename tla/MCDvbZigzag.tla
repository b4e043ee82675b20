---------------------------- MODULE MCDvbZigzag -----------------------------
(***************************************************************************)
(* DvbZigzag for TLC: no steps to make, steps that reach the maximum drift *)
(* and steps that do not.                                                  *)
(***************************************************************************)
EXTENDS DvbZigzag

SmallTunings ==
  {[step_size |-> 0, max_drift |-> 0], [step_size |-> 1, max_drift |-> 0],
   [step_size |-> 1, max_drift |-> 1], [step_size |-> 2, max_drift |-> 3]}
=============================================================================
