------------------------------ MODULE MCDmxdev ------------------------------
(* Dmxdev with the parameters that applications pass in the runs. *)
EXTENDS Dmxdev

MixedSections == [pid : {1, 2}, oneshot : {FALSE}, timed : {TRUE}] \cup
                 [pid : {1}, oneshot : {TRUE}, timed : {FALSE}]
TwoSections == {[pid |-> 1, oneshot |-> TRUE, timed |-> TRUE], [pid |-> 2, oneshot |-> FALSE, timed |-> TRUE]}
OneSection == [pid : {1}, oneshot : {FALSE}, timed : {FALSE}]

MultiPes == [pes : {"video", Other}, multi : {TRUE}]
MixedPes == {[pes |-> "video", multi |-> FALSE], [pes |-> Other, multi |-> TRUE]}
NoPes == {}

\* The properties say nothing once a timer function was overtaken by a stop, or a
\* call failed halfway.
Undisturbed == ~overtaken /\ ~halfway
=============================================================================
