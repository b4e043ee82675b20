----------------------------- MODULE DvbPktList -----------------------------
(***************************************************************************)
(* What the packet operations of a dvb_ringbuffer promise: a list of       *)
(* packets, oldest first, walked by a cursor.  A packet may be disposed of *)
(* anywhere in the list; it leaves the list when everything before it has. *)
(***************************************************************************)
EXTENDS Integers, Sequences

CONSTANT Payloads

VARIABLES list,   \* sequence of [payload, ready]
          cur     \* position of the cursor, 0 when there is none

Init == list = <<>> /\ cur = 0

\* The first packet after position j that was not disposed of, or 0.
NextReady(l, j) ==
  LET ready == {k \in j + 1 .. Len(l) : l[k].ready}
  IN  IF ready = {} THEN 0 ELSE CHOOSE k \in ready : \A m \in ready : k <= m

Put(p) ==
  /\ list' = Append(list, [payload |-> p, ready |-> TRUE])
  /\ UNCHANGED cur

Skip ==
  /\ cur # 0
  /\ cur' = NextReady(list, cur)
  /\ UNCHANGED list

First ==
  /\ cur' = NextReady(list, 0)
  /\ UNCHANGED list

\* Move on, and give up the packet the cursor was on.
Dispose ==
  /\ cur # 0
  /\ LET marked == [list EXCEPT ![cur].ready = FALSE]
         first == NextReady(marked, 0)
         gone == IF first = 0 THEN Len(list) ELSE first - 1
         after == NextReady(list, cur)
     IN  /\ list' = SubSeq(marked, gone + 1, Len(list))
         /\ cur' = IF after = 0 THEN 0 ELSE after - gone

Next ==
  \/ \E p \in Payloads : Put(p)
  \/ Skip
  \/ First
  \/ Dispose

Spec == Init /\ [][Next]_<<list, cur>>
=============================================================================
