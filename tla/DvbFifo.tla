------------------------------ MODULE DvbFifo ------------------------------
(***************************************************************************)
(* What a dvb_ringbuffer promises to its one reader and its one writer: a  *)
(* bounded first-in first-out queue of bytes.  The writer appends the next *)
(* bytes of its stream; the reader takes a prefix, or drops one (a flush). *)
(***************************************************************************)
EXTENDS Integers, Sequences

CONSTANT Capacity

VARIABLES queue,   \* the bytes in flight, oldest first
          next,    \* the next byte of the writer's stream
          got      \* the bytes the last Get returned; empty after a Drop

Init == queue = <<>> /\ next = 1 /\ got = <<>>

Put(n) ==
  /\ Len(queue) + n <= Capacity
  /\ queue' = queue \o [i \in 1 .. n |-> next + i - 1]
  /\ next' = next + n
  /\ UNCHANGED got

Get(n) ==
  /\ got' = SubSeq(queue, 1, n)
  /\ queue' = SubSeq(queue, n + 1, Len(queue))
  /\ UNCHANGED next

Drop(n) ==
  /\ got' = <<>>
  /\ queue' = SubSeq(queue, n + 1, Len(queue))
  /\ UNCHANGED next

Next ==
  \/ \E n \in 1 .. Capacity : Put(n)
  \/ \E n \in 1 .. Len(queue) : Get(n)
  \/ \E n \in 0 .. Len(queue) : Drop(n)

Spec == Init /\ [][Next]_<<queue, next, got>>
=============================================================================
