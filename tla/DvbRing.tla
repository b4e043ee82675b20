------------------------------ MODULE DvbRing ------------------------------
(***************************************************************************)
(* The index arithmetic of dvb_ringbuffer.c, shared by the modules that    *)
(* put a struct dvb_ringbuffer to use: pread (r) and pwrite (w) are        *)
(* indices into an array of Size bytes.                                    *)
(***************************************************************************)
EXTENDS Integers, Sequences

CONSTANT Size      \* rbuf->size

ASSUME SizeAssumption == Size \in Nat \ {0}

Index == 0 .. Size - 1

\* dvb_ringbuffer_free
Free(r, w) == LET free == r - w
              IN  (IF free <= 0 THEN free + Size ELSE free) - 1

\* dvb_ringbuffer_avail
Avail(r, w) == LET avail == w - r
               IN  IF avail < 0 THEN avail + Size ELSE avail

\* Mutant: no split at the end of the array.
FirstPartNoSplit(ptr, len) == len

\* The length of the first memcpy of a transfer of len bytes at index ptr:
\* split when that is positive, the whole length otherwise.
FirstPart(ptr, len) == IF ptr + len > Size THEN Size - ptr ELSE len

\* The index after the memcpy of part of the todo bytes that were left.
Advance(ptr, part, todo) == IF part < todo THEN 0 ELSE (ptr + todo) % Size

\* The index with the offset i from the start of the array, i within two laps.
Wrap(i) == IF i < Size THEN i ELSE i - Size
=============================================================================
