--------------------------- MODULE DvbRingBuffer ---------------------------
(***************************************************************************)
(* dvb_ringbuffer.c: the byte ring that carries TS packets and sections    *)
(* from interrupt context to a blocked reader, used as note (2) of         *)
(* dvb_ringbuffer.h allows: one writer and one reader, no lock.            *)
(*                                                                         *)
(* A step is one shared-memory access that the other side can observe: the *)
(* copy of one byte, or one store to pread / pwrite.  A byte is            *)
(* represented by its position in the writer's stream, so that losing,     *)
(* duplicating, reordering or overwriting a byte is visible.               *)
(***************************************************************************)
EXTENDS DvbRing

CONSTANT MaxBytes   \* bound on the length of the writer's stream

ASSUME MaxBytesAssumption == MaxBytes \in Nat

VARIABLES data, pread, pwrite,    \* struct dvb_ringbuffer
          wtodo, wpart, woff,     \* dvb_ringbuffer_write: todo, current memcpy, bytes of it done
          rtodo, rpart, ubuf,     \* dvb_ringbuffer_read_user: the same, and the bytes copied
          fval,                   \* dvb_ringbuffer_flush: pwrite as loaded, -1 when not flushing
          rpos, wpos, fpos,       \* history: stream positions of pread, pwrite and fval
          out                     \* history: the bytes the last store to pread consumed

wvars == <<data, pwrite, wtodo, wpart, woff, wpos>>
rvars == <<pread, rtodo, rpart, ubuf, rpos, out>>
fvars == <<fval, fpos>>
vars == <<wvars, rvars, fvars>>

(***************************************************************************)
(* dvb_ringbuffer_free and dvb_ringbuffer_avail of this ring.              *)
(***************************************************************************)
free == Free(pread, pwrite)
avail == Avail(pread, pwrite)

\* Types; both indices stay inside the array, and a transfer inside its request.
TypeOK ==
  /\ data \in [Index -> Nat]
  /\ pread \in Index /\ pwrite \in Index
  /\ wtodo \in 0 .. Size - 1 /\ wpart \in 0 .. wtodo /\ woff \in 0 .. wpart
  /\ rtodo \in 0 .. Size - 1 /\ rpart \in 0 .. rtodo
  /\ ubuf \in Seq(Nat) /\ Len(ubuf) \in 0 .. rpart
  /\ fval \in Index \cup {-1}
  /\ rpos \in Nat /\ wpos \in Nat /\ fpos \in Nat
  /\ out \in Seq(Nat)

\* dvb_ringbuffer_init; the memory comes from vmalloc and holds no stream byte
\* (position 0 is never written: the stream starts at 1).
Init ==
  /\ data = [i \in Index |-> 0]
  /\ pread = 0 /\ pwrite = 0
  /\ wtodo = 0 /\ wpart = 0 /\ woff = 0
  /\ rtodo = 0 /\ rpart = 0 /\ ubuf = <<>>
  /\ fval = -1
  /\ rpos = 1 /\ wpos = 1 /\ fpos = 1
  /\ out = <<>>

-----------------------------------------------------------------------------
(* The writer: dvb_ringbuffer_write, called after the check of note (1).   *)

WriteBegin(len) ==
  /\ wtodo = 0
  /\ len <= free
  /\ wpos + len <= MaxBytes
  /\ wtodo' = len
  /\ wpart' = FirstPart(pwrite, len)
  /\ woff' = 0
  /\ UNCHANGED <<data, pwrite, wpos, rvars, fvars>>

WriteCopy ==
  /\ woff < wpart
  /\ data' = [data EXCEPT ![pwrite + woff] = wpos + woff]
  /\ woff' = woff + 1
  /\ UNCHANGED <<pwrite, wtodo, wpart, wpos, rvars, fvars>>

\* Mutant: pwrite is stored before the last byte is in place.
WritePublishEarly ==
  /\ wtodo > 0 /\ woff >= wpart - 1
  /\ pwrite' = Advance(pwrite, wpart, wtodo)
  /\ wpos' = wpos + wpart
  /\ wtodo' = wtodo - wpart
  /\ wpart' = wtodo - wpart
  /\ woff' = 0
  /\ UNCHANGED <<data, rvars, fvars>>

WritePublish ==
  /\ wtodo > 0 /\ woff = wpart
  /\ pwrite' = Advance(pwrite, wpart, wtodo)
  /\ wpos' = wpos + wpart
  /\ wtodo' = wtodo - wpart
  /\ wpart' = wtodo - wpart
  /\ woff' = 0
  /\ UNCHANGED <<data, rvars, fvars>>

-----------------------------------------------------------------------------
(* The reader: dvb_ringbuffer_read_user / dvb_ringbuffer_read after the    *)
(* check of note (1), and dvb_ringbuffer_flush, which counts as a read.    *)

ReaderIdle == rtodo = 0 /\ fval = -1

ReadBegin(len) ==
  /\ ReaderIdle
  /\ len <= avail
  /\ rtodo' = len
  /\ rpart' = FirstPart(pread, len)
  /\ ubuf' = <<>>
  /\ UNCHANGED <<pread, rpos, out, wvars, fvars>>

ReadCopy ==
  /\ Len(ubuf) < rpart
  /\ ubuf' = Append(ubuf, data[pread + Len(ubuf)])
  /\ UNCHANGED <<pread, rtodo, rpart, rpos, out, wvars, fvars>>

ReadPublish ==
  /\ rtodo > 0 /\ Len(ubuf) = rpart
  /\ pread' = Advance(pread, rpart, rtodo)
  /\ rpos' = rpos + rpart
  /\ out' = ubuf
  /\ rtodo' = rtodo - rpart
  /\ rpart' = rtodo - rpart
  /\ ubuf' = <<>>
  /\ UNCHANGED <<wvars, fvars>>

\* copy_to_user fails: -EFAULT.  What the first memcpy already consumed stays consumed.
ReadFault ==
  /\ rtodo > 0
  /\ rtodo' = 0 /\ rpart' = 0 /\ ubuf' = <<>>
  /\ UNCHANGED <<pread, rpos, out, wvars, fvars>>

FlushLoad ==
  /\ ReaderIdle
  /\ fval' = pwrite
  /\ fpos' = wpos
  /\ UNCHANGED <<wvars, rvars>>

FlushStore ==
  /\ fval # -1
  /\ pread' = fval
  /\ rpos' = fpos
  /\ out' = <<>>
  /\ fval' = -1
  /\ UNCHANGED <<rtodo, rpart, ubuf, wvars, fpos>>

-----------------------------------------------------------------------------
Next ==
  \/ \E len \in 1 .. Size - 1 : WriteBegin(len)
  \/ WriteCopy
  \/ WritePublish
  \/ \E len \in 1 .. Size - 1 : ReadBegin(len)
  \/ ReadCopy
  \/ ReadPublish
  \/ ReadFault
  \/ FlushLoad
  \/ FlushStore

Spec == Init /\ [][Next]_vars

-----------------------------------------------------------------------------
(* What the ring promises.                                                 *)

\* free and avail, computed from two indices that the other side moves, always
\* agree with the number of bytes really in flight, and one slot stays unused:
\* a full ring is never mistaken for an empty one.
CountsExact ==
  /\ avail = wpos - rpos
  /\ avail + free = Size - 1

\* Every byte between pread and pwrite, and every byte the writer has copied but
\* not yet published, is the byte of the stream that belongs there: no memcpy of
\* either side, and no flush racing one, overwrites or exposes a foreign byte.
ContentsExact ==
  \A i \in 0 .. avail + woff - 1 : data[Wrap(pread + i)] = rpos + i

\* What the reader has copied so far out of the ring is exactly the stream, in
\* order, even while the writer is filling the rest of the ring.
ReadsStream ==
  \A i \in 1 .. Len(ubuf) : ubuf[i] = rpos + i - 1

\* The writer's unfinished memcpy never reaches the bytes the reader still owns,
\* and the reader's never runs past what was published.
NoOverrun ==
  /\ wtodo <= free
  /\ rtodo <= avail
  /\ fval # -1 => fpos \in rpos .. wpos /\ fval = Wrap(pread + (fpos - rpos))

\* The memcpys stay inside the array, and a second one starts at index 0.
PartsInside ==
  /\ pwrite + wpart <= Size /\ pread + rpart <= Size
  /\ wpart < wtodo => pwrite + wpart = Size
  /\ rpart < rtodo => pread + rpart = Size
  /\ wtodo > 0 => wpart > 0
  /\ rtodo > 0 => rpart > 0
  /\ rtodo > 0 => fval = -1

\* The inductive invariant: the copies of both sides stay inside the array, inside what
\* was checked and away from each other, the two indices tell how much is in flight,
\* and every byte is where it belongs, between any two accesses of writer and reader.
RingInv ==
  /\ TypeOK
  /\ PartsInside
  /\ NoOverrun
  /\ CountsExact
  /\ ContentsExact
  /\ ReadsStream

\* The bytes a reader would find, oldest first.
InFlight == [i \in 1 .. avail |-> data[Wrap(pread + i - 1)]]

Fifo == INSTANCE DvbFifo WITH
          Capacity <- Size - 1,
          queue <- InFlight,
          next <- wpos,
          got <- out

\* The ring, byte by byte and without a lock, implements the abstract queue: the
\* bytes between pread and pwrite are the queue, a store to pwrite is a Put, a
\* store to pread a Get (or the Drop of a flush), and everything else stutters.
ImplementsFifo == Fifo!Spec
=============================================================================
