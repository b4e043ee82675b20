----------------------------- MODULE DvbPktRing -----------------------------
(***************************************************************************)
(* The packet layer of dvb_ringbuffer.c as dvb_ca_en50221.c uses it: the   *)
(* slot's thread appends fragments with dvb_ringbuffer_pkt_write, read()   *)
(* walks them with pkt_next / pkt_read and disposes of those it consumed.  *)
(* The thread holds slot_lock, read() does not: each store to pwrite is a  *)
(* step of its own, and read() may fall between any two.                   *)
(*                                                                         *)
(* In the ring a packet is two length bytes, a status byte and its         *)
(* payload.  A byte of payload is the packet's number and the offset.      *)
(***************************************************************************)
EXTENDS DvbRing

CONSTANTS Word,         \* 2^64 in the code: idx - pread is computed modulo it
          Radix,        \* 256 in the code: the two length bytes are its digits
          LinkBufSize,  \* slot_info.link_buf_size
          FragLens,     \* lengths of the fragments a CAM sends
          MaxPkts       \* bound on the number of fragments written

ASSUME WordAssumption == Word \in Nat /\ Word > Size /\ Radix \in Nat \ {0}
ASSUME FragAssumption ==   \* read_data rejects anything else
  LinkBufSize \in 2 .. Radix * Radix - 1 /\ FragLens \subseteq 2 .. LinkBufSize
ASSUME MaxPktsAssumption == MaxPkts \in Nat

VARIABLES data, pread, pwrite,  \* struct dvb_ringbuffer
          wbuf, wdone,          \* pkt_write: the packet being written, bytes of it published
          npkts,                \* fragments begun so far
          idx,                  \* read(): index of the current packet, -1 for none
          torn                  \* history: what pkt_next ran into, see Found

vars == <<data, pread, pwrite, wbuf, wdone, npkts, idx, torn>>

PKTHDRSIZE == 3
PKT_READY == 0
PKT_DISPOSED == 1

avail == Avail(pread, pwrite)
At(i) == data[i % Size]
PktLen(i) == At(i) * Radix + At(i + 1)
PktStatus(i) == At(i + 2)

Payload(k, len) == [o \in 1 .. len |-> 10 * k + o]
Payloads == {Payload(k, len) : k \in 1 .. MaxPkts, len \in FragLens}

\* Types; the indices that pkt_next and the clean-up loop compute stay inside
\* the array.
TypeOK ==
  /\ data \in [Index -> Nat] /\ pread \in Index /\ pwrite \in Index
  /\ wbuf \in Seq(Nat) /\ wdone \in 0 .. Len(wbuf)
  /\ npkts \in 0 .. MaxPkts
  /\ idx \in Index \cup {-1}
  /\ torn \in {"no", "half", "full"}

Init ==
  /\ data = [i \in Index |-> 0] /\ pread = 0 /\ pwrite = 0
  /\ wbuf = <<>> /\ wdone = 0 /\ npkts = 0
  /\ idx = -1 /\ torn = "no"

-----------------------------------------------------------------------------
(* dvb_ca_en50221_read_data / dvb_ringbuffer_pkt_write.                    *)

\* The fragment fits and has at least 2 bytes: read_data checks both.
PktWriteBegin(len) ==
  /\ wbuf = <<>> /\ npkts < MaxPkts
  /\ Free(pread, pwrite) >= LinkBufSize + PKTHDRSIZE
  /\ wbuf' = <<len \div Radix, len % Radix, PKT_READY>> \o Payload(npkts + 1, len)
  /\ npkts' = npkts + 1
  /\ UNCHANGED <<data, pread, pwrite, wdone, idx, torn>>

\* How much the next store to pwrite publishes: one header byte (WRITE_BYTE), or
\* a memcpy of the payload.
Chunk == IF wdone < PKTHDRSIZE THEN 1 ELSE FirstPart(pwrite, Len(wbuf) - wdone)

PktWriteStep ==
  /\ wbuf # <<>>
  /\ data' = [i \in Index |-> IF i \in pwrite .. pwrite + Chunk - 1
                                THEN wbuf[wdone + 1 + (i - pwrite)] ELSE data[i]]
  /\ pwrite' = (pwrite + Chunk) % Size
  /\ IF wdone + Chunk = Len(wbuf)
       THEN wbuf' = <<>> /\ wdone' = 0
       ELSE wdone' = wdone + Chunk /\ UNCHANGED wbuf
  /\ UNCHANGED <<pread, npkts, idx, torn>>

-----------------------------------------------------------------------------
(* The reader.                                                             *)

\* Mutant: what lies before i is not counted.
ConsumedNothing(i) == 0

\* consumed: how far i is from pread, in the unsigned arithmetic of the code.
Consumed(i) == (IF i >= pread THEN i - pread ELSE Word + i - pread) % Size

\* The while loop of dvb_ringbuffer_pkt_next from index i on; n is what the loop
\* has added to consumed.
PktScan(i) ==
  LET scan[n \in Nat] ==
        LET at == (i + n) % Size
        IN  IF avail - (Consumed(i) + n) > PKTHDRSIZE
              THEN IF PktStatus(at) = PKT_READY
                     THEN at ELSE scan[n + PktLen(at) + PKTHDRSIZE]
              ELSE -1
  IN  scan[0]

\* The index where pkt_next begins to look.
Behind(i) == IF i = -1 THEN pread ELSE (i + PktLen(i) + PKTHDRSIZE) % Size

PktNext(i) == PktScan(Behind(i))

\* idx = dvb_ringbuffer_pkt_next(i).  Its result is not to be trusted when it is the
\* packet that the thread is writing, after the first memcpy of a payload that goes
\* round the end of the array; or when it looks behind the last packet of a ring that
\* is full to the last byte, where idx - pread is -1.
Found(i) ==
  /\ idx' = PktNext(i)
  /\ torn' = IF wdone > PKTHDRSIZE /\ idx' = (pwrite - wdone) % Size THEN "half"
             ELSE IF avail = Size - 1 /\ Behind(i) = pwrite /\ pwrite < pread THEN "full"
             ELSE torn

\* Mutant: only the disposed packet itself is skipped.
PktCleanOne(d) ==
  IF Avail(pread, pwrite) > PKTHDRSIZE /\ d[(pread + 2) % Size] = PKT_DISPOSED
    THEN (pread + d[pread] * Radix + d[(pread + 1) % Size] + PKTHDRSIZE) % Size
    ELSE pread

\* The clean-up loop of dvb_ringbuffer_pkt_dispose over the bytes d: the new pread.
\* n is what the loop has skipped so far.
PktClean(d) ==
  LET clean[n \in Nat] ==
        LET p == (pread + n) % Size
        IN  IF Avail(p, pwrite) > PKTHDRSIZE /\ d[(p + 2) % Size] = PKT_DISPOSED
              THEN clean[n + d[p] * Radix + d[(p + 1) % Size] + PKTHDRSIZE]
              ELSE p
  IN  clean[0]

\* A read() starts: dvb_ringbuffer_pkt_next(-1).
ReadFirst ==
  /\ Found(-1)
  /\ UNCHANGED <<data, pread, pwrite, wbuf, wdone, npkts>>

\* A fragment of another connection is stepped over.
ReadSkip ==
  /\ idx # -1
  /\ Found(idx)
  /\ UNCHANGED <<data, pread, pwrite, wbuf, wdone, npkts>>

\* A fragment was copied out: pkt_next, then dvb_ringbuffer_pkt_dispose.
ReadDispose ==
  /\ idx # -1
  /\ Found(idx)
  /\ data' = [data EXCEPT ![(idx + 2) % Size] = PKT_DISPOSED]
  /\ pread' = PktClean(data')
  /\ UNCHANGED <<pwrite, wbuf, wdone, npkts>>

Next ==
  \/ \E len \in FragLens : PktWriteBegin(len)
  \/ PktWriteStep
  \/ ReadFirst
  \/ ReadSkip
  \/ ReadDispose

Spec == Init /\ [][Next]_vars

-----------------------------------------------------------------------------
\* The packets in n bytes of ring from index i on, as [at, payload, ready].
Parse(i, n) ==
  LET parse[m \in 0 .. n] ==
        IF m < PKTHDRSIZE THEN <<>>
        ELSE LET at == (i + n - m) % Size
                 len == PktLen(at)
             IN  << [at |-> at,
                     payload |-> [o \in 1 .. len |-> At(at + 2 + o)],
                     ready |-> PktStatus(at) = PKT_READY] >>
                 \o (IF m - len - PKTHDRSIZE >= 0 THEN parse[m - len - PKTHDRSIZE] ELSE <<>>)
  IN  parse[n]

\* The packets that are completely in the ring.
Packets == Parse(pread, avail - wdone)

\* The abstract list and cursor.
list == LET pkts == Packets
        IN  [j \in DOMAIN pkts |-> [payload |-> pkts[j].payload, ready |-> pkts[j].ready]]
cur == LET pkts == Packets
           here == {j \in DOMAIN pkts : pkts[j].at = idx}
       IN  IF here = {} THEN 0 ELSE CHOOSE j \in here : TRUE

PktList == INSTANCE DvbPktList

\* Without a lock, as long as torn allows it: the bytes in the ring behave as the
\* list of packets.  A packet appears as a whole, pkt_next finds the next ready one
\* across the wrap and the unsigned subtraction, a disposed packet in the middle is
\* skipped, its space comes back once everything before it is gone, payloads stay
\* intact.
ImplementsPktList ==
  PktList!Init /\ [][torn' # "no" \/ PktList!Next]_<<list, cur>>

IsPacket(i) == LET pkts == Packets IN \E j \in DOMAIN pkts : pkts[j].at = i

\* What pkt_next returns is the index of a packet that is completely in the ring, so
\* that pkt_read copies only bytes the thread has stored.  The two cases that Found
\* records are the ones in which it is not, and in both it is not, although
\* dvb_ringbuffer.h promises a packet index, and wants no lock for one reader and one
\* writer.  No index leaves the array (TypeOK).
NextIsPacket ==
  /\ TypeOK
  /\ idx # -1 => (IsPacket(idx) <=> torn = "no")

\* For TLC: nothing is claimed of what follows.
Untorn == torn = "no"
=============================================================================
