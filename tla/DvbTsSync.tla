----------------------------- MODULE DvbTsSync ------------------------------
(***************************************************************************)
(* Packet synchronisation of the software demultiplexer: dvb_dmx_swfilter  *)
(* and dvb_dmx_swfilter_204 in dvb_demux.c.  A driver hands over the       *)
(* stream in pieces of any size; the demultiplexer finds the packets in    *)
(* them, keeping the beginning of a packet in tsbuf until the rest comes.  *)
(*                                                                         *)
(* A byte is a sync byte (0x47), an inverted sync byte (0xB8, which only   *)
(* the 204 byte mode takes for one), or another.  Bytes are named by their *)
(* position in the stream and a packet by the position of its first byte:  *)
(* what tsbuf holds is always a contiguous part of the stream, which       *)
(* BufferHolds states.  The packet's way to the feeds is in Dmxdev.        *)
(***************************************************************************)
EXTENDS Integers, Sequences, SequencesExt

CONSTANTS PktSize,     \* 188 or 204
          Streams      \* the streams to be received, see IsStream

ASSUME PktSizeAssumption == PktSize \in Nat \ {0, 1}

Sync == "0x47"
Inverted == "0xB8"
Other == "other"

\* data: the bytes; packets: where the packets that were sent begin; rs: 204 byte mode.
IsStream(st) ==
  /\ st.data \in Seq({Sync, Inverted, Other}) /\ st.rs \in BOOLEAN
  /\ \A s \in st.packets :
       /\ s \in Nat /\ s + PktSize <= Len(st.data)
       /\ st.data[s + 1] = Sync \/ (st.rs /\ st.data[s + 1] = Inverted)
       /\ \A t \in st.packets : s < t => s + PktSize <= t

ASSUME StreamsAssumption == \A st \in Streams : IsStream(st)

VARIABLES
  stream,       \* the stream that is received
  base, count,  \* the piece buf being filtered: it begins at base, count bytes long
  p,            \* local: position in buf
  pc,           \* "idle", "tsbuf" or "loop"
  tsbuf,        \* position of the first byte in demux->tsbuf
  tsbuf0,       \* demux->tsbuf[0]
  tsbufp,
  delivered     \* history: the packets given to dvb_dmx_swfilter_packet

vars == <<stream, base, count, p, pc, tsbuf, tsbuf0, tsbufp, delivered>>

Byte(n) == stream.data[n + 1]

IsSync(b) == b = Sync \/ (stream.rs /\ b = Inverted)

\* Types; tsbuf never holds a whole packet between calls.
TypeOK ==
  /\ IsStream(stream) /\ pc \in {"idle", "tsbuf", "loop"}
  /\ base \in 0 .. Len(stream.data) /\ count \in 0 .. Len(stream.data) - base /\ p \in 0 .. count
  /\ tsbuf \in 0 .. Len(stream.data) /\ tsbufp \in 0 .. PktSize - 1
  /\ tsbuf0 \in {Sync, Inverted, Other}
  /\ delivered \in Seq(0 .. Len(stream.data) - PktSize)

Init ==
  /\ stream \in Streams
  /\ base = 0 /\ count = 0 /\ p = 0 /\ pc = "idle"
  /\ tsbuf = 0 /\ tsbuf0 = Other /\ tsbufp = 0
  /\ delivered = <<>>

-----------------------------------------------------------------------------
\* A driver calls with the next n bytes; demux->lock is held until pc is idle again.
Filter(n) ==
  /\ pc = "idle" /\ base + count + n <= Len(stream.data)
  /\ base' = base + count /\ count' = n /\ p' = 0
  /\ pc' = IF tsbufp # 0 THEN "tsbuf" ELSE "loop"
  /\ UNCHANGED <<stream, tsbuf, tsbuf0, tsbufp, delivered>>

\* The packet begun before is still not whole.
FillTsbuf ==
  /\ pc = "tsbuf" /\ count < PktSize - tsbufp
  /\ tsbufp' = tsbufp + count
  /\ p' = 0 /\ pc' = "idle"
  /\ UNCHANGED <<stream, base, count, tsbuf, tsbuf0, delivered>>

\* It is whole now; its first byte is double-checked.
FinishTsbuf ==
  /\ pc = "tsbuf" /\ count >= PktSize - tsbufp
  /\ delivered' = IF tsbuf0 = Sync THEN Append(delivered, tsbuf) ELSE delivered
  /\ tsbufp' = 0
  /\ p' = PktSize - tsbufp /\ pc' = "loop"
  /\ UNCHANGED <<stream, base, count, tsbuf, tsbuf0>>

\* The first sync byte in buf from start on, or count.
FirstSync(start) ==
  LET found == {i \in start .. count - 1 : IsSync(Byte(base + i))}
  IN  IF found = {} THEN count ELSE CHOOSE i \in found : \A j \in found : i <= j

\* Mutants: the bytes skipped are never taken back; they are even if there are none.
FindNextForward(start) == FirstSync(start)

FindNextAlways(start) ==
  LET pos == FirstSync(start)
      backtrack == pos - PktSize
  IN  IF backtrack >= 0 /\ IsSync(Byte(base + backtrack)) THEN backtrack ELSE pos

\* find_next_packet.  Bytes without a sync byte may be the tail of a packet whose
\* beginning was taken for a part of another: its end is where the next begins.
FindNextPacket(start) ==
  LET pos == FirstSync(start)
      backtrack == pos - PktSize
  IN  IF pos > start /\ backtrack >= 0 /\ IsSync(Byte(base + backtrack)) THEN backtrack ELSE pos

\* A packet in buf.  An inverted sync byte is put right in a copy of it, in tsbuf.
Packet ==
  LET q == FindNextPacket(p) IN
  /\ pc = "loop" /\ q < count /\ count - q >= PktSize
  /\ IF Byte(base + q) = Inverted THEN tsbuf' = base + q /\ tsbuf0' = Sync ELSE UNCHANGED <<tsbuf, tsbuf0>>
  /\ delivered' = Append(delivered, base + q)
  /\ p' = q + PktSize
  /\ UNCHANGED <<stream, base, count, pc, tsbufp>>

\* Mutant: the inverted sync byte is left as it is.
RestInverted ==
  LET q == FindNextPacket(p) IN
  /\ pc = "loop" /\ (q >= count \/ count - q < PktSize)
  /\ IF q < count
       THEN tsbuf' = base + q /\ tsbuf0' = Byte(base + q) /\ tsbufp' = count - q
       ELSE UNCHANGED <<tsbuf, tsbuf0, tsbufp>>
  /\ p' = 0 /\ pc' = "idle"
  /\ UNCHANGED <<stream, base, count, delivered>>

\* Mutant: the rest is dropped.
RestDropped ==
  LET q == FindNextPacket(p) IN
  /\ pc = "loop" /\ (q >= count \/ count - q < PktSize)
  /\ p' = 0 /\ pc' = "idle"
  /\ UNCHANGED <<stream, base, count, tsbuf, tsbuf0, tsbufp, delivered>>

\* What is left of buf from the next sync byte on is kept.
Rest ==
  LET q == FindNextPacket(p) IN
  /\ pc = "loop" /\ (q >= count \/ count - q < PktSize)
  /\ IF q < count
       THEN /\ tsbuf' = base + q /\ tsbufp' = count - q
            /\ tsbuf0' = IF IsSync(Byte(base + q)) THEN Sync ELSE Byte(base + q)
       ELSE UNCHANGED <<tsbuf, tsbuf0, tsbufp>>
  /\ p' = 0 /\ pc' = "idle"
  /\ UNCHANGED <<stream, base, count, delivered>>

Next ==
  \/ \E n \in 0 .. Len(stream.data) : Filter(n)
  \/ FillTsbuf
  \/ FinishTsbuf
  \/ Packet
  \/ Rest

Spec == Init /\ [][Next]_vars

-----------------------------------------------------------------------------
\* The bytes filtered so far: all of them, whole calls.
Filtered == base + count

\* Between calls tsbuf holds the end of what was filtered, up to its last byte, and
\* begins with a sync byte ("tsbuf[0] is now 0x47"): the double check never drops a
\* packet.  It never holds a whole one (TypeOK).
BufferHolds ==
  /\ TypeOK
  /\ pc = "idle" /\ tsbufp # 0 => tsbuf + tsbufp = Filtered /\ tsbuf0 = Sync /\ IsSync(Byte(tsbuf))

\* Where sync bytes are, apart from the first bytes of the packets sent.
InPackets(n) == \E s \in stream.packets : s < n /\ n < s + PktSize
Strays == {n \in 0 .. Len(stream.data) - 1 : IsSync(Byte(n)) /\ n \notin stream.packets}
CleanOutside == \A n \in Strays : InPackets(n)
CleanPackets == \A n \in Strays : ~InPackets(n)

Unbroken == \A s, t \in stream.packets : s < t => \E u \in stream.packets : u = s + PktSize
First(s) == \A t \in stream.packets : s <= t

\* Packets sent that have been filtered to the end.
Passed == {s \in stream.packets : s + PktSize <= Filtered}

\* Every packet is delivered as soon as its last byte has come, however the stream is
\* cut, when there are no sync bytes between the packets: those inside of packets
\* never lead the demultiplexer away from them.
AllDelivered ==
  pc = "idle" /\ CleanOutside => \A s \in Passed : Contains(delivered, s)

\* No packet is delivered twice or after a later one, whatever is received: taking
\* bytes back never reaches the beginning of the packet before.  And nothing else is
\* delivered, when sync bytes are where packets begin and nowhere else.
OnceInOrder ==
  /\ \A i \in 1 .. Len(delivered) - 1 : delivered[i] < delivered[i + 1]
  /\ Strays = {} => \A i \in DOMAIN delivered : delivered[i] \in stream.packets

\* When reception begins in the middle of something with sync bytes in it, but the
\* packets that follow have none and no gaps, then at most the first of these is lost,
\* whatever the cuts; and it is not lost when it and all before it come in one piece
\* and another follows it, from which the way back leads to it.
Relocks ==
  pc = "idle" /\ CleanPackets /\ Unbroken =>
    \A s \in Passed : \/ Contains(delivered, s)
                      \/ First(s) /\ (base > 0 \/ s + PktSize \notin stream.packets)

\* The loop, which runs with demux->lock held, gets ahead in every turn although
\* find_next_packet may go back: every call returns.
LoopAdvances == [][pc = "loop" /\ pc' = "loop" => p' > p]_vars
=============================================================================
