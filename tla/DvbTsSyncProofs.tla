-------------------------- MODULE DvbTsSyncProofs --------------------------
(***************************************************************************)
(* For every packet size, every stream and every way to cut it: what the   *)
(* software demultiplexer delivers.                                        *)
(***************************************************************************)
EXTENDS DvbTsSync, WellFoundedInduction, TLAPS

\* How far the search has come: no byte before it will be looked at again, but for
\* those that find_next_packet takes back.
Frontier == IF pc = "loop" THEN base + p
            ELSE IF tsbufp # 0 THEN tsbuf
            ELSE base + count

\* What has been filtered when pc is idle, and what had been before the call
\* when it is not.
Before == IF pc = "idle" THEN Filtered ELSE base

\* tsbuf is in use between calls and at the beginning of one, and then holds the
\* end of what came before.
BufferInv ==
  /\ pc = "loop" => tsbufp = 0
  /\ pc = "tsbuf" => tsbufp # 0 /\ p = 0
  /\ tsbufp # 0 => tsbuf + tsbufp = Before /\ tsbuf0 = Sync /\ IsSync(Byte(tsbuf))

\* What was delivered begins with a sync byte, in order, and lies before the
\* frontier.
DeliveredInv ==
  /\ \A i \in 1 .. Len(delivered) - 1 : delivered[i] < delivered[i + 1]
  /\ \A i \in 1 .. Len(delivered) :
       /\ IsSync(Byte(delivered[i]))
       /\ pc = "loop" => delivered[i] + PktSize <= Frontier
       /\ pc # "loop" => delivered[i] + PktSize <= Before
       /\ tsbufp # 0 => delivered[i] < tsbuf

SyncInv == TypeOK /\ BufferInv /\ DeliveredInv

\* The search has come to f, and d has been delivered: packets that begin before f
\* end there and are in d.
CleanAt(f, d) == \A s \in stream.packets : s < f => s + PktSize <= f /\ Contains(d, s)

\* Without sync bytes between the packets, and what is in tsbuf is one of them.
CleanInv ==
  CleanOutside => CleanAt(Frontier, delivered) /\ (tsbufp # 0 => tsbuf \in stream.packets)

\* The same, but for the first packet: f may be inside it, or it was missed in a
\* call that began at b.
RelockAt(f, d, b) ==
  \A s \in stream.packets :
    s < f => \/ s + PktSize <= f /\ Contains(d, s)
             \/ First(s) /\ f < s + PktSize
             \/ First(s) /\ (b > 0 \/ s + PktSize \notin stream.packets)

RelockInv == CleanPackets /\ Unbroken => RelockAt(Frontier, delivered, base)

-----------------------------------------------------------------------------
(* Least and greatest positions, bytes, sequences.                         *)

\* A set of natural numbers has a least element.
LEMMA LeastExists ==
  ASSUME NEW S, S \subseteq Nat, S # {}
  PROVE  \E i \in S : \A j \in S : i <= j
  <1>1. PICK i \in S : \A j \in S : ~(<<j, i>> \in OpToRel(<, Nat))
    BY NatLessThanWellFounded, WFMin
  <1>2. ASSUME NEW j \in S PROVE i <= j
    <2>1. j \in Nat /\ i \in Nat
      OBVIOUS
    <2>2. j < i => <<j, i>> \in OpToRel(<, Nat)
      BY <2>1 DEF OpToRel
    <2>3. ~(j < i)
      BY <1>1, <2>2
    <2> QED
      BY <2>1, <2>3
  <1> QED
    BY <1>2

\* A set of natural numbers none of which is above n has a greatest element.
LEMMA GreatestExists ==
  ASSUME NEW S, S \subseteq Nat, S # {}, NEW n \in Nat, \A i \in S : i <= n
  PROVE  \E i \in S : \A j \in S : j <= i
  <1> DEFINE D == {n - i : i \in S}
  <1>1. \A i \in S : i \in Nat /\ n - i \in Nat
    OBVIOUS
  <1>2. D \subseteq Nat /\ D # {}
    BY <1>1
  <1>3. PICK d \in D : \A c \in D : d <= c
    BY <1>2, LeastExists
  <1>4. PICK i \in S : d = n - i
    OBVIOUS
  <1>5. ASSUME NEW j \in S PROVE j <= i
    <2>1. n - j \in D
      OBVIOUS
    <2>2. n - i <= n - j
      BY <1>3, <1>4, <2>1
    <2> QED
      BY <1>1, <2>2
  <1> QED
    BY <1>5

\* What was delivered stays delivered, and the new packet is.
LEMMA ContainsAppend ==
  ASSUME NEW S, NEW d \in Seq(S), NEW x \in S
  PROVE  /\ Contains(Append(d, x), x)
         /\ \A s : Contains(d, s) => Contains(Append(d, x), s)
  BY DEF Contains

\* The packets of the stream: where they are, and that they do not overlap.
LEMMA PacketFacts ==
  ASSUME IsStream(stream)
  PROVE  /\ Len(stream.data) \in Nat
         /\ \A s \in stream.packets :
              /\ s \in Nat /\ s + PktSize <= Len(stream.data) /\ IsSync(Byte(s))
              /\ \A t \in stream.packets : s < t => s + PktSize <= t
  BY PktSizeAssumption DEF IsStream, IsSync, Byte

-----------------------------------------------------------------------------
(* The search: find_next_packet.                                           *)

\* The loop of find_next_packet stops at a sync byte or at the end of the piece, and
\* there is none where it has been.
LEMMA FirstSyncFacts ==
  ASSUME TypeOK, NEW start \in 0 .. count
  PROVE  /\ FirstSync(start) \in start .. count
         /\ FirstSync(start) < count => IsSync(Byte(base + FirstSync(start)))
         /\ \A i \in start .. FirstSync(start) - 1 : ~IsSync(Byte(base + i))
  <1> DEFINE found == {i \in start .. count - 1 : IsSync(Byte(base + i))}
  <1>1. count \in Nat /\ start \in Nat
    BY DEF TypeOK
  <1>2. CASE found = {}
    <2>1. FirstSync(start) = count
      BY <1>2 DEF FirstSync
    <2> QED
      BY <1>1, <1>2, <2>1
  <1>3. CASE found # {}
    <2>1. found \subseteq Nat
      BY <1>1
    <2>2. \E i \in found : \A j \in found : i <= j
      BY <1>3, <2>1, LeastExists
    <2>3. /\ FirstSync(start) \in found
          /\ \A j \in found : FirstSync(start) <= j
      BY <1>3, <2>2 DEF FirstSync
    <2>4. FirstSync(start) \in start .. count - 1 /\ IsSync(Byte(base + FirstSync(start)))
      BY <2>3
    <2>5. ASSUME NEW i \in start .. FirstSync(start) - 1 PROVE ~IsSync(Byte(base + i))
      <3>1. i \in start .. count - 1 /\ ~(FirstSync(start) <= i)
        BY <1>1, <2>4
      <3> QED
        BY <2>3, <3>1
    <2> QED
      BY <1>1, <2>4, <2>5
  <1> QED
    BY <1>2, <1>3

\* find_next_packet returns where the search stopped, or goes back by a packet length
\* to a sync byte; it goes back if it can.
LEMMA FindNextFacts ==
  ASSUME TypeOK,
         NEW pos, pos = FirstSync(p),
         NEW q, q = FindNextPacket(p)
  PROVE  /\ pos \in p .. count
         /\ pos < count => IsSync(Byte(base + pos))
         /\ \A i \in p .. pos - 1 : ~IsSync(Byte(base + i))
         /\ q \in 0 .. count /\ q + PktSize > p
         /\ q < count => IsSync(Byte(base + q))
         /\ \/ q = pos /\ ~(pos > p /\ pos - PktSize >= 0 /\ IsSync(Byte(base + (pos - PktSize))))
            \/ q = pos - PktSize /\ pos > p /\ q < pos
  <1>1. count \in Nat /\ p \in 0 .. count /\ base \in Nat /\ PktSize \in Nat /\ PktSize > 0
    BY PktSizeAssumption DEF TypeOK
  <1>2. /\ pos \in p .. count
        /\ pos < count => IsSync(Byte(base + pos))
        /\ \A i \in p .. pos - 1 : ~IsSync(Byte(base + i))
    BY <1>1, FirstSyncFacts
  <1>3. q = IF pos > p /\ pos - PktSize >= 0 /\ IsSync(Byte(base + (pos - PktSize)))
              THEN pos - PktSize ELSE pos
    BY DEF FindNextPacket
  <1>4. CASE pos > p /\ pos - PktSize >= 0 /\ IsSync(Byte(base + (pos - PktSize)))
    BY <1>1, <1>2, <1>3, <1>4
  <1>5. CASE ~(pos > p /\ pos - PktSize >= 0 /\ IsSync(Byte(base + (pos - PktSize))))
    BY <1>1, <1>2, <1>3, <1>5
  <1> QED
    BY <1>4, <1>5

-----------------------------------------------------------------------------
(* SyncInv is inductive: one lemma per action.                             *)

\* The numbers that TypeOK gives, for the arithmetic below.
LEMMA Numbers ==
  ASSUME TypeOK
  PROVE  /\ PktSize \in Nat /\ PktSize > 1
         /\ Len(stream.data) \in Nat /\ base \in Nat /\ count \in Nat /\ p \in Nat
         /\ base + count <= Len(stream.data) /\ p <= count
         /\ tsbuf \in Nat /\ tsbufp \in Nat /\ tsbufp < PktSize
  <1>1. PktSize \in Nat /\ PktSize > 1
    BY PktSizeAssumption
  <1>2. Len(stream.data) \in Nat
    BY PacketFacts DEF TypeOK
  <1>3. /\ base \in 0 .. Len(stream.data) /\ count \in 0 .. Len(stream.data) - base /\ p \in 0 .. count
        /\ tsbuf \in 0 .. Len(stream.data) /\ tsbufp \in 0 .. PktSize - 1
    BY DEF TypeOK
  <1> QED
    BY <1>1, <1>2, <1>3

\* A sequence over S has its elements in S.
LEMMA ElementFacts ==
  \A S : \A s \in Seq(S) : Len(s) \in Nat /\ \A i \in 1 .. Len(s) : s[i] \in S
  OBVIOUS

\* What was delivered are positions of packets in the stream.
LEMMA Positions ==
  ASSUME TypeOK
  PROVE  /\ Len(delivered) \in Nat
         /\ \A i \in 1 .. Len(delivered) : delivered[i] \in 0 .. Len(stream.data) - PktSize
  <1>1. delivered \in Seq(0 .. Len(stream.data) - PktSize)
    BY DEF TypeOK
  <1> QED
    BY <1>1, ElementFacts, ZenonT(30)

\* The start of a call preserves SyncInv: what was filtered before is now before base.
LEMMA FilterSync ==
  ASSUME SyncInv, NEW n \in 0 .. Len(stream.data), Filter(n)
  PROVE  SyncInv'
  <1>1. TypeOK /\ BufferInv /\ DeliveredInv /\ pc = "idle"
    BY DEF SyncInv, Filter
  <1>2. n \in Nat /\ base' = base + count /\ count' = n /\ p' = 0 /\ base + count + n <= Len(stream.data)
    BY <1>1, Numbers DEF Filter
  <1>3. TypeOK'
    BY <1>1, <1>2, Numbers DEF TypeOK, Filter
  <1>4. BufferInv'
    BY <1>1, <1>2, Numbers DEF BufferInv, Before, Filtered, Filter, IsSync, Byte
  <1>5. DeliveredInv'
    BY <1>1, <1>2, Numbers DEF DeliveredInv, BufferInv, Frontier, Before, Filtered, Filter, IsSync, Byte
  <1> QED
    BY <1>3, <1>4, <1>5 DEF SyncInv

\* More bytes for tsbuf preserve SyncInv: it still ends where the piece ends.
LEMMA FillSync ==
  ASSUME SyncInv, FillTsbuf
  PROVE  SyncInv'
  <1>1. TypeOK /\ BufferInv /\ DeliveredInv /\ pc = "tsbuf"
    BY DEF SyncInv, FillTsbuf
  <1>2. TypeOK'
    BY <1>1, Numbers DEF TypeOK, FillTsbuf
  <1>3. BufferInv'
    BY <1>1, Numbers DEF BufferInv, Before, Filtered, FillTsbuf, IsSync, Byte
  <1>4. DeliveredInv'
    BY SMTT(30), <1>1, Numbers, Positions DEF DeliveredInv, BufferInv, Before, Filtered, FillTsbuf, IsSync, Byte
  <1> QED
    BY <1>2, <1>3, <1>4 DEF SyncInv

\* The delivery of a packet at x, later than all before, preserves the order.
LEMMA AppendOrder ==
  ASSUME TypeOK, NEW x \in 0 .. Len(stream.data) - PktSize, IsSync(Byte(x)),
         \A i \in 1 .. Len(delivered) - 1 : delivered[i] < delivered[i + 1],
         \A i \in 1 .. Len(delivered) : IsSync(Byte(delivered[i])) /\ delivered[i] < x,
         delivered' = Append(delivered, x)
  PROVE  /\ delivered' \in Seq(0 .. Len(stream.data) - PktSize)
         /\ Len(delivered') = Len(delivered) + 1
         /\ \A i \in 1 .. Len(delivered') - 1 : delivered'[i] < delivered'[i + 1]
         /\ \A i \in 1 .. Len(delivered') : delivered'[i] \in Int /\ IsSync(Byte(delivered'[i])) /\ delivered'[i] <= x
  <1>1. delivered \in Seq(0 .. Len(stream.data) - PktSize) /\ Len(delivered) \in Nat
    BY DEF TypeOK
  <1>2. /\ Len(delivered') = Len(delivered) + 1
        /\ \A i \in 1 .. Len(delivered) : delivered'[i] = delivered[i]
        /\ delivered'[Len(delivered) + 1] = x
    BY <1>1
  <1>3. ASSUME NEW i \in 1 .. Len(delivered')
        PROVE  delivered'[i] \in Int /\ IsSync(Byte(delivered'[i])) /\ delivered'[i] <= x
    <2>1. CASE i = Len(delivered) + 1
      BY <1>2, <2>1
    <2>2. CASE i \in 1 .. Len(delivered)
      <3>1. delivered'[i] = delivered[i] /\ delivered[i] \in 0 .. Len(stream.data) - PktSize
        BY <1>2, <2>2, Positions
      <3>2. IsSync(Byte(delivered[i])) /\ delivered[i] < x
        BY <2>2
      <3> QED
        BY <3>1, <3>2, Numbers
    <2> QED
      BY <1>1, <1>2, <2>1, <2>2
  <1>4. ASSUME NEW i \in 1 .. Len(delivered') - 1 PROVE delivered'[i] < delivered'[i + 1]
    <2>1. CASE i = Len(delivered)
      BY <1>1, <1>2, <2>1
    <2>2. CASE i \in 1 .. Len(delivered) - 1
      BY <1>1, <1>2, <2>2
    <2> QED
      BY <1>1, <1>2, <2>1, <2>2
  <1> QED
    BY <1>1, <1>2, <1>3, <1>4

\* The packet that tsbuf completes preserves SyncInv: it is later than what was
\* delivered, and ends where the loop begins.
LEMMA FinishSync ==
  ASSUME SyncInv, FinishTsbuf
  PROVE  /\ SyncInv' /\ delivered' = Append(delivered, tsbuf)
         /\ tsbuf \in 0 .. Len(stream.data) - PktSize /\ Frontier' = tsbuf + PktSize
  <1>1. /\ TypeOK /\ BufferInv /\ DeliveredInv /\ pc = "tsbuf"
        /\ tsbufp # 0 /\ tsbuf0 = Sync /\ IsSync(Byte(tsbuf)) /\ tsbuf + tsbufp = base
    BY DEF SyncInv, FinishTsbuf, BufferInv, Before
  <1>2. delivered' = Append(delivered, tsbuf) /\ tsbuf \in 0 .. Len(stream.data) - PktSize
    BY <1>1, Numbers DEF FinishTsbuf
  <1>3. base + (PktSize - tsbufp) = tsbuf + PktSize
    BY <1>1, Numbers
  <1>4. /\ delivered' \in Seq(0 .. Len(stream.data) - PktSize)
        /\ \A i \in 1 .. Len(delivered') - 1 : delivered'[i] < delivered'[i + 1]
        /\ \A i \in 1 .. Len(delivered') :
             delivered'[i] \in Int /\ IsSync(Byte(delivered'[i])) /\ delivered'[i] <= tsbuf
    BY <1>1, <1>2, AppendOrder DEF DeliveredInv
  <1>5. TypeOK'
    BY <1>1, <1>4, Numbers DEF TypeOK, FinishTsbuf
  <1>6. BufferInv'
    BY <1>1 DEF BufferInv, FinishTsbuf
  <1>7. Frontier' = tsbuf + PktSize
    BY <1>1, <1>3, Numbers DEF Frontier, FinishTsbuf
  <1>8. DeliveredInv'
    <2>1. pc' = "loop" /\ tsbufp' = 0 /\ stream' = stream
      BY DEF FinishTsbuf
    <2>2. ASSUME NEW i \in 1 .. Len(delivered') PROVE delivered'[i] + PktSize <= Frontier'
      <3>1. delivered'[i] \in Int /\ delivered'[i] <= tsbuf /\ tsbuf \in Int /\ PktSize \in Int
        BY <1>1, <1>4, Numbers
      <3> QED
        BY <1>7, <3>1
    <2> QED
      BY <1>4, <2>1, <2>2 DEF DeliveredInv, IsSync, Byte
  <1> QED
    BY <1>2, <1>5, <1>6, <1>7, <1>8 DEF SyncInv

\* A packet in the piece preserves SyncInv: going back never reaches the one before.
LEMMA PacketSync ==
  ASSUME SyncInv, Packet
  PROVE  SyncInv'
  <1> DEFINE q == FindNextPacket(p)
  <1>1. /\ TypeOK /\ BufferInv /\ DeliveredInv /\ pc = "loop" /\ tsbufp = 0
        /\ q < count /\ count - q >= PktSize
    BY DEF SyncInv, Packet, BufferInv
  <1>2. q \in 0 .. count /\ q + PktSize > p /\ IsSync(Byte(base + q))
    BY <1>1, FindNextFacts
  <1> HIDE DEF q
  <1>3. base + q \in 0 .. Len(stream.data) - PktSize
    BY <1>1, <1>2, Numbers
  <1>4. \A i \in 1 .. Len(delivered) : IsSync(Byte(delivered[i])) /\ delivered[i] < base + q
    BY SMTT(30), <1>1, <1>2, Numbers, Positions DEF DeliveredInv, Frontier
  <1>5. delivered' = Append(delivered, base + q) /\ p' = q + PktSize
    BY DEF Packet, q
  <1>6. /\ delivered' \in Seq(0 .. Len(stream.data) - PktSize)
        /\ \A i \in 1 .. Len(delivered') - 1 : delivered'[i] < delivered'[i + 1]
        /\ \A i \in 1 .. Len(delivered') :
             delivered'[i] \in Int /\ IsSync(Byte(delivered'[i])) /\ delivered'[i] <= base + q
    BY <1>1, <1>2, <1>3, <1>4, <1>5, AppendOrder DEF DeliveredInv
  <1>7. TypeOK'
    <2>1. tsbuf' \in 0 .. Len(stream.data) /\ tsbuf0' \in {Sync, Inverted, Other}
      BY SMTT(30), <1>1, <1>3, Numbers DEF Packet, TypeOK, q
    <2>2. p' \in 0 .. count
      BY <1>1, <1>2, <1>5, Numbers
    <2> QED
      BY <1>1, <1>6, <2>1, <2>2 DEF TypeOK, Packet
  <1>8. BufferInv'
    BY <1>1 DEF BufferInv, Packet
  <1>9. Frontier' = base + q + PktSize
    BY <1>1, <1>2, <1>5, Numbers DEF Frontier, Packet
  <1>10. DeliveredInv'
    <2>1. pc' = "loop" /\ tsbufp' = 0 /\ stream' = stream
      BY <1>1 DEF Packet
    <2>2. ASSUME NEW i \in 1 .. Len(delivered') PROVE delivered'[i] + PktSize <= Frontier'
      <3>1. delivered'[i] \in Int /\ delivered'[i] <= base + q /\ base + q \in Int /\ PktSize \in Int
        BY <1>1, <1>3, <1>6, Numbers
      <3> QED
        BY <1>9, <3>1
    <2> QED
      BY <1>6, <2>1, <2>2 DEF DeliveredInv, IsSync, Byte
  <1> QED
    BY <1>7, <1>8, <1>10 DEF SyncInv

\* The end of a call preserves SyncInv: what is kept begins with a sync byte and is
\* later than what was delivered.
LEMMA RestSync ==
  ASSUME SyncInv, Rest
  PROVE  SyncInv'
  <1> DEFINE q == FindNextPacket(p)
  <1>1. /\ TypeOK /\ BufferInv /\ DeliveredInv /\ pc = "loop" /\ tsbufp = 0
        /\ q >= count \/ count - q < PktSize
    BY DEF SyncInv, Rest, BufferInv
  <1>2. q \in 0 .. count /\ q + PktSize > p /\ (q < count => IsSync(Byte(base + q)))
    BY <1>1, FindNextFacts
  <1>3. IF q < count THEN tsbuf' = base + q /\ tsbufp' = count - q /\ tsbuf0' = Sync
                     ELSE UNCHANGED <<tsbuf, tsbuf0, tsbufp>>
    BY <1>2 DEF Rest
  <1> HIDE DEF q
  <1>4. pc' = "idle" /\ p' = 0 /\ UNCHANGED <<stream, base, count, delivered>>
    BY DEF Rest
  <1>5. TypeOK'
    BY SMTT(30), <1>1, <1>2, <1>3, <1>4, Numbers DEF TypeOK
  <1>6. /\ Before' = base + count
        /\ tsbufp' # 0 => q < count /\ tsbuf' = base + q /\ tsbufp' = count - q /\ tsbuf0' = Sync
    BY <1>1, <1>3, <1>4 DEF Before, Filtered
  <1>7. BufferInv'
    BY <1>2, <1>4, <1>6, Numbers, <1>1 DEF BufferInv, IsSync, Byte
  <1>8. DeliveredInv'
    <2>1. \A i \in 1 .. Len(delivered) : delivered[i] + PktSize <= base + p
      BY <1>1 DEF DeliveredInv, Frontier
    <2>2. \A i \in 1 .. Len(delivered) : delivered[i] + PktSize <= base + count /\ delivered[i] < base + q
      BY SMTT(30), <1>1, <1>2, <2>1, Numbers, Positions
    <2> QED
      BY <1>1, <1>4, <1>6, <2>2 DEF DeliveredInv, IsSync, Byte
  <1> QED
    BY <1>5, <1>7, <1>8 DEF SyncInv

\* SyncInv holds of every reachable state.
THEOREM SyncInvariant == Spec => []SyncInv
  <1>1. Init => SyncInv
    BY PktSizeAssumption, StreamsAssumption
       DEF Init, SyncInv, TypeOK, BufferInv, DeliveredInv, IsStream
  <1>2. SyncInv /\ [Next]_vars => SyncInv'
    <2> SUFFICES ASSUME SyncInv, [Next]_vars PROVE SyncInv'
      OBVIOUS
    <2>1. CASE \E n \in 0 .. Len(stream.data) : Filter(n)
      BY <2>1, FilterSync
    <2>2. CASE FillTsbuf
      BY <2>2, FillSync
    <2>3. CASE FinishTsbuf
      BY <2>3, FinishSync
    <2>4. CASE Packet
      BY <2>4, PacketSync
    <2>5. CASE Rest
      BY <2>5, RestSync
    <2>6. CASE UNCHANGED vars
      BY <2>6 DEF vars, SyncInv, TypeOK, BufferInv, DeliveredInv, Frontier, Before, Filtered, IsSync, Byte
    <2> QED
      BY <2>1, <2>2, <2>3, <2>4, <2>5, <2>6 DEF Next
  <1> QED
    BY <1>1, <1>2, PTL DEF Spec

\* tsbuf always holds the end of what was filtered and begins with 0x47: the double
\* check in dvb_dmx_swfilter never drops a packet, and copies stay inside tsbuf.
THEOREM BufferCorrect == Spec => []BufferHolds
  <1>1. SyncInv => BufferHolds
    BY DEF SyncInv, BufferInv, BufferHolds, Before
  <1> QED
    BY <1>1, SyncInvariant, PTL

\* No packet is delivered twice or out of order, whatever is received; without stray
\* sync bytes nothing but packets is.
THEOREM DeliveredCorrect == Spec => []OnceInOrder
  <1>1. SyncInv => OnceInOrder
    <2> SUFFICES ASSUME SyncInv, Strays = {}, NEW i \in DOMAIN delivered
                 PROVE  delivered[i] \in stream.packets
      BY DEF SyncInv, DeliveredInv, OnceInOrder
    <2>1. TypeOK /\ DeliveredInv /\ i \in 1 .. Len(delivered)
      BY DEF SyncInv, TypeOK
    <2>2. delivered[i] \in 0 .. Len(stream.data) - 1 /\ IsSync(Byte(delivered[i]))
      <3>1. delivered[i] \in 0 .. Len(stream.data) - PktSize
        BY <2>1, Numbers, Positions
      <3> QED
        BY <2>1, <3>1, Numbers DEF DeliveredInv
    <2> QED
      BY <2>2 DEF Strays
  <1> QED
    BY <1>1, SyncInvariant, PTL

\* Every turn of the loop gets ahead, although find_next_packet may go back: a call
\* of the filter, which runs with demux->lock held, returns.
THEOREM LoopCorrect == Spec => LoopAdvances
  <1>1. SyncInv /\ [Next]_vars => [pc = "loop" /\ pc' = "loop" => p' > p]_vars
    <2> SUFFICES ASSUME SyncInv, Next, pc = "loop", pc' = "loop"
                 PROVE  p' > p
      OBVIOUS
    <2>1. Packet
      BY DEF Next, Filter, FillTsbuf, FinishTsbuf, Rest
    <2>2. FindNextPacket(p) + PktSize > p
      BY FindNextFacts DEF SyncInv
    <2> QED
      BY <2>1, <2>2 DEF Packet
  <1> QED
    BY <1>1, SyncInvariant, PTL DEF Spec, LoopAdvances

-----------------------------------------------------------------------------
(* Which packets are found.  The frontier moves in two ways: over bytes    *)
(* without a sync byte, and over a packet that is delivered.               *)

\* Skipping: no packet begins where there is no sync byte.
LEMMA CleanSkip ==
  ASSUME IsStream(stream), NEW f \in Nat, NEW x \in Nat, f <= x, NEW d, NEW c,
         \A n \in f .. x - 1 : ~IsSync(Byte(n)),
         \A s : Contains(d, s) => Contains(c, s),
         CleanAt(f, d)
  PROVE  CleanAt(x, c)
  <1> SUFFICES ASSUME NEW s \in stream.packets, s < x
               PROVE  s + PktSize <= x /\ Contains(c, s)
    BY DEF CleanAt
  <1>1. s \in Nat /\ IsSync(Byte(s)) /\ PktSize \in Nat
    BY PacketFacts, PktSizeAssumption
  <1>2. s < f
    BY <1>1
  <1> QED
    BY <1>1, <1>2 DEF CleanAt

\* Taking: the first sync byte after the frontier is the beginning of a packet, as
\* the other sync bytes lie behind one.
LEMMA CleanSync ==
  ASSUME IsStream(stream), CleanOutside, NEW x \in Nat, x < Len(stream.data), IsSync(Byte(x)),
         NEW d, CleanAt(x, d)
  PROVE  x \in stream.packets
  <1> SUFFICES ASSUME x \notin stream.packets
               PROVE  FALSE
    OBVIOUS
  <1>1. x \in Strays
    BY PacketFacts DEF Strays
  <1>2. PICK s \in stream.packets : s < x /\ x < s + PktSize
    BY <1>1 DEF CleanOutside, InPackets
  <1>3. s + PktSize <= x /\ s + PktSize \in Nat
    BY <1>2, PacketFacts, PktSizeAssumption DEF CleanAt
  <1> QED
    BY <1>2, <1>3

LEMMA CleanTake ==
  ASSUME IsStream(stream), NEW x \in stream.packets, NEW d, NEW c,
         Contains(c, x), \A s : Contains(d, s) => Contains(c, s),
         CleanAt(x, d)
  PROVE  CleanAt(x + PktSize, c)
  <1> SUFFICES ASSUME NEW s \in stream.packets, s < x + PktSize
               PROVE  s + PktSize <= x + PktSize /\ Contains(c, s)
    BY DEF CleanAt
  <1>1. s \in Nat /\ x \in Nat /\ PktSize \in Nat /\ (x < s => x + PktSize <= s)
    BY PacketFacts, PktSizeAssumption
  <1>2. CASE s < x
    BY <1>1, <1>2 DEF CleanAt
  <1>3. CASE s = x
    BY <1>1, <1>3
  <1> QED
    BY <1>1, <1>2, <1>3

\* The same for streams with sync bytes before the packets.  Skipping: when the
\* search ends at the end of the packet it was inside, that one must be taken back;
\* it can be unless it began before the call.
LEMMA RelockSkip ==
  ASSUME IsStream(stream), NEW f \in Nat, NEW x \in Nat, f <= x, NEW d, NEW c, NEW b \in Nat,
         \A n \in f .. x - 1 : ~IsSync(Byte(n)),
         \A s : Contains(d, s) => Contains(c, s),
         \A s \in stream.packets : s < f /\ f < s + PktSize /\ s + PktSize = x /\ s >= b => Contains(c, s),
         RelockAt(f, d, b)
  PROVE  RelockAt(x, c, b)
  <1> SUFFICES ASSUME NEW s \in stream.packets, s < x
               PROVE  \/ s + PktSize <= x /\ Contains(c, s)
                      \/ First(s) /\ x < s + PktSize
                      \/ First(s) /\ (b > 0 \/ s + PktSize \notin stream.packets)
    BY DEF RelockAt
  <1>1. s \in Nat /\ IsSync(Byte(s)) /\ PktSize \in Nat
    BY PacketFacts, PktSizeAssumption
  <1>2. s < f
    BY <1>1
  <1>3. CASE s + PktSize <= f /\ Contains(d, s)
    BY <1>1, <1>3
  <1>4. CASE First(s) /\ f < s + PktSize
    <2>1. CASE x < s + PktSize
      BY <1>4, <2>1
    <2>2. CASE x = s + PktSize /\ s >= b
      BY <1>1, <1>2, <1>4, <2>2
    <2>3. CASE x = s + PktSize /\ s < b
      BY <1>1, <1>4, <2>3
    <2>4. CASE x > s + PktSize
      <3>1. s + PktSize \in f .. x - 1
        BY <1>1, <1>4, <2>4
      <3>2. s + PktSize \notin stream.packets
        BY <3>1, PacketFacts
      <3> QED
        BY <1>4, <3>2
    <2> QED
      BY <1>1, <2>1, <2>2, <2>3, <2>4
  <1>5. CASE First(s) /\ (b > 0 \/ s + PktSize \notin stream.packets)
    BY <1>5
  <1> QED
    BY <1>2, <1>3, <1>4, <1>5 DEF RelockAt

\* In an unbroken run of packets without stray sync bytes, a sync byte that is not
\* the beginning of a packet comes before all packets that come after it.
LEMMA StrayBeforeFirst ==
  ASSUME IsStream(stream), CleanPackets, Unbroken,
         NEW x \in Nat, x < Len(stream.data), IsSync(Byte(x)), x \notin stream.packets,
         NEW t \in stream.packets, NEW s \in stream.packets, x < s
  PROVE  x < t
  <1> SUFFICES ASSUME ~(x < t)
               PROVE  FALSE
    OBVIOUS
  <1>1. s \in Nat /\ t \in Nat /\ PktSize \in Nat /\ PktSize > 0
    BY PacketFacts, PktSizeAssumption
  <1> DEFINE S == {u \in stream.packets : u <= x}
  <1>2. S \subseteq Nat /\ t \in S
    BY <1>1, PacketFacts
  <1>3. PICK u \in S : \A v \in S : v <= u
    BY <1>2, GreatestExists
  <1>4. u \in stream.packets /\ u \in Nat /\ u <= x /\ u < s
    BY <1>1, <1>2
  <1>5. u + PktSize \in stream.packets
    BY <1>4 DEF Unbroken
  <1>6. ~(u + PktSize <= x)
    BY <1>1, <1>3, <1>4, <1>5
  <1>7. u < x /\ x < u + PktSize
    BY <1>1, <1>4, <1>6
  <1>8. x \in Strays /\ InPackets(x)
    BY <1>4, <1>7, PacketFacts DEF Strays, InPackets
  <1> QED
    BY <1>8 DEF CleanPackets

\* Taking: a sync byte is not inside a packet; what is delivered is the next packet,
\* or something before the first, in which then the frontier may end up.
LEMMA RelockTake ==
  ASSUME IsStream(stream), CleanPackets, Unbroken,
         NEW x \in Nat, x < Len(stream.data), IsSync(Byte(x)), NEW d, NEW c, NEW b,
         Contains(c, x), \A s : Contains(d, s) => Contains(c, s),
         RelockAt(x, d, b)
  PROVE  RelockAt(x + PktSize, c, b)
  <1> SUFFICES ASSUME NEW s \in stream.packets, s < x + PktSize
               PROVE  \/ s + PktSize <= x + PktSize /\ Contains(c, s)
                      \/ First(s) /\ x + PktSize < s + PktSize
                      \/ First(s) /\ (b > 0 \/ s + PktSize \notin stream.packets)
    BY DEF RelockAt
  <1>1. s \in Nat /\ PktSize \in Nat /\ PktSize > 0
    BY PacketFacts, PktSizeAssumption
  <1>2. CASE s < x
    <2>1. ~(x < s + PktSize)
      <3> SUFFICES ASSUME x < s + PktSize
                   PROVE  FALSE
        OBVIOUS
      <3>1. x \notin stream.packets
        BY <1>1, <1>2, PacketFacts
      <3>2. x \in Strays /\ InPackets(x)
        BY <1>2, <3>1, PacketFacts DEF Strays, InPackets
      <3> QED
        BY <3>2 DEF CleanPackets
    <2> QED
      BY <1>1, <1>2, <2>1 DEF RelockAt
  <1>3. CASE s = x
    BY <1>1, <1>3
  <1>4. CASE s > x
    <2>1. x \notin stream.packets
      BY <1>1, <1>4, PacketFacts
    <2>2. ASSUME NEW t \in stream.packets PROVE s <= t
      <3>1. x < t /\ t \in Nat
        BY <1>4, <2>1, StrayBeforeFirst, PacketFacts
      <3>2. t < s => t + PktSize <= s
        BY PacketFacts
      <3> QED
        BY <1>1, <3>1, <3>2
    <2> QED
      BY <1>1, <1>4, <2>2 DEF First
  <1> QED
    BY <1>1, <1>2, <1>3, <1>4

-----------------------------------------------------------------------------
(* CleanInv and RelockInv are inductive, relative to SyncInv.              *)

\* Of the frontier after a step, in terms of the stream before it.
FoundAfter ==
  /\ CleanOutside =>
       CleanAt(Frontier', delivered') /\ (tsbufp' # 0 => tsbuf' \in stream.packets)
  /\ CleanPackets /\ Unbroken => RelockAt(Frontier', delivered', base')

\* The stream does not change: FoundAfter is the invariant after the step.
LEMMA FoundPrimed ==
  ASSUME FoundAfter, stream' = stream
  PROVE  CleanInv' /\ RelockInv'
  <1>1. CleanInv'
    BY DEF FoundAfter, CleanInv, CleanOutside, CleanAt, Strays, InPackets, IsSync, Byte
  <1>2. RelockInv'
    BY DEF FoundAfter, RelockInv, CleanPackets, Unbroken, RelockAt, First, Strays, InPackets, IsSync, Byte
  <1> QED
    BY <1>1, <1>2

\* The start of a call leaves the frontier where it is.
LEMMA FilterFound ==
  ASSUME SyncInv, CleanInv, RelockInv, NEW n \in 0 .. Len(stream.data), Filter(n)
  PROVE  CleanInv' /\ RelockInv'
  <1>1. TypeOK /\ pc = "idle" /\ stream' = stream /\ delivered' = delivered /\ tsbuf' = tsbuf /\ tsbufp' = tsbufp
    BY DEF SyncInv, Filter
  <1>2. Frontier' = Frontier
    BY <1>1, Numbers DEF Frontier, Filter
  <1>3. base \in Nat /\ base' \in Nat /\ base' >= base
    BY <1>1, Numbers DEF Filter
  <1>4. RelockAt(Frontier, delivered, base) => RelockAt(Frontier, delivered, base')
    BY <1>3 DEF RelockAt
  <1>5. FoundAfter
    BY <1>1, <1>2, <1>4 DEF FoundAfter, CleanInv, RelockInv
  <1> QED
    BY <1>1, <1>5, FoundPrimed

\* So does filling tsbuf.
LEMMA FillFound ==
  ASSUME SyncInv, CleanInv, RelockInv, FillTsbuf
  PROVE  CleanInv' /\ RelockInv'
  <1>1. /\ TypeOK /\ pc = "tsbuf" /\ tsbufp # 0
        /\ stream' = stream /\ delivered' = delivered /\ tsbuf' = tsbuf /\ base' = base
    BY DEF SyncInv, BufferInv, FillTsbuf
  <1>2. Frontier' = Frontier
    BY <1>1, Numbers DEF Frontier, FillTsbuf
  <1>3. FoundAfter
    BY <1>1, <1>2 DEF FoundAfter, CleanInv, RelockInv
  <1> QED
    BY <1>1, <1>3, FoundPrimed

\* The packet in tsbuf is taken.
LEMMA FinishFound ==
  ASSUME SyncInv, CleanInv, RelockInv, FinishTsbuf
  PROVE  CleanInv' /\ RelockInv'
  <1>1. /\ TypeOK /\ IsStream(stream) /\ pc = "tsbuf" /\ tsbufp # 0 /\ IsSync(Byte(tsbuf))
        /\ stream' = stream /\ base' = base /\ tsbufp' = 0
    BY DEF SyncInv, TypeOK, BufferInv, FinishTsbuf
  <1>2. /\ delivered' = Append(delivered, tsbuf) /\ tsbuf \in 0 .. Len(stream.data) - PktSize
        /\ Frontier' = tsbuf + PktSize /\ Frontier = tsbuf
    BY <1>1, FinishSync DEF Frontier
  <1>3. Contains(delivered', tsbuf) /\ \A s : Contains(delivered, s) => Contains(delivered', s)
    BY <1>1, <1>2, ContainsAppend DEF TypeOK
  <1>4. tsbuf \in Nat /\ tsbuf < Len(stream.data)
    BY <1>1, <1>2, Numbers
  <1>5. ASSUME CleanOutside PROVE CleanAt(tsbuf + PktSize, delivered')
    <2>1. CleanAt(tsbuf, delivered) /\ tsbuf \in stream.packets
      BY <1>1, <1>2, <1>5 DEF CleanInv
    <2> QED
      BY <1>1, <1>3, <2>1, CleanTake
  <1>6. ASSUME CleanPackets, Unbroken PROVE RelockAt(tsbuf + PktSize, delivered', base)
    <2>1. RelockAt(tsbuf, delivered, base)
      BY <1>2, <1>6 DEF RelockInv
    <2> QED
      BY <1>1, <1>3, <1>4, <1>6, <2>1, RelockTake
  <1>7. FoundAfter
    BY <1>1, <1>2, <1>5, <1>6 DEF FoundAfter
  <1> QED
    BY <1>1, <1>7, FoundPrimed

\* Where find_next_packet goes ahead, the frontier is moved there over bytes that are
\* not sync bytes, and there was nothing to take back.
LEMMA AheadFound ==
  ASSUME SyncInv, CleanInv, RelockInv, pc = "loop",
         NEW q, q = FindNextPacket(p), q = FirstSync(p)
  PROVE  /\ CleanOutside => CleanAt(base + q, delivered)
         /\ CleanPackets /\ Unbroken => RelockAt(base + q, delivered, base)
  <1>1. TypeOK /\ IsStream(stream) /\ Frontier = base + p
    BY DEF SyncInv, TypeOK, Frontier
  <1>2. /\ q \in p .. count /\ \A i \in p .. q - 1 : ~IsSync(Byte(base + i))
        /\ ~(q > p /\ q - PktSize >= 0 /\ IsSync(Byte(base + (q - PktSize))))
    <2>1. /\ q \in p .. count /\ \A i \in p .. q - 1 : ~IsSync(Byte(base + i))
          /\ \/ ~(q > p /\ q - PktSize >= 0 /\ IsSync(Byte(base + (q - PktSize))))
             \/ q = q - PktSize
      BY <1>1, FindNextFacts
    <2> QED
      BY <1>1, <2>1, Numbers
  <1>3. base + p \in Nat /\ base + q \in Nat /\ base + p <= base + q
    <2>1. q \in p .. count
      BY <1>2
    <2> QED
      BY <1>1, <2>1, Numbers
  <1>4. ASSUME NEW n \in base + p .. (base + q) - 1 PROVE ~IsSync(Byte(n))
    <2>1. q \in p .. count
      BY <1>2
    <2>2. n - base \in p .. q - 1 /\ base + (n - base) = n
      BY SMTT(30), <1>1, <2>1, Numbers
    <2> QED
      BY <1>2, <2>2
  <1>5. ASSUME CleanOutside PROVE CleanAt(base + q, delivered)
    BY <1>1, <1>3, <1>4, <1>5, CleanSkip DEF CleanInv
  <1>6. ASSUME NEW s \in stream.packets, base + p < s + PktSize, s + PktSize = base + q, s >= base
        PROVE  Contains(delivered, s)
    <2>1. s \in Nat /\ IsSync(Byte(s))
      BY <1>1, PacketFacts
    <2>2. PktSize \in Nat /\ base \in Nat /\ p \in Nat /\ q \in Int
      BY <1>1, <1>2, Numbers
    <2>3. q > p /\ q - PktSize >= 0 /\ base + (q - PktSize) = s
      BY <1>6, <2>1, <2>2
    <2> QED
      BY <1>2, <2>1, <2>3
  <1>7. ASSUME CleanPackets, Unbroken PROVE RelockAt(base + q, delivered, base)
    <2>1. RelockAt(base + p, delivered, base) /\ base \in Nat
      BY <1>1, <1>7, Numbers DEF RelockInv
    <2> QED
      BY <1>1, <1>3, <1>4, <1>6, <2>1, RelockSkip
  <1> QED
    BY <1>5, <1>7

\* A packet in the piece: the next one, or one that is taken back.
LEMMA PacketFound ==
  ASSUME SyncInv, CleanInv, RelockInv, Packet
  PROVE  CleanInv' /\ RelockInv'
  <1> DEFINE q == FindNextPacket(p)
             pos == FirstSync(p)
  <1>1. /\ TypeOK /\ IsStream(stream) /\ pc = "loop" /\ tsbufp = 0 /\ Frontier = base + p
        /\ q < count /\ count - q >= PktSize
    BY DEF SyncInv, TypeOK, Packet, BufferInv, Frontier
  <1>2. /\ pos \in p .. count /\ \A i \in p .. pos - 1 : ~IsSync(Byte(base + i))
        /\ q \in 0 .. count /\ IsSync(Byte(base + q))
        /\ q = pos \/ (q = pos - PktSize /\ q < pos)
    BY <1>1, FindNextFacts
  <1>3. /\ stream' = stream /\ base' = base /\ tsbufp' = 0 /\ pc' = "loop"
        /\ delivered' = Append(delivered, base + q) /\ p' = q + PktSize
    BY <1>1 DEF Packet
  <1>4. q = pos => /\ CleanOutside => CleanAt(base + q, delivered)
                   /\ CleanPackets /\ Unbroken => RelockAt(base + q, delivered, base)
    BY <1>1, AheadFound
  <1> HIDE DEF q, pos
  <1>0. /\ PktSize \in Nat /\ PktSize > 1 /\ Len(stream.data) \in Nat /\ base \in Nat /\ count \in Nat
        /\ p \in Nat /\ base + count <= Len(stream.data) /\ q \in Nat /\ pos \in Nat /\ p <= pos
    <2>1. count \in Nat /\ p \in Nat
      BY <1>1, Numbers
    <2> QED
      BY <1>1, <1>2, <2>1, Numbers
  <1>5. /\ base + q \in 0 .. Len(stream.data) - PktSize /\ base + q < Len(stream.data)
        /\ Frontier' = (base + q) + PktSize
    BY <1>0, <1>1, <1>3 DEF Frontier
  <1>6. Contains(delivered', base + q) /\ \A s : Contains(delivered, s) => Contains(delivered', s)
    BY <1>1, <1>3, <1>5, ContainsAppend DEF TypeOK
  <1>7. CASE q = pos
    <2>1. ASSUME CleanOutside PROVE CleanAt((base + q) + PktSize, delivered')
      <3>1. CleanAt(base + q, delivered) /\ base + q \in Nat
        BY <1>4, <1>5, <1>7, <2>1
      <3>2. base + q \in stream.packets
        BY <1>1, <1>2, <1>5, <2>1, <3>1, CleanSync
      <3> QED
        BY <1>1, <1>6, <3>1, <3>2, CleanTake
    <2>2. ASSUME CleanPackets, Unbroken PROVE RelockAt((base + q) + PktSize, delivered', base)
      <3>1. RelockAt(base + q, delivered, base) /\ base + q \in Nat
        BY <1>4, <1>5, <1>7, <2>2
      <3> QED
        BY <1>1, <1>2, <1>5, <1>6, <2>2, <3>1, RelockTake
    <2>3. FoundAfter
      BY <1>3, <1>5, <2>1, <2>2 DEF FoundAfter
    <2> QED
      BY <1>3, <2>3, FoundPrimed
  <1>8. CASE q = pos - PktSize
    <2>1. /\ Frontier' = base + pos /\ base + p \in Nat /\ base + pos \in Nat /\ base + p <= base + pos
          /\ base \in Nat
      BY <1>0, <1>5, <1>8
    <2>2. ASSUME NEW n \in base + p .. (base + pos) - 1 PROVE ~IsSync(Byte(n))
      <3>1. n - base \in p .. pos - 1 /\ base + (n - base) = n
        BY SMTT(30), <1>1, <1>2, Numbers
      <3> QED
        BY <1>2, <3>1
    <2>3. ASSUME CleanOutside PROVE CleanAt(base + pos, delivered')
      BY <1>1, <1>6, <2>1, <2>2, <2>3, CleanSkip DEF CleanInv
    <2>4. ASSUME NEW s \in stream.packets, s + PktSize = base + pos PROVE Contains(delivered', s)
      <3>1. s \in Nat
        BY <1>1, PacketFacts
      <3>2. s = base + q
        BY <1>8, <1>0, <2>4, <3>1
      <3> QED
        BY <1>6, <3>2
    <2>5. ASSUME CleanPackets, Unbroken PROVE RelockAt(base + pos, delivered', base)
      <3>1. RelockAt(base + p, delivered, base)
        BY <1>1, <2>5 DEF RelockInv
      <3> QED
        BY <1>1, <1>6, <2>1, <2>2, <2>4, <3>1, RelockSkip
    <2>6. FoundAfter
      BY <1>3, <2>1, <2>3, <2>5 DEF FoundAfter
    <2> QED
      BY <1>3, <2>6, FoundPrimed
  <1> QED
    BY <1>2, <1>7, <1>8

\* The end of a call: what is kept is not taken back, since all of it would be there.
LEMMA RestFound ==
  ASSUME SyncInv, CleanInv, RelockInv, Rest
  PROVE  CleanInv' /\ RelockInv'
  <1> DEFINE q == FindNextPacket(p)
             pos == FirstSync(p)
  <1>1. /\ TypeOK /\ IsStream(stream) /\ pc = "loop" /\ tsbufp = 0
        /\ q >= count \/ count - q < PktSize
    BY DEF SyncInv, TypeOK, Rest, BufferInv
  <1>2. /\ pos \in p .. count /\ q \in 0 .. count
        /\ q < count => IsSync(Byte(base + q))
        /\ q = pos \/ (q = pos - PktSize /\ q < pos)
    BY <1>1, FindNextFacts
  <1>3. /\ stream' = stream /\ base' = base /\ count' = count /\ pc' = "idle" /\ delivered' = delivered
        /\ q < count => tsbuf' = base + q /\ tsbufp' = count - q
        /\ ~(q < count) => tsbufp' = 0
    BY <1>1 DEF Rest
  <1>4. q = pos
    <2> HIDE DEF q, pos
    <2> QED
      BY <1>1, <1>2, Numbers
  <1>5. /\ CleanOutside => CleanAt(base + q, delivered)
        /\ CleanPackets /\ Unbroken => RelockAt(base + q, delivered, base)
    BY <1>1, <1>4, AheadFound
  <1> HIDE DEF q, pos
  <1>6. Frontier' = base + q /\ (tsbufp' # 0 => q < count /\ tsbuf' = base + q)
    BY <1>1, <1>2, <1>3, Numbers DEF Frontier
  <1>7. ASSUME CleanOutside, q < count PROVE base + q \in stream.packets
    <2>1. base + q \in Nat /\ base + q < Len(stream.data)
      BY SMTT(30), <1>1, <1>2, <1>7, Numbers
    <2> QED
      BY <1>1, <1>2, <1>5, <1>7, <2>1, CleanSync
  <1>8. FoundAfter
    BY <1>3, <1>5, <1>6, <1>7 DEF FoundAfter
  <1> QED
    BY <1>3, <1>8, FoundPrimed

\* The frontier has left no packet behind, but for the first where sync bytes come
\* before it.
THEOREM FoundInvariant == Spec => [](SyncInv /\ CleanInv /\ RelockInv)
  <1>1. Init => CleanInv /\ RelockInv
    <2> SUFFICES ASSUME Init PROVE CleanInv /\ RelockInv
      OBVIOUS
    <2>1. Frontier = 0 /\ tsbufp = 0 /\ IsStream(stream)
      BY StreamsAssumption DEF Init, Frontier
    <2>2. \A s \in stream.packets : s \in Nat /\ ~(s < 0)
      BY <2>1, PacketFacts
    <2> QED
      BY <2>1, <2>2 DEF CleanInv, RelockInv, CleanAt, RelockAt
  <1>2. SyncInv /\ CleanInv /\ RelockInv /\ [Next]_vars => CleanInv' /\ RelockInv'
    <2> SUFFICES ASSUME SyncInv, CleanInv, RelockInv, [Next]_vars PROVE CleanInv' /\ RelockInv'
      OBVIOUS
    <2>1. CASE \E n \in 0 .. Len(stream.data) : Filter(n)
      BY <2>1, FilterFound
    <2>2. CASE FillTsbuf
      BY <2>2, FillFound
    <2>3. CASE FinishTsbuf
      BY <2>3, FinishFound
    <2>4. CASE Packet
      BY <2>4, PacketFound
    <2>5. CASE Rest
      BY <2>5, RestFound
    <2>6. CASE UNCHANGED vars
      <3>1. FoundAfter /\ stream' = stream
        BY <2>6 DEF vars, FoundAfter, CleanInv, RelockInv, Frontier
      <3> QED
        BY <3>1, FoundPrimed
    <2> QED
      BY <2>1, <2>2, <2>3, <2>4, <2>5, <2>6 DEF Next
  <1> QED
    BY <1>1, <1>2, SyncInvariant, PTL DEF Spec

\* Without sync bytes between packets every packet is delivered with the call that
\* brings its last byte, whatever the cuts and whatever is inside of the packets.
THEOREM AllDeliveredCorrect == Spec => []AllDelivered
  <1>1. SyncInv /\ CleanInv => AllDelivered
    <2> SUFFICES ASSUME SyncInv, CleanInv, pc = "idle", CleanOutside, NEW s \in Passed
                 PROVE  Contains(delivered, s)
      BY DEF AllDelivered
    <2>1. TypeOK /\ IsStream(stream) /\ CleanAt(Frontier, delivered)
      BY DEF SyncInv, TypeOK, CleanInv
    <2>2. s \in stream.packets /\ s \in Nat /\ s + PktSize <= base + count
      BY <2>1, PacketFacts DEF Passed, Filtered
    <2>3. s < Frontier
      <3>1. CASE tsbufp = 0
        BY <2>1, <2>2, <3>1, Numbers DEF Frontier
      <3>2. CASE tsbufp # 0
        <4>1. tsbuf + tsbufp = base + count
          BY <3>2 DEF SyncInv, BufferInv, Before, Filtered
        <4> QED
          BY <2>1, <2>2, <3>2, <4>1, Numbers DEF Frontier
      <3> QED
        BY <3>1, <3>2
    <2> QED
      BY <2>1, <2>2, <2>3 DEF CleanAt
  <1> QED
    BY <1>1, FoundInvariant, PTL

\* With sync bytes before an unbroken run of packets that have none inside, at most
\* the first packet is lost, and it is not if it and all before it come in one piece
\* and another follows.
THEOREM RelocksCorrect == Spec => []Relocks
  <1>1. SyncInv /\ RelockInv => Relocks
    <2> SUFFICES ASSUME SyncInv, RelockInv, pc = "idle", CleanPackets, Unbroken, NEW s \in Passed
                 PROVE  \/ Contains(delivered, s)
                        \/ First(s) /\ (base > 0 \/ s + PktSize \notin stream.packets)
      BY DEF Relocks
    <2>1. TypeOK /\ IsStream(stream) /\ RelockAt(Frontier, delivered, base)
      BY DEF SyncInv, TypeOK, RelockInv
    <2>2. s \in stream.packets /\ s \in Nat /\ s + PktSize <= base + count
      BY <2>1, PacketFacts DEF Passed, Filtered
    <2>3. CASE tsbufp = 0
      <3>1. Frontier = base + count
        BY <2>3 DEF Frontier
      <3>2. s < Frontier /\ ~(Frontier < s + PktSize)
        BY <2>1, <2>2, <3>1, Numbers
      <3> QED
        BY <2>1, <2>2, <3>2 DEF RelockAt
    <2>4. CASE tsbufp # 0
      <3>1. tsbuf + tsbufp = base + count /\ IsSync(Byte(tsbuf)) /\ Frontier = tsbuf
        BY <2>4 DEF SyncInv, BufferInv, Before, Filtered, Frontier
      <3>2. s < tsbuf /\ tsbuf \in 0 .. Len(stream.data) - 1
        BY <2>1, <2>2, <2>4, <3>1, Numbers
      <3>3. ~(tsbuf < s + PktSize)
        <4> SUFFICES ASSUME tsbuf < s + PktSize PROVE FALSE
          OBVIOUS
        <4>1. tsbuf \notin stream.packets
          <5>1. tsbuf \in stream.packets => s + PktSize <= tsbuf
            BY <2>1, <2>2, <3>2, PacketFacts
          <5>2. s + PktSize \in Int /\ tsbuf \in Int
            BY <2>1, <2>2, Numbers
          <5> QED
            BY <5>1, <5>2
        <4>2. tsbuf \in Strays /\ InPackets(tsbuf)
          BY <2>2, <3>1, <3>2, <4>1 DEF Strays, InPackets
        <4> QED
          BY <4>2 DEF CleanPackets
      <3> QED
        BY <2>1, <2>2, <3>1, <3>2, <3>3 DEF RelockAt
    <2> QED
      BY <2>3, <2>4
  <1> QED
    BY <1>1, FoundInvariant, PTL
=============================================================================
