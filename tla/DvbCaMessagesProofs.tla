------------------------ MODULE DvbCaMessagesProofs -------------------------
(***************************************************************************)
(* For any number of slots, connections and fragments: what read() makes   *)
(* of the fragments that the thread puts into rx_buffer.                   *)
(***************************************************************************)
EXTENDS DvbCaMessages, FiniteSetTheorems, NaturalsInduction, WellFoundedInduction, TLAPS

\* A message is known by its first fragment.
FragInv ==
  \A s \in Slots : \A p \in DOMAIN rx[s] :
    LET m == rx[s][p].msg
    IN  m <= p /\ rx[s][m].msg = m /\ rx[s][m].conn = rx[s][p].conn

\* Of a connection, message follows message: a fragment belongs to the one before it,
\* unless that was the last of its message or the message was cut.
OrderInv ==
  \A s \in Slots : \A p, q \in DOMAIN rx[s] :
    p < q /\ rx[s][p].conn = rx[s][q].conn =>
      \/ rx[s][q].msg = rx[s][p].msg /\ ~rx[s][p].last
      \/ /\ rx[s][q].msg > p
         /\ \/ rx[s][p].msg \in cut[s]
            \/ \E r \in p .. q - 1 : rx[s][r].msg = rx[s][p].msg /\ rx[s][r].last

\* What was disposed of before the read() in progress, if any.
Old(s) == IF s = rd.slot THEN gone[s] \ Got ELSE gone[s]

\* It was disposed of message by message, and not before the end of a message was there.
WholeInv ==
  \A s \in Slots : \A p \in DOMAIN rx[s] : p \in Old(s) /\ rx[s][p].msg \notin cut[s] =>
    /\ \A q \in Message(s, rx[s][p].msg) : q \in Old(s)
    /\ \E q \in Message(s, rx[s][p].msg) : rx[s][q].last

\* The read() in progress takes the fragments of its connection one after the other.
TakenInv ==
  LET s == rd.slot IN
  /\ rd.pc \notin {"loop", "done"} => rd.got = <<>>
  /\ Got \subseteq gone[s]
  /\ \A p \in Got : rx[s][p].conn = rd.conn
  /\ \A i, j \in DOMAIN rd.got : i < j => rd.got[i] < rd.got[j]
  /\ \A p \in DOMAIN rx[s], q \in Got : rx[s][p].conn = rd.conn /\ p < q => p \in gone[s]
  /\ \A p, q \in Got : p < q /\ rx[s][p].msg \notin cut[s] => rx[s][q].msg = rx[s][p].msg

\* It goes on until it has taken the last of a message.
LoopInv ==
  LET s == rd.slot IN
  rd.pc = "loop" =>
    /\ \A p \in Got : ~rx[s][p].last
    /\ rd.idx # 0 =>
         /\ rd.idx \in DOMAIN rx[s] \ gone[s]
         /\ \A p \in Got : p < rd.idx
         /\ \A p \in DOMAIN rx[s] \ gone[s] : p < rd.idx => rx[s][p].conn # rd.conn

DoneInv ==
  LET s == rd.slot IN
  rd.pc = "done" =>
    /\ \E e \in Got : rx[s][e].last /\ \A p \in Got : p <= e
    /\ \A p \in Got : rx[s][p].msg \notin cut[s] => Message(s, rx[s][p].msg) \subseteq Got

\* The header read is that of a fragment that read() takes, and its end the real one.
HdrInv == hdr # "none" => rd.pc = "loop" /\ Mine /\ (hdr = "last" <=> rx[rd.slot][rd.idx].last)

FragmentsInv == TypeOK /\ FragInv /\ OrderInv /\ WholeInv /\ TakenInv /\ LoopInv /\ DoneInv /\ HdrInv

\* The slot that io_read_condition comes to after n others.
TurnAt(b, n) == (b + n) % SlotCount
SlotAt(n) == TurnAt(next_read_slot, n)

\* It began at slot b: at next_read_slot, unless CA_RESET has set that since.
ScanFrom(b) ==
  /\ rd.slot = TurnAt(b, rd.seen)
  /\ rd.queued /\ ~moved => b = next_read_slot
  /\ rd.pc = "scan" /\ rd.conn # None =>
       \E n \in 0 .. rd.seen - 1 : \E p \in DOMAIN rx[TurnAt(b, n)] : rx[TurnAt(b, n)][p].conn = rd.conn
ScanInv ==
  /\ rd.pc \in {"scan", "asleep"} => \E b \in Slots : ScanFrom(b)
  /\ rd.pc = "asleep" => rd.queued /\ rd.seen = 0
  /\ rd.queued => rd.pc \in {"scan", "asleep"}

\* Another slot has an id in common with slot s.
Shared(s) ==
  \E t \in Slots \ {s} : \E p \in DOMAIN rx[t], q \in DOMAIN rx[s] : rx[t][p].conn = rx[s][q].conn

\* The end of the message that read() takes is ahead of it.
AheadInv ==
  LET s == rd.slot IN
  /\ rd.pc = "first" => Shared(s) \/ (PktNext(s, 0) # 0 /\ Complete(s, Connection(s, None)))
  /\ rd.pc = "loop" =>
       \/ Shared(s)
       \/ /\ rd.idx # 0
          /\ \E p \in DOMAIN rx[s] \ gone[s] : rd.idx <= p /\ rx[s][p].conn = rd.conn /\ rx[s][p].last

\* The slots that hold something for the reader, in the order in which it looks.
Holds == {n \in Slots : running[SlotAt(n)] /\ PktNext(SlotAt(n), 0) # 0}

\* How many of them it has looked at since it is on the queue.
Looked == IF rd.pc = "asleep" THEN SlotCount ELSE rd.seen
WakeInv ==
  rd.pc \in {"scan", "asleep"} /\ rd.queued /\ ~rd.woken /\ ~moved /\ ~WakePending =>
    /\ \A n \in Holds : n < Looked /\ (\A k \in Holds : n <= k) => ~Complete(SlotAt(n), Connection(SlotAt(n), None))
    /\ rd.pc = "scan" /\ rd.conn # None => \E n \in Holds : n < Looked

USE DEF ring, looks

-----------------------------------------------------------------------------
(* Positions.                                                              *)

\* A set of natural numbers has a least element.
LEMMA LeastExists ==
  ASSUME NEW S, S \subseteq Nat, S # {}
  PROVE  \E i \in S : \A j \in S : i <= j
  <1>1. PICK i \in S : \A j \in S : ~(<<j, i>> \in OpToRel(<, Nat))
    BY NatLessThanWellFounded, WFMin
  <1>2. ASSUME NEW j \in S PROVE i <= j
    <2>1. j \in Nat /\ i \in Nat
      OBVIOUS
    <2>2. j < i => <<j, i>> \in OpToRel(<, Nat)
      BY <2>1 DEF OpToRel
    <2>3. ~(j < i)
      BY <1>1, <2>2
    <2> QED
      BY <2>1, <2>3
  <1> QED
    BY <1>2

\* A set of natural numbers none of which is above n has a greatest element.
LEMMA GreatestExists ==
  ASSUME NEW S, S \subseteq Nat, S # {}, NEW n \in Nat, \A i \in S : i <= n
  PROVE  \E i \in S : \A j \in S : j <= i
  <1> DEFINE D == {n - i : i \in S}
  <1>1. \A i \in S : i \in Nat /\ n - i \in Nat
    OBVIOUS
  <1>2. D \subseteq Nat /\ D # {}
    BY <1>1
  <1>3. PICK d \in D : \A c \in D : d <= c
    BY <1>2, LeastExists
  <1>4. PICK i \in S : d = n - i
    OBVIOUS
  <1>5. ASSUME NEW j \in S PROVE j <= i
    <2>1. n - j \in D
      OBVIOUS
    <2>2. n - i <= n - j
      BY <1>3, <1>4, <2>1
    <2> QED
      BY <1>1, <2>2
  <1> QED
    BY <1>5

\* What TypeOK says of a slot.
LEMMA SlotFacts ==
  ASSUME TypeOK, NEW s \in Slots
  PROVE  /\ Len(rx[s]) \in Nat /\ Len(rx[s]) <= MaxFrags /\ MaxFrags \in Nat
         /\ DOMAIN rx[s] = 1 .. Len(rx[s])
         /\ DOMAIN rx[s] \subseteq 1 .. MaxFrags
         /\ \A p \in DOMAIN rx[s] : /\ p \in Nat /\ rx[s][p] \in Fragments /\ rx[s][p].conn \in Conns
                                   /\ rx[s][p].msg \in 1 .. MaxFrags /\ rx[s][p].msg \in Nat
                                   /\ rx[s][p].last \in BOOLEAN
         /\ gone[s] \subseteq DOMAIN rx[s] /\ cut[s] \subseteq DOMAIN rx[s]
  <1>1. rx[s] \in Seq(Fragments) /\ Len(rx[s]) <= MaxFrags /\ MaxFrags \in Nat
    BY RoomAssumption DEF TypeOK
  <1>2. Len(rx[s]) \in Nat /\ DOMAIN rx[s] = 1 .. Len(rx[s])
    BY <1>1
  <1>3. \A p \in DOMAIN rx[s] : rx[s][p] \in Fragments
    BY <1>1
  <1>4. DOMAIN rx[s] \subseteq 1 .. MaxFrags
    BY <1>1, <1>2
  <1> QED
    BY <1>1, <1>2, <1>3, <1>4 DEF Fragments, TypeOK

LEMMA SeqFacts ==
  ASSUME NEW S, NEW q \in Seq(S)
  PROVE  /\ Len(q) \in Nat /\ DOMAIN q = 1 .. Len(q) /\ \A i \in DOMAIN q : q[i] \in S
         /\ \A x \in S : /\ Append(q, x) \in Seq(S) /\ DOMAIN Append(q, x) = 1 .. Len(q) + 1
                         /\ Append(q, x)[Len(q) + 1] = x /\ \A i \in DOMAIN q : Append(q, x)[i] = q[i]
  OBVIOUS

LEMMA ReaderFacts ==
  ASSUME TypeOK
  PROVE  /\ rd.slot \in Slots /\ rd.idx \in 0 .. MaxFrags /\ rd.idx \in Nat
         /\ rd.seen \in 0 .. SlotCount /\ rd.got \in Seq(1 .. MaxFrags) /\ DOMAIN rd.got = 1 .. Len(rd.got)
         /\ Len(rd.got) \in Nat /\ Got \subseteq 1 .. MaxFrags /\ Got \subseteq Nat
  <1>1. /\ rd.slot \in Slots /\ rd.idx \in 0 .. MaxFrags /\ rd.seen \in 0 .. SlotCount
        /\ rd.got \in Seq(1 .. MaxFrags)
    BY DEF TypeOK
  <1>2. Len(rd.got) \in Nat /\ DOMAIN rd.got = 1 .. Len(rd.got) /\ \A i \in DOMAIN rd.got : rd.got[i] \in 1 .. MaxFrags
    BY <1>1, SeqFacts
  <1>3. Got \subseteq 1 .. MaxFrags
    BY <1>2 DEF Got
  <1>4. rd.idx \in Nat /\ 1 .. MaxFrags \subseteq Nat
    BY <1>1, RoomAssumption
  <1> QED
    BY <1>1, <1>2, <1>3, <1>4

\* There is room for one fragment more in every slot.
LEMMA RoomFacts ==
  ASSUME TypeOK, Received < MaxFrags, NEW s \in Slots
  PROVE  Len(rx[s]) < MaxFrags
  <1> DEFINE F == {f \in Slots \X (1 .. MaxFrags) : f[2] <= Len(rx[f[1]])}
             P == {s} \X (1 .. MaxFrags)
  <1>1. MaxFrags \in Nat /\ Len(rx[s]) \in Nat /\ SlotCount \in Nat
    BY SlotFacts, SlotAssumption
  <1>2. SUFFICES ASSUME Len(rx[s]) >= MaxFrags
                 PROVE  FALSE
    BY <1>1
  <1>3. IsFiniteSet(1 .. MaxFrags) /\ Cardinality(1 .. MaxFrags) = MaxFrags
    BY <1>1, FS_Interval
  <1>4. IsFiniteSet(Slots)
    BY <1>1, FS_Interval DEF Slots
  <1>5. IsFiniteSet(F) /\ Cardinality(F) \in Nat
    <2>1. IsFiniteSet(Slots \X (1 .. MaxFrags))
      BY <1>3, <1>4, FS_Product
    <2>2. F \in SUBSET (Slots \X (1 .. MaxFrags))
      OBVIOUS
    <2>3. IsFiniteSet(F)
      BY <2>1, <2>2, FS_Subset
    <2> QED
      BY <2>3, FS_CardinalityType
  <1>6. Cardinality({s}) = 1 /\ IsFiniteSet({s})
    BY FS_Singleton
  <1>7. Cardinality(P) = MaxFrags
    <2>1. Cardinality(P) = Cardinality({s}) * Cardinality(1 .. MaxFrags)
      BY <1>3, <1>6, FS_Product
    <2> QED
      BY <1>1, <1>3, <1>6, <2>1
  <1>8. P \in SUBSET F
    <2>1. ASSUME NEW i \in 1 .. MaxFrags
          PROVE  <<s, i>> \in F
      BY <1>1, <1>2
    <2> QED
      BY <2>1
  <1>9. Cardinality(P) <= Cardinality(F)
    BY <1>5, <1>8, FS_Subset
  <1> QED
    BY <1>1, <1>5, <1>7, <1>9 DEF Received

\* dvb_ringbuffer_pkt_next.
LEMMA NextFacts ==
  ASSUME TypeOK, NEW s \in Slots, NEW p \in Nat
  PROVE  \/ /\ PktNext(s, p) = 0
            /\ \A q \in DOMAIN rx[s] \ gone[s] : q <= p
         \/ /\ PktNext(s, p) # 0 /\ PktNext(s, p) \in DOMAIN rx[s] \ gone[s] /\ PktNext(s, p) > p
            /\ \A q \in DOMAIN rx[s] \ gone[s] : q > p => PktNext(s, p) <= q
  <1> DEFINE ps == {q \in DOMAIN rx[s] \ gone[s] : q > p}
  <1>1. ps \subseteq Nat /\ \A q \in ps : q >= 1
    BY SlotFacts
  <1>2. CASE ps = {}
    BY <1>2, SlotFacts DEF PktNext
  <1>3. CASE ps # {}
    <2>1. \E q \in ps : \A r \in ps : q <= r
      BY <1>1, <1>3, LeastExists
    <2>2. /\ PktNext(s, p) \in ps
          /\ \A r \in ps : PktNext(s, p) <= r
      BY <1>3, <2>1 DEF PktNext
    <2> QED
      BY <1>1, <2>2
  <1> QED
    BY <1>2, <1>3

\* The latest fragment of a connection decides which message it goes on with.
LEMMA BegunFacts ==
  ASSUME TypeOK, NEW s \in Slots, NEW c \in Conns
  PROVE  \/ /\ Begun(s, c) = 0
            /\ \A p \in DOMAIN rx[s] : rx[s][p].conn # c
         \/ \E f \in DOMAIN rx[s] :
              /\ rx[s][f].conn = c
              /\ \A p \in DOMAIN rx[s] : rx[s][p].conn = c => p <= f
              /\ Begun(s, c) = IF rx[s][f].last \/ rx[s][f].msg \in cut[s] THEN 0 ELSE rx[s][f].msg
  <1> DEFINE ps == {p \in DOMAIN rx[s] : rx[s][p].conn = c}
             f == CHOOSE p \in ps : \A q \in ps : q <= p
  <1>1. ps \subseteq Nat /\ Len(rx[s]) \in Nat /\ \A p \in ps : p <= Len(rx[s])
    BY SlotFacts
  <1>2. CASE ps = {}
    BY <1>2 DEF Begun
  <1>3. CASE ps # {}
    <2>1. \E p \in ps : \A q \in ps : q <= p
      BY <1>1, <1>3, GreatestExists
    <2>2. f \in ps /\ \A q \in ps : q <= f
      BY <2>1
    <2>3. Begun(s, c) = IF rx[s][f].last \/ rx[s][f].msg \in cut[s] THEN 0 ELSE rx[s][f].msg
      BY <1>3 DEF Begun
    <2> HIDE DEF f
    <2> QED
      BY <2>2, <2>3
  <1> QED
    BY <1>2, <1>3

\* A message is one of the positions received, not behind its fragments.
LEMMA MsgFacts ==
  ASSUME TypeOK, FragInv, NEW s \in Slots, NEW p \in DOMAIN rx[s]
  PROVE  rx[s][p].msg \in DOMAIN rx[s] /\ rx[s][p].msg <= p
  BY SlotFacts DEF FragInv

LEMMA AllBegunFacts ==
  ASSUME TypeOK, FragInv, NEW s \in Slots
  PROVE  AllBegun(s) \subseteq DOMAIN rx[s]
  <1> SUFFICES ASSUME NEW c \in Conns, Begun(s, c) # 0
               PROVE  Begun(s, c) \in DOMAIN rx[s]
    BY DEF AllBegun
  <1> QED
    BY BegunFacts, MsgFacts

\* The fragment that is received, and where it goes.
LEMMA AppendFacts ==
  ASSUME TypeOK, FragInv, NEW s \in Slots, NEW c \in Conns, NEW last \in BOOLEAN, ReadData(s, c, last)
  PROVE  LET n == Len(rx[s]) + 1
             m == IF Begun(s, c) = 0 THEN n ELSE Begun(s, c)
             x == [conn |-> c, msg |-> m, last |-> last]
         IN  /\ m \in Nat /\ m <= n /\ n \in Nat /\ n <= MaxFrags
             /\ x \in Fragments /\ rx' = [rx EXCEPT ![s] = Append(rx[s], x)]
             /\ rx' \in [Slots -> Seq(Fragments)]
             /\ Len(rx'[s]) = n /\ DOMAIN rx'[s] = 1 .. n /\ rx'[s][n] = x
             /\ \A p \in DOMAIN rx[s] : p \in DOMAIN rx'[s] /\ p < n /\ rx'[s][p] = rx[s][p]
             /\ \A p \in DOMAIN rx'[s] : p = n \/ p \in DOMAIN rx[s]
             /\ \A t \in Slots : t # s => rx'[t] = rx[t]
  <1> DEFINE n == Len(rx[s]) + 1
             m == IF Begun(s, c) = 0 THEN n ELSE Begun(s, c)
             x == [conn |-> c, msg |-> m, last |-> last]
  <1>1. n \in Nat /\ n <= MaxFrags /\ n >= 1 /\ MaxFrags \in Nat
    BY RoomFacts, SlotFacts DEF ReadData
  <1>2. m \in Nat /\ m >= 1 /\ m <= n
    <2>1. CASE Begun(s, c) = 0
      BY <1>1, <2>1
    <2>2. CASE Begun(s, c) # 0
      <3>1. PICK f \in DOMAIN rx[s] : Begun(s, c) = rx[s][f].msg
        BY <2>2, BegunFacts
      <3> QED
        BY <1>1, <2>2, <3>1, MsgFacts, SlotFacts
    <2> QED
      BY <2>1, <2>2
  <1>3. x \in Fragments
    BY <1>1, <1>2 DEF Fragments
  <1>4. rx' = [rx EXCEPT ![s] = Append(rx[s], x)]
    BY DEF ReadData
  <1>5. rx \in [Slots -> Seq(Fragments)] /\ rx[s] \in Seq(Fragments)
    BY DEF TypeOK
  <1> HIDE DEF x, m
  <1>6. /\ Append(rx[s], x) \in Seq(Fragments) /\ Len(Append(rx[s], x)) = n
        /\ DOMAIN Append(rx[s], x) = 1 .. n /\ Append(rx[s], x)[n] = x
        /\ \A p \in 1 .. Len(rx[s]) : Append(rx[s], x)[p] = rx[s][p]
    BY <1>1, <1>3, <1>5
  <1>7. rx' \in [Slots -> Seq(Fragments)] /\ rx'[s] = Append(rx[s], x) /\ \A t \in Slots : t # s => rx'[t] = rx[t]
    BY <1>4, <1>5, <1>6
  <1>8. DOMAIN rx[s] = 1 .. Len(rx[s]) /\ Len(rx[s]) \in Nat
    BY SlotFacts
  <1>9. \A p \in DOMAIN rx[s] : p \in 1 .. n /\ p < n
    BY <1>8
  <1>10. \A p \in 1 .. n : p = n \/ p \in DOMAIN rx[s]
    BY <1>8
  <1> QED
    BY <1>1, <1>2, <1>3, <1>4, <1>6, <1>7, <1>8, <1>9, <1>10 DEF x, m

-----------------------------------------------------------------------------
(* Types.                                                                  *)

Reader == [pc : {"out", "scan", "asleep", "first", "loop", "done"},
           queued : BOOLEAN, woken : BOOLEAN, slot : Slots, seen : 0 .. SlotCount,
           conn : Conns \cup {None}, idx : 0 .. MaxFrags, got : Seq(1 .. MaxFrags)]

LEMMA SlotNext ==
  ASSUME NEW s \in Slots
  PROVE  (s + 1) % SlotCount \in Slots /\ 0 \in Slots
  BY SlotAssumption DEF Slots

LEMMA OutType == Out \in Reader
  <1>1. 0 \in Slots /\ 0 \in 0 .. SlotCount /\ 0 \in 0 .. MaxFrags /\ <<>> \in Seq(1 .. MaxFrags)
    BY SlotAssumption, RoomAssumption DEF Slots
  <1> QED
    BY <1>1 DEF Out, Reader

LEMMA ConnectionType ==
  ASSUME TypeOK, NEW s \in Slots, NEW c \in Conns \cup {None}
  PROVE  Connection(s, c) \in Conns \cup {None} /\ PktNext(s, 0) \in 0 .. MaxFrags
  <1>1. PktNext(s, 0) = 0 \/ PktNext(s, 0) \in DOMAIN rx[s]
    BY NextFacts
  <1> QED
    BY <1>1, SlotFacts DEF Connection

LEMMA ScanType ==
  ASSUME next_read_slot \in Slots, NEW r \in Reader
  PROVE  Scan(r) \in Reader /\ \A t \in Slots : [Scan(r) EXCEPT !.slot = t, !.queued = TRUE] \in Reader
  <1>1. 0 \in 0 .. SlotCount
    BY SlotAssumption
  <1>2. Scan(r) \in Reader
    BY <1>1 DEF Scan, Reader
  <1>3. \A x \in Reader, t \in Slots : [x EXCEPT !.slot = t, !.queued = TRUE] \in Reader
    BY DEF Reader
  <1> QED
    BY <1>2, <1>3

\* The process's record.
LEMMA ReaderType ==
  ASSUME TypeOK, [Next]_vars
  PROVE  rd' \in Reader /\ next_read_slot' \in Slots
  <1> USE DEF Reader
  <1>0. rd \in Reader /\ next_read_slot \in Slots /\ rd.slot \in Slots /\ 0 \in 0 .. SlotCount
        /\ rd.slot \in Slots /\ rd.idx \in Nat /\ rd.got \in Seq(1 .. MaxFrags)
    BY ReaderFacts, SlotAssumption DEF TypeOK
  <1>1. CASE UNCHANGED <<rd, next_read_slot>> \/ (UNCHANGED next_read_slot /\ WakeUp)
    BY <1>0, <1>1 DEF WakeUp
  <1>2. CASE Call
    BY <1>0, <1>2, OutType DEF Call, Scan
  <1>3. CASE ScanSlot
    <2>1. ASSUME NEW c \in Conns \cup {None}, NEW t \in Slots, NEW k \in 0 .. SlotCount
          PROVE  [rd EXCEPT !.slot = t, !.seen = k, !.conn = c] \in Reader
      BY <1>0
    <2>2. rd.seen < SlotCount => rd.seen + 1 \in 0 .. SlotCount
      BY ReaderFacts, SlotAssumption
    <2>3. rd.conn \in Conns \cup {None}
      BY <1>0
    <2>4. ASSUME NEW t \in Slots
          PROVE  [Out EXCEPT !.pc = "first", !.slot = t] \in Reader
      BY OutType
    <2>5. \/ /\ rd' = Out \/ rd' = [Out EXCEPT !.pc = "first", !.slot = rd.slot]
             /\ next_read_slot' = (rd.slot + 1) % SlotCount
          \/ /\ rd.seen < SlotCount /\ UNCHANGED next_read_slot
             /\ \E c \in {rd.conn, Connection(rd.slot, rd.conn)} :
                  rd' = [rd EXCEPT !.slot = (rd.slot + 1) % SlotCount, !.seen = rd.seen + 1, !.conn = c]
      BY <1>3 DEF ScanSlot
    <2>6. Connection(rd.slot, rd.conn) \in Conns \cup {None} /\ (rd.slot + 1) % SlotCount \in Slots
      BY <1>0, <2>3, ConnectionType, SlotNext
    <2> HIDE DEF Reader
    <2>7. ASSUME rd.seen < SlotCount, NEW c \in Conns \cup {None}
          PROVE  [rd EXCEPT !.slot = (rd.slot + 1) % SlotCount, !.seen = rd.seen + 1, !.conn = c] \in Reader
      BY <2>1, <2>2, <2>6, <2>7, Zenon
    <2>8. rd' \in Reader
      BY <1>0, <2>3, <2>4, <2>5, <2>6, <2>7, OutType, Zenon
    <2> QED
      BY <1>0, <2>5, <2>6, <2>8, Zenon
  <1>4. CASE ScanEnd
    <2>1. [rd EXCEPT !.pc = "asleep", !.conn = None, !.seen = 0] \in Reader
      BY <1>0
    <2>2. [Scan(rd) EXCEPT !.slot = rd.slot, !.queued = TRUE] \in Reader
      BY <1>0, ScanType
    <2>3. /\ next_read_slot' = rd.slot
          /\ \/ rd' = [rd EXCEPT !.pc = "asleep", !.conn = None, !.seen = 0]
             \/ rd' = [Scan(rd) EXCEPT !.slot = rd.slot, !.queued = TRUE]
      BY <1>4 DEF ScanEnd
    <2> HIDE DEF Reader
    <2> QED
      BY <1>0, <2>1, <2>2, <2>3
  <1>5. CASE Wake
    <2> HIDE DEF Reader
    <2> QED
      BY <1>0, <1>5, ScanType DEF Wake
  <1>6. CASE GiveUp
    BY <1>0, <1>6, OutType DEF GiveUp
  <1>7. CASE ReadFirst
    <2>1. PktNext(rd.slot, 0) \in 0 .. MaxFrags /\ Connection(rd.slot, None) \in Conns \cup {None}
      BY <1>0, ConnectionType
    <2> QED
      BY <1>0, <1>7, <2>1 DEF ReadFirst
  <1>8. ASSUME rd.idx # 0
        PROVE  PktNext(rd.slot, rd.idx) \in 0 .. MaxFrags
    BY <1>0, NextFacts, SlotFacts
  <1>9. CASE ReadSkip
    BY <1>0, <1>8, <1>9 DEF ReadSkip
  <1>10. CASE ReadFragment
    <2>1. rd.idx # 0
      BY <1>10 DEF ReadFragment, Mine
    <2>2. rd.idx \in 1 .. MaxFrags
      BY <2>1, ReaderFacts
    <2>3. Append(rd.got, rd.idx) \in Seq(1 .. MaxFrags)
      BY <1>0, <2>2, SeqFacts
    <2> QED
      BY <1>0, <1>8, <1>10, <2>1, <2>3 DEF ReadFragment
  <1>11. CASE ReadBug \/ ReadFault \/ ReadReturn
    BY <1>0, <1>11, OutType DEF ReadBug, ReadFault, ReadReturn
  <1>12. ASSUME NEW s \in Slots, \/ PollData(s)
                                 \/ \E c \in Conns, last \in BOOLEAN : ReadData(s, c, last)
                                 \/ ReadDataError(s)
                                 \/ SlotShutdown(s)
                                 \/ SlotRunning(s)
         PROVE  rd' \in Reader /\ next_read_slot' \in Slots
    BY <1>1, <1>12 DEF PollData, ReadData, ReadDataError, SlotShutdown, SlotRunning, Stop
  <1>13. CASE \/ ReadDataBegin \/ ReadDataRest \/ ReadDataWake \/ ReadNothing \/ IoOpen \/ IoRelease
              \/ IoReset \/ ResetSlot \/ ReadHdr \/ UNCHANGED vars
    BY <1>1, <1>13 DEF ReadDataBegin, ReadDataRest, ReadDataWake, ReadNothing, IoOpen, IoRelease,
                       IoReset, ResetSlot, Stop, ReadHdr, vars
  <1>14. CASE ResetEnd
    BY <1>0, <1>14, SlotNext DEF ResetEnd
  <1> HIDE DEF Reader
  <1> QED
    BY <1>2, <1>3, <1>4, <1>5, <1>6, <1>7, <1>9, <1>10, <1>11, <1>12, <1>13, <1>14 DEF Next

\* What a slot has received, and what was disposed of or cut.
LEMMA SlotsType ==
  ASSUME TypeOK, FragInv, TakenInv, LoopInv, [Next]_vars
  PROVE  /\ rx' \in [Slots -> Seq(Fragments)]
         /\ gone' \in [Slots -> SUBSET (1 .. MaxFrags)] /\ cut' \in [Slots -> SUBSET (1 .. MaxFrags)]
         /\ \A s \in Slots : /\ Len(rx'[s]) <= MaxFrags /\ gone'[s] \subseteq DOMAIN rx'[s]
                              /\ cut'[s] \subseteq DOMAIN rx'[s]
  <1>1. /\ rx \in [Slots -> Seq(Fragments)]
        /\ gone \in [Slots -> SUBSET (1 .. MaxFrags)] /\ cut \in [Slots -> SUBSET (1 .. MaxFrags)]
        /\ \A s \in Slots : /\ Len(rx[s]) <= MaxFrags /\ gone[s] \subseteq DOMAIN rx[s]
                             /\ cut[s] \subseteq DOMAIN rx[s] /\ DOMAIN rx[s] \subseteq 1 .. MaxFrags
    BY SlotFacts DEF TypeOK
  <1>2. CASE UNCHANGED <<rx, gone, cut>>
    BY <1>1, <1>2
  <1>3. ASSUME NEW s \in Slots, NEW c \in Conns, NEW last \in BOOLEAN, ReadData(s, c, last)
        PROVE  /\ rx' \in [Slots -> Seq(Fragments)] /\ UNCHANGED <<gone, cut>>
               /\ \A t \in Slots : Len(rx'[t]) <= MaxFrags /\ DOMAIN rx[t] \subseteq DOMAIN rx'[t]
    BY ZenonT(60), <1>1, <1>3, AppendFacts DEF ReadData
  <1>4. ASSUME NEW s \in Slots, NEW C \in SUBSET DOMAIN rx[s], cut' = [cut EXCEPT ![s] = @ \cup C],
               UNCHANGED <<rx, gone>>
        PROVE  /\ cut' \in [Slots -> SUBSET (1 .. MaxFrags)]
               /\ \A t \in Slots : cut'[t] \subseteq DOMAIN rx'[t]
    BY <1>1, <1>4
  <1>5. CASE (\E s \in Slots : ReadDataError(s) \/ SlotShutdown(s)) \/ (ResetSlot /\ running[reset])
    <2>1. PICK s \in Slots : cut' = [cut EXCEPT ![s] = @ \cup AllBegun(s)] /\ UNCHANGED <<rx, gone>>
      BY <1>5 DEF ReadDataError, SlotShutdown, ResetSlot, Stop
    <2> QED
      BY <1>1, <1>4, <2>1, AllBegunFacts
  <1>6. CASE IoOpen
    <2>1. \A s \in Slots : {rx[s][p].msg : p \in DOMAIN rx[s] \ gone[s]} \subseteq DOMAIN rx[s]
      BY MsgFacts
    <2>2. /\ UNCHANGED rx
          /\ gone' = [s \in Slots |-> IF running[s] THEN DOMAIN rx[s] ELSE gone[s]]
          /\ cut' = [s \in Slots |-> IF running[s] THEN cut[s] \cup {rx[s][p].msg : p \in DOMAIN rx[s] \ gone[s]} ELSE cut[s]]
      BY <1>6 DEF IoOpen
    <2> QED
      BY <1>1, <2>1, <2>2
  <1>7. CASE ReadFragment
    <2>1. /\ rd.slot \in Slots /\ rd.idx \in 1 .. MaxFrags
      BY <1>7, ReaderFacts DEF ReadFragment, Mine
    <2>2. UNCHANGED <<rx, cut>> /\ gone' = [gone EXCEPT ![rd.slot] = @ \cup {rd.idx}]
      BY <1>7 DEF ReadFragment
    <2>3. rd.idx \in DOMAIN rx[rd.slot]
      BY <1>7 DEF ReadFragment, LoopInv, Mine
    <2> QED
      BY <1>1, <2>1, <2>2, <2>3
  <1>8. CASE ReadBug \/ ReadFault
    <2>1. rd.slot \in Slots /\ cut' = [cut EXCEPT ![rd.slot] = @ \cup {rx[rd.slot][rd.got[i]].msg : i \in DOMAIN rd.got}]
          /\ UNCHANGED <<rx, gone>>
      BY <1>8, ReaderFacts DEF ReadBug, ReadFault, Lose
    <2>2. {rx[rd.slot][rd.got[i]].msg : i \in DOMAIN rd.got} \subseteq DOMAIN rx[rd.slot]
      BY <2>1, MsgFacts, SlotFacts DEF TakenInv, Got
    <2> QED
      BY <1>1, <1>4, <2>1, <2>2
  <1>9. CASE \/ \E s \in Slots : PollData(s) \/ SlotRunning(s)
             \/ ReadDataBegin \/ ReadDataRest \/ ReadDataWake \/ ReadNothing \/ IoRelease
             \/ IoReset \/ (ResetSlot /\ ~running[reset]) \/ ResetEnd
             \/ Call \/ ScanSlot \/ ScanEnd \/ Wake \/ GiveUp
             \/ ReadFirst \/ ReadSkip \/ ReadHdr \/ ReadReturn \/ UNCHANGED vars
    BY <1>2, <1>9 DEF PollData, SlotRunning, ReadDataBegin, ReadDataRest, ReadDataWake, ReadNothing, IoRelease,
                      IoReset, ResetSlot, ResetEnd, Call, ScanSlot, ScanEnd, Wake, GiveUp,
                      ReadFirst, ReadSkip, ReadHdr, ReadReturn, vars
  <1> QED
    BY <1>1, <1>3, <1>5, <1>6, <1>7, <1>8, <1>9 DEF Next

LEMMA TypeStep ==
  ASSUME TypeOK, FragInv, TakenInv, LoopInv, [Next]_vars
  PROVE  TypeOK'
  <1> DEFINE P == {"no", "begun", "header", "payload", "whole"}
             H == {"none", "more", "last"}
             T == {"no", "read", "open"}
             Simple(ru, op, th, mo, pu, hd, re, to) ==
               /\ ru \in [Slots -> BOOLEAN] /\ op \in BOOLEAN /\ th \in Slots \cup {-1} /\ mo \in BOOLEAN
               /\ pu \in P /\ hd \in H /\ re \in -1 .. SlotCount /\ to \in T
  <1>1. Simple(running, open, thread, moved, put, hdr, reset, torn) /\ rd.queued \in BOOLEAN /\ SlotCount \in Nat
    BY SlotAssumption DEF TypeOK
  <1>2. ASSUME NEW s \in Slots, \/ PollData(s)
                                \/ \E c \in Conns, last \in BOOLEAN : ReadData(s, c, last)
                                \/ ReadDataError(s)
                                \/ SlotShutdown(s)
                                \/ SlotRunning(s)
        PROVE  Simple(running', open', thread', moved', put', hdr', reset', torn')
    BY <1>1, <1>2 DEF PollData, ReadData, ReadDataError, SlotShutdown, SlotRunning, Stop
  <1>3. ASSUME \/ ReadDataBegin \/ ReadDataRest \/ ReadDataWake \/ ReadNothing \/ IoOpen \/ IoRelease
               \/ IoReset \/ ResetSlot \/ ResetEnd
        PROVE  Simple(running', open', thread', moved', put', hdr', reset', torn')
    <2>1. \A s \in Slots : s + 1 \in -1 .. SlotCount
      BY <1>1 DEF Slots
    <2>2. 0 \in -1 .. SlotCount /\ -1 \in -1 .. SlotCount
      BY <1>1
    <2>3. CASE ResetSlot
      <3>1. /\ UNCHANGED <<open, thread, moved, put, hdr, torn>> /\ reset \in Slots /\ reset' = reset + 1
            /\ running' = running \/ running' = [running EXCEPT ![reset] = FALSE]
        BY <2>3 DEF ResetSlot, Stop
      <3> QED
        BY <1>1, <2>1, <3>1
    <2>4. CASE ~ResetSlot
      BY <1>1, <1>3, <2>2, <2>4 DEF ReadDataBegin, ReadDataRest, ReadDataWake, ReadNothing, IoOpen, IoRelease,
                                    IoReset, ResetEnd
    <2> QED
      BY <2>3, <2>4
  <1>4. ASSUME \/ Call \/ ScanSlot \/ ScanEnd \/ Wake \/ GiveUp \/ ReadFirst \/ ReadSkip \/ ReadHdr
               \/ ReadFragment \/ ReadBug \/ ReadFault \/ ReadReturn \/ UNCHANGED vars
        PROVE  Simple(running', open', thread', moved', put', hdr', reset', torn')
    <2>1. UNCHANGED <<running, open, thread, put, reset>>
      BY <1>4 DEF Call, ScanSlot, ScanEnd, Wake, GiveUp, ReadFirst, ReadSkip, ReadHdr,
                  ReadFragment, ReadBug, ReadFault, ReadReturn, vars
    <2>2. moved' \in BOOLEAN
      BY <1>1, <1>4 DEF Call, ScanSlot, ScanEnd, Wake, GiveUp, ReadFirst, ReadSkip, ReadHdr,
                        ReadFragment, ReadBug, ReadFault, ReadReturn, vars
    <2>3. hdr' \in H /\ torn' \in T
      BY <1>1, <1>4 DEF Call, ScanSlot, ScanEnd, Wake, GiveUp, ReadFirst, ReadSkip, ReadHdr,
                        ReadFragment, ReadBug, ReadFault, ReadReturn, vars
    <2> QED
      BY <1>1, <2>1, <2>2, <2>3
  <1>7. Simple(running', open', thread', moved', put', hdr', reset', torn')
    BY <1>2, <1>3, <1>4 DEF Next
  <1>5. /\ rx' \in [Slots -> Seq(Fragments)]
        /\ gone' \in [Slots -> SUBSET (1 .. MaxFrags)] /\ cut' \in [Slots -> SUBSET (1 .. MaxFrags)]
        /\ \A s \in Slots : /\ Len(rx'[s]) <= MaxFrags /\ gone'[s] \subseteq DOMAIN rx'[s]
                             /\ cut'[s] \subseteq DOMAIN rx'[s]
    BY SlotsType
  <1>6. rd' \in Reader /\ next_read_slot' \in Slots
    BY ReaderType
  <1> QED
    BY <1>5, <1>6, <1>7, Zenon DEF TypeOK, Reader

-----------------------------------------------------------------------------
(* What the thread receives.                                               *)

\* A step receives a fragment, or leaves what was received alone; what is cut stays cut.
LEMMA Grows ==
  ASSUME TypeOK, FragInv, TakenInv, LoopInv, [Next]_vars
  PROVE  /\ \A s \in Slots : cut[s] \subseteq cut'[s]
         /\ \/ UNCHANGED rx
            \/ /\ UNCHANGED <<gone, cut>>
               /\ \E s \in Slots, c \in Conns, last \in BOOLEAN : ReadData(s, c, last)
  <1>1. cut \in [Slots -> SUBSET (1 .. MaxFrags)] /\ rd.slot \in Slots
    BY ReaderFacts DEF TypeOK
  <1>2. ASSUME NEW s \in Slots, \/ PollData(s)
                                \/ ReadDataError(s)
                                \/ SlotShutdown(s)
                                \/ SlotRunning(s)
        PROVE  UNCHANGED rx /\ \A t \in Slots : cut[t] \subseteq cut'[t]
    BY <1>1, <1>2 DEF PollData, ReadDataError, SlotShutdown, SlotRunning, Stop
  <1>3. CASE IoOpen
    BY <1>1, <1>3 DEF IoOpen
  <1>4. CASE ReadBug \/ ReadFault
    BY <1>1, <1>4 DEF ReadBug, ReadFault, Lose
  <1>5. CASE \/ ReadDataBegin \/ ReadDataRest \/ ReadDataWake \/ ReadNothing \/ IoRelease
             \/ IoReset \/ ResetSlot \/ ResetEnd \/ Call \/ ScanSlot \/ ScanEnd \/ Wake \/ GiveUp
             \/ ReadFirst \/ ReadSkip \/ ReadHdr \/ ReadFragment \/ ReadReturn \/ UNCHANGED vars
    BY <1>1, <1>5 DEF ReadDataBegin, ReadDataRest, ReadDataWake, ReadNothing, IoRelease,
                      IoReset, ResetSlot, ResetEnd, Stop, Call, ScanSlot, ScanEnd, Wake, GiveUp,
                      ReadFirst, ReadSkip, ReadHdr, ReadFragment, ReadReturn, vars
  <1>6. ASSUME NEW s \in Slots, NEW c \in Conns, NEW last \in BOOLEAN, ReadData(s, c, last)
        PROVE  UNCHANGED <<gone, cut>>
    BY <1>6 DEF ReadData
  <1> QED
    BY <1>2, <1>3, <1>4, <1>5, <1>6 DEF Next

\* The fragment appended belongs to the message of the latest of its connection, or
\* begins one.
LEMMA FragStep ==
  ASSUME TypeOK, FragInv, TakenInv, LoopInv, [Next]_vars
  PROVE  FragInv'
  <1>1. CASE UNCHANGED rx
    BY <1>1 DEF FragInv
  <1>2. ASSUME NEW s \in Slots, NEW c \in Conns, NEW last \in BOOLEAN, ReadData(s, c, last)
        PROVE  FragInv'
    <2> DEFINE n == Len(rx[s]) + 1
               m == IF Begun(s, c) = 0 THEN n ELSE Begun(s, c)
               x == [conn |-> c, msg |-> m, last |-> last]
    <2>1. /\ m \in Nat /\ m <= n /\ n \in Nat
          /\ DOMAIN rx'[s] = 1 .. n /\ rx'[s][n] = x
          /\ \A p \in DOMAIN rx[s] : p \in DOMAIN rx'[s] /\ p < n /\ rx'[s][p] = rx[s][p]
          /\ \A p \in DOMAIN rx'[s] : p = n \/ p \in DOMAIN rx[s]
          /\ \A t \in Slots : t # s => rx'[t] = rx[t]
      BY <1>2, AppendFacts
    <2>2. x.msg = m /\ x.conn = c
      OBVIOUS
    <2>3. m # n => \E f \in DOMAIN rx[s] : rx[s][f].msg = m /\ rx[s][f].conn = c
      BY <1>2, BegunFacts
    <2> HIDE DEF x, m, n
    <2>4. ASSUME NEW p \in DOMAIN rx[s]
          PROVE  /\ rx[s][p].msg \in DOMAIN rx[s] /\ rx[s][p].msg <= p
                 /\ rx[s][rx[s][p].msg].msg = rx[s][p].msg /\ rx[s][rx[s][p].msg].conn = rx[s][p].conn
      BY MsgFacts DEF FragInv
    <2>5. rx'[s][m].msg = m /\ rx'[s][m].conn = c
      BY <2>1, <2>2, <2>3, <2>4
    <2>6. ASSUME NEW p \in DOMAIN rx'[s]
          PROVE  LET k == rx'[s][p].msg
                 IN  k <= p /\ rx'[s][k].msg = k /\ rx'[s][k].conn = rx'[s][p].conn
      BY SMTT(30), <2>1, <2>2, <2>4, <2>5
    <2> QED
      BY <2>1, <2>6 DEF FragInv
  <1> QED
    BY <1>1, <1>2, Grows

LEMMA OrderStep ==
  ASSUME TypeOK, FragInv, OrderInv, TakenInv, LoopInv, [Next]_vars
  PROVE  OrderInv'
  <1>1. CASE UNCHANGED rx
    <2>1. \A s \in Slots : cut[s] \subseteq cut'[s]
      BY Grows
    <2> QED
      BY <1>1, <2>1 DEF OrderInv
  <1>2. ASSUME NEW s \in Slots, NEW c \in Conns, NEW last \in BOOLEAN, ReadData(s, c, last), UNCHANGED cut
        PROVE  OrderInv'
    <2> DEFINE n == Len(rx[s]) + 1
               m == IF Begun(s, c) = 0 THEN n ELSE Begun(s, c)
               x == [conn |-> c, msg |-> m, last |-> last]
    <2>1. /\ n \in Nat /\ rx'[s][n] = x
          /\ \A p \in DOMAIN rx[s] : p \in DOMAIN rx'[s] /\ p < n /\ rx'[s][p] = rx[s][p]
          /\ \A p \in DOMAIN rx'[s] : p = n \/ p \in DOMAIN rx[s]
          /\ \A t \in Slots : t # s => rx'[t] = rx[t]
      BY <1>2, AppendFacts
    <2>2. DOMAIN rx[s] = 1 .. Len(rx[s]) /\ Len(rx[s]) \in Nat
      BY SlotFacts
    <2>3. x.msg = m /\ x.conn = c
      OBVIOUS
    <2>4. ASSUME NEW p \in DOMAIN rx[s], rx[s][p].conn = c
          PROVE  \/ m = rx[s][p].msg /\ ~rx[s][p].last
                 \/ /\ m > p
                    /\ \/ rx[s][p].msg \in cut[s]
                       \/ \E r \in p .. n - 1 : rx[s][r].msg = rx[s][p].msg /\ rx[s][r].last
      <3>1. PICK f \in DOMAIN rx[s] :
                /\ rx[s][f].conn = c /\ p <= f
                /\ Begun(s, c) = IF rx[s][f].last \/ rx[s][f].msg \in cut[s] THEN 0 ELSE rx[s][f].msg
        BY <2>4, BegunFacts
      <3>2. p \in Nat /\ f \in Nat /\ f <= n - 1 /\ rx[s][f].msg \in Nat /\ rx[s][f].msg >= 1
        BY <2>2, SlotFacts
      <3>3. \/ p = f
            \/ /\ p < f /\ rx[s][f].msg = rx[s][p].msg /\ ~rx[s][p].last
            \/ /\ p < f /\ rx[s][f].msg > p
               /\ \/ rx[s][p].msg \in cut[s]
                  \/ \E r \in p .. f - 1 : rx[s][r].msg = rx[s][p].msg /\ rx[s][r].last
        BY <2>4, <3>1, <3>2 DEF OrderInv
      <3>4. CASE rx[s][f].last \/ rx[s][f].msg \in cut[s]
        <4>1. m = n /\ m > p
          BY <2>1, <3>1, <3>2, <3>4
        <4>2. f \in p .. n - 1 /\ p .. f - 1 \subseteq p .. n - 1
          BY <2>1, <3>1, <3>2
        <4> QED
          BY <3>3, <3>4, <4>1, <4>2
      <3>5. CASE ~(rx[s][f].last \/ rx[s][f].msg \in cut[s])
        <4>1. m = rx[s][f].msg
          BY <3>1, <3>2, <3>5
        <4>2. p .. f - 1 \subseteq p .. n - 1
          BY <2>1, <3>1, <3>2
        <4> QED
          BY <3>3, <3>5, <4>1, <4>2
      <3> QED
        BY <3>4, <3>5
    <2> HIDE DEF x, m
    <2>5. ASSUME NEW p \in DOMAIN rx'[s], NEW q \in DOMAIN rx'[s], p < q, rx'[s][p].conn = rx'[s][q].conn
          PROVE  \/ rx'[s][q].msg = rx'[s][p].msg /\ ~rx'[s][p].last
                 \/ /\ rx'[s][q].msg > p
                    /\ \/ rx'[s][p].msg \in cut'[s]
                       \/ \E r \in p .. q - 1 : rx'[s][r].msg = rx'[s][p].msg /\ rx'[s][r].last
      <3>1. p \in DOMAIN rx[s] /\ p \in Nat /\ q \in Nat
        BY <2>1, <2>2, <2>5
      <3>2. \A r \in p .. q - 1 : rx'[s][r] = rx[s][r]
        BY <2>1, <2>2, <2>5, <3>1
      <3>3. CASE q = n
        BY <1>2, <2>1, <2>3, <2>4, <2>5, <3>1, <3>2, <3>3
      <3>4. CASE q \in DOMAIN rx[s]
        BY <1>2, <2>1, <2>5, <3>1, <3>2, <3>4 DEF OrderInv
      <3> QED
        BY <2>1, <3>3, <3>4
    <2> QED
      BY <1>2, <2>1, <2>5 DEF OrderInv
  <1> QED
    BY <1>1, <1>2, Grows

\* Positions received keep their fragments, a new one is behind them.
LEMMA Keeps ==
  ASSUME TypeOK, FragInv, TakenInv, LoopInv, [Next]_vars, NEW s \in Slots
  PROVE  /\ \A p \in DOMAIN rx[s] : p \in DOMAIN rx'[s] /\ rx'[s][p] = rx[s][p]
         /\ \A p \in DOMAIN rx'[s] : p \in DOMAIN rx[s] \/ \A q \in DOMAIN rx[s] : q < p
         /\ cut[s] \subseteq cut'[s]
  <1>1. CASE UNCHANGED rx
    BY <1>1, Grows
  <1>2. ASSUME NEW t \in Slots, NEW c \in Conns, NEW last \in BOOLEAN, ReadData(t, c, last)
        PROVE  /\ \A p \in DOMAIN rx[s] : p \in DOMAIN rx'[s] /\ rx'[s][p] = rx[s][p]
               /\ \A p \in DOMAIN rx'[s] : p \in DOMAIN rx[s] \/ \A q \in DOMAIN rx[s] : q < p
    <2> DEFINE n == Len(rx[t]) + 1
               m == IF Begun(t, c) = 0 THEN n ELSE Begun(t, c)
               x == [conn |-> c, msg |-> m, last |-> last]
    <2>1. /\ n \in Nat /\ rx'[t][n] = x
          /\ \A p \in DOMAIN rx[t] : p \in DOMAIN rx'[t] /\ p < n /\ rx'[t][p] = rx[t][p]
          /\ \A p \in DOMAIN rx'[t] : p = n \/ p \in DOMAIN rx[t]
          /\ \A u \in Slots : u # t => rx'[u] = rx[u]
      BY <1>2, AppendFacts
    <2> HIDE DEF n
    <2> QED
      BY <2>1
  <1> QED
    BY <1>1, <1>2, Grows

-----------------------------------------------------------------------------
(* What read() takes.                                                      *)

\* What a step does to the read() in progress.
LEMMA ReaderSteps ==
  ASSUME TypeOK, TakenInv, [Next]_vars
  PROVE  \/ /\ rd'.got = <<>> /\ rd'.pc \notin {"loop", "done"}
            /\ \/ Call \/ ScanSlot \/ ScanEnd \/ Wake \/ GiveUp \/ IoOpen
               \/ ReadBug \/ ReadFault \/ ReadReturn
         \/ /\ rd'.pc = rd.pc /\ rd'.slot = rd.slot /\ rd'.conn = rd.conn /\ rd'.idx = rd.idx /\ rd'.got = rd.got
            /\ UNCHANGED gone
         \/ ReadFirst
         \/ ReadSkip
         \/ ReadFragment
  <1>1. rd \in Reader
    BY DEF TypeOK, Reader
  <1>2. WakeUp => /\ rd'.pc = rd.pc /\ rd'.slot = rd.slot /\ rd'.conn = rd.conn /\ rd'.idx = rd.idx
                  /\ rd'.got = rd.got
    BY <1>1 DEF WakeUp, Reader
  <1>3. ASSUME NEW s \in Slots, \/ PollData(s)
                                \/ \E c \in Conns, last \in BOOLEAN : ReadData(s, c, last)
                                \/ ReadDataError(s)
                                \/ SlotShutdown(s)
                                \/ SlotRunning(s)
        PROVE  /\ rd'.pc = rd.pc /\ rd'.slot = rd.slot /\ rd'.conn = rd.conn /\ rd'.idx = rd.idx /\ rd'.got = rd.got
               /\ UNCHANGED gone
    BY <1>2, <1>3 DEF PollData, ReadData, ReadDataError, SlotShutdown, SlotRunning, Stop
  <1>4. CASE \/ ReadDataBegin \/ ReadDataRest \/ ReadDataWake \/ ReadNothing \/ IoRelease
             \/ IoReset \/ ResetSlot \/ ResetEnd \/ ReadHdr \/ UNCHANGED vars
    BY <1>2, <1>4 DEF ReadDataBegin, ReadDataRest, ReadDataWake, ReadNothing, IoRelease,
                      IoReset, ResetSlot, ResetEnd, Stop, ReadHdr, vars
  <1>5. CASE IoOpen
    BY <1>5 DEF IoOpen, TakenInv
  <1>6. CASE Call \/ GiveUp \/ ReadBug \/ ReadFault \/ ReadReturn
    <2>1. rd' = Out \/ rd' = Scan(Out)
      BY <1>6 DEF Call, GiveUp, ReadBug, ReadFault, ReadReturn
    <2>2. Out.got = <<>> /\ Out.pc = "out" /\ Scan(Out).got = <<>> /\ Scan(Out).pc = "scan"
      BY DEF Out, Scan
    <2>3. rd'.got = <<>> /\ rd'.pc \notin {"loop", "done"}
      BY <2>1, <2>2
    <2> QED
      BY <1>6, <2>3
  <1>7. CASE ScanSlot
    <2>1. rd.got = <<>> /\ rd.pc = "scan"
      BY <1>7 DEF ScanSlot, TakenInv
    <2>2. \/ rd' = Out \/ rd' = [Out EXCEPT !.pc = "first", !.slot = rd.slot]
          \/ \E c \in {rd.conn, Connection(rd.slot, rd.conn)} :
               rd' = [rd EXCEPT !.slot = (rd.slot + 1) % SlotCount, !.seen = rd.seen + 1, !.conn = c]
      BY <1>7 DEF ScanSlot
    <2>3. \A t, k, c : LET r == [rd EXCEPT !.slot = t, !.seen = k, !.conn = c] IN r.got = rd.got /\ r.pc = rd.pc
      BY <1>1 DEF Reader
    <2>4. Out.got = <<>> /\ Out.pc = "out"
      BY DEF Out
    <2>5. [Out EXCEPT !.pc = "first", !.slot = rd.slot].got = <<>> /\ [Out EXCEPT !.pc = "first", !.slot = rd.slot].pc = "first"
      BY DEF Out
    <2>6. rd'.got = <<>> /\ rd'.pc \in {"out", "first", "scan"}
      <3>1. CASE rd' = Out
        BY <2>4, <3>1
      <3>2. CASE rd' = [Out EXCEPT !.pc = "first", !.slot = rd.slot]
        BY <2>5, <3>2
      <3>3. ASSUME NEW c,
                   rd' = [rd EXCEPT !.slot = (rd.slot + 1) % SlotCount, !.seen = rd.seen + 1, !.conn = c]
            PROVE  rd'.got = <<>> /\ rd'.pc \in {"out", "first", "scan"}
        BY <2>1, <2>3, <3>3
      <3> QED
        BY <2>2, <3>1, <3>2, <3>3
    <2> QED
      BY <1>7, <2>6
  <1>8. CASE ScanEnd \/ Wake
    <2>1. rd.got = <<>>
      BY <1>8 DEF ScanEnd, Wake, TakenInv
    <2>2. \/ rd' = [rd EXCEPT !.pc = "asleep", !.conn = None, !.seen = 0]
          \/ rd' = [Scan(rd) EXCEPT !.slot = rd.slot, !.queued = TRUE]
          \/ rd' = Scan(rd)
      BY <1>8 DEF ScanEnd, Wake
    <2>3. rd'.got = <<>> /\ rd'.pc \in {"asleep", "scan"}
      BY <1>1, <2>1, <2>2 DEF Scan, Reader
    <2> QED
      BY <1>8, <2>3
  <1> QED
    BY <1>3, <1>4, <1>5, <1>6, <1>7, <1>8 DEF Next

\* The read() is where it was, or there is none.
LEMMA SameFacts ==
  ASSUME TypeOK, FragInv, OrderInv, TakenInv, LoopInv, DoneInv, [Next]_vars,
         \/ rd'.got = <<>> /\ rd'.pc \notin {"loop", "done"}
         \/ /\ rd'.pc = rd.pc /\ rd'.slot = rd.slot /\ rd'.conn = rd.conn /\ rd'.idx = rd.idx /\ rd'.got = rd.got
            /\ UNCHANGED gone
  PROVE  TakenInv' /\ LoopInv' /\ DoneInv'
  <1>1. CASE rd'.got = <<>> /\ rd'.pc \notin {"loop", "done"}
    <2>1. Got' = {}
      BY <1>1 DEF Got
    <2> QED
      BY <1>1, <2>1 DEF TakenInv, LoopInv, DoneInv
  <1>2. CASE /\ rd'.pc = rd.pc /\ rd'.slot = rd.slot /\ rd'.conn = rd.conn /\ rd'.idx = rd.idx /\ rd'.got = rd.got
             /\ UNCHANGED gone
    <2> DEFINE s == rd.slot
    <2>1. s \in Slots /\ Got' = Got /\ rd'.slot = s
      BY <1>2, ReaderFacts DEF Got
    <2>2. /\ \A p \in DOMAIN rx[s] : p \in DOMAIN rx'[s] /\ rx'[s][p] = rx[s][p]
          /\ \A p \in DOMAIN rx'[s] : p \in DOMAIN rx[s] \/ \A q \in DOMAIN rx[s] : q < p
          /\ cut[s] \subseteq cut'[s]
      BY <2>1, Keeps
    <2>3. Got \subseteq gone[s] /\ gone[s] \subseteq DOMAIN rx[s] /\ Got \subseteq Nat
      BY <2>1, SlotFacts, ReaderFacts DEF TakenInv
    <2>4. \A p \in DOMAIN rx'[s] : p \in Nat
      <3>1. TypeOK'
        BY TypeStep
      <3>2. DOMAIN rx'[s] = 1 .. Len(rx'[s]) /\ rx'[s] \in Seq(Fragments)
        BY <2>1, <3>1 DEF TypeOK
      <3> QED
        BY <3>2
    <2>5. TakenInv'
      <3>1. rd'.pc \notin {"loop", "done"} => rd'.got = <<>>
        BY <1>2 DEF TakenInv
      <3>2. Got' \subseteq gone'[s] /\ \A p \in Got : rx'[s][p].conn = rd'.conn
        BY <1>2, <2>1, <2>2, <2>3 DEF TakenInv
      <3>3. \A i, j \in DOMAIN rd'.got : i < j => rd'.got[i] < rd'.got[j]
        BY <1>2 DEF TakenInv
      <3>4. \A p \in DOMAIN rx'[s], q \in Got : rx'[s][p].conn = rd'.conn /\ p < q => p \in gone'[s]
        BY <1>2, <2>2, <2>3, <2>4 DEF TakenInv
      <3>5. \A p, q \in Got : p < q /\ rx'[s][p].msg \notin cut'[s] => rx'[s][q].msg = rx'[s][p].msg
        BY ZenonT(60), <2>2, <2>3 DEF TakenInv
      <3> QED
        BY <2>1, <3>1, <3>2, <3>3, <3>4, <3>5 DEF TakenInv
    <2>6. LoopInv'
      <3> SUFFICES ASSUME rd.pc = "loop"
                   PROVE  /\ \A p \in Got : ~rx'[s][p].last
                          /\ rd.idx # 0 =>
                               /\ rd.idx \in DOMAIN rx'[s] \ gone[s]
                               /\ \A p \in Got : p < rd.idx
                               /\ \A p \in DOMAIN rx'[s] \ gone[s] : p < rd.idx => rx'[s][p].conn # rd.conn
        BY <1>2, <2>1 DEF LoopInv
      <3>1. /\ \A p \in Got : ~rx[s][p].last
            /\ rd.idx # 0 =>
                 /\ rd.idx \in DOMAIN rx[s] \ gone[s]
                 /\ \A p \in Got : p < rd.idx
                 /\ \A p \in DOMAIN rx[s] \ gone[s] : p < rd.idx => rx[s][p].conn # rd.conn
        BY DEF LoopInv
      <3>2. rd.idx \in Nat
        BY ReaderFacts
      <3>3. rd.idx # 0 => \A p \in DOMAIN rx'[s] \ gone[s] : p < rd.idx => rx'[s][p].conn # rd.conn
        BY <2>2, <2>4, <3>1, <3>2
      <3> QED
        BY <2>2, <2>3, <3>1, <3>3
    <2>7. DoneInv'
      <3> SUFFICES ASSUME rd.pc = "done"
                   PROVE  /\ \E e \in Got : rx'[s][e].last /\ \A p \in Got : p <= e
                          /\ \A p \in Got : rx'[s][p].msg \notin cut'[s] => 
                               {q \in DOMAIN rx'[s] : rx'[s][q].msg = rx'[s][p].msg} \subseteq Got
        BY <1>2, <2>1 DEF DoneInv, Message
      <3>1. PICK e \in Got : rx[s][e].last /\ \A p \in Got : p <= e
        BY DEF DoneInv
      <3>2. ASSUME NEW p \in Got, rx'[s][p].msg \notin cut'[s], NEW q \in DOMAIN rx'[s], rx'[s][q].msg = rx'[s][p].msg
            PROVE  q \in Got
        <4>1. p \in DOMAIN rx[s] /\ rx[s][p].msg \notin cut[s] /\ rx'[s][p] = rx[s][p] /\ e \in DOMAIN rx[s]
          BY <2>2, <2>3, <3>1, <3>2
        <4>2. CASE q \in DOMAIN rx[s]
          <5>1. q \in Message(s, rx[s][p].msg)
            BY <2>2, <3>2, <4>1, <4>2 DEF Message
          <5> QED
            BY <4>1, <5>1 DEF DoneInv
        <4>3. CASE \A r \in DOMAIN rx[s] : r < q
          <5>1. FragInv' /\ OrderInv'
            BY FragStep, OrderStep
          <5>2. e < q /\ rx'[s][e] = rx[s][e]
            BY <2>2, <4>1, <4>3
          <5>3. rx[s][p].msg \in Nat /\ rx[s][p].msg <= p /\ p <= e /\ p \in Nat /\ e \in Nat
            BY <2>1, <2>3, <3>1, <4>1, MsgFacts, SlotFacts
          <5>4. rx'[s][q].conn = rx'[s][e].conn
            <6>1. rx'[s][q].conn = rx'[s][p].conn
              BY <2>1, <2>2, <3>2, <4>1, <5>1 DEF FragInv
            <6> QED
              BY <3>1, <4>1, <5>2, <6>1 DEF TakenInv
          <5>5. rx'[s][q].msg > e
            BY <2>1, <2>2, <3>1, <3>2, <4>1, <5>1, <5>2, <5>4 DEF OrderInv
          <5> QED
            BY <3>2, <4>1, <5>3, <5>5
        <4> QED
          BY <2>2, <3>2, <4>2, <4>3
      <3> QED
        BY <2>2, <2>3, <3>1, <3>2
    <2> QED
      BY <2>5, <2>6, <2>7
  <1> QED
    BY <1>1, <1>2

\* The connection is determined, and the search for its fragments begins.
LEMMA FirstFacts ==
  ASSUME TypeOK, TakenInv, ReadFirst
  PROVE  TakenInv' /\ LoopInv' /\ DoneInv'
  <1> DEFINE s == rd.slot
  <1>1. /\ s \in Slots /\ rd.got = <<>>
        /\ rd' = [rd EXCEPT !.pc = "loop", !.idx = PktNext(s, 0), !.conn = Connection(s, None)]
        /\ UNCHANGED <<rx, gone, cut>>
    BY ReaderFacts DEF ReadFirst, TakenInv
  <1>2. rd'.pc = "loop" /\ rd'.idx = PktNext(s, 0) /\ rd'.got = <<>> /\ rd'.slot = s
    BY <1>1 DEF TypeOK
  <1>3. Got' = {}
    BY <1>2 DEF Got
  <1>4. \A p \in DOMAIN rx[s] \ gone[s] : p \in Nat /\ p > 0
    BY <1>1, SlotFacts
  <1>5. PktNext(s, 0) # 0 =>
          /\ PktNext(s, 0) \in DOMAIN rx[s] \ gone[s]
          /\ \A p \in DOMAIN rx[s] \ gone[s] : ~(p < PktNext(s, 0))
    BY <1>1, <1>4, NextFacts
  <1> HIDE DEF s
  <1>6. TakenInv' /\ DoneInv'
    BY <1>2, <1>3 DEF TakenInv, DoneInv
  <1>7. LoopInv'
    BY <1>1, <1>2, <1>3, <1>5 DEF LoopInv
  <1> QED
    BY <1>6, <1>7

\* A fragment of another connection is passed over.
LEMMA SkipFacts ==
  ASSUME TypeOK, TakenInv, LoopInv, ReadSkip
  PROVE  TakenInv' /\ LoopInv' /\ DoneInv'
  <1> DEFINE s == rd.slot
             i == rd.idx
  <1>1. /\ s \in Slots /\ rd.pc = "loop" /\ i # 0 /\ i \in Nat /\ rx[s][i].conn # rd.conn
        /\ rd' = [rd EXCEPT !.idx = PktNext(s, i)]
        /\ UNCHANGED <<rx, gone, cut>>
    BY ReaderFacts DEF ReadSkip, Mine
  <1>2. rd'.pc = "loop" /\ rd'.idx = PktNext(s, i) /\ rd'.got = rd.got /\ rd'.slot = s /\ rd'.conn = rd.conn
    BY <1>1 DEF TypeOK
  <1>3. Got' = Got /\ Got \subseteq Nat
    BY <1>2, ReaderFacts DEF Got
  <1>4. \A p \in DOMAIN rx[s] \ gone[s] : p \in Nat
    BY <1>1, SlotFacts
  <1>5. PktNext(s, i) # 0 =>
          /\ PktNext(s, i) \in DOMAIN rx[s] \ gone[s] /\ PktNext(s, i) > i
          /\ \A p \in DOMAIN rx[s] \ gone[s] : p > i => ~(p < PktNext(s, i))
    BY <1>1, <1>4, NextFacts
  <1>6. TakenInv' /\ DoneInv'
    BY <1>1, <1>2, <1>3 DEF TakenInv, DoneInv
  <1>7. /\ \A p \in Got : ~rx[s][p].last /\ p < i
        /\ \A p \in DOMAIN rx[s] \ gone[s] : p < i => rx[s][p].conn # rd.conn
    BY <1>1 DEF LoopInv
  <1>8. PktNext(s, i) # 0 =>
          /\ \A p \in Got : p < PktNext(s, i)
          /\ \A p \in DOMAIN rx[s] \ gone[s] : p < PktNext(s, i) => rx[s][p].conn # rd.conn
    BY <1>1, <1>3, <1>4, <1>5, <1>7
  <1> HIDE DEF s, i
  <1>9. LoopInv'
    BY <1>1, <1>2, <1>3, <1>5, <1>7, <1>8 DEF LoopInv
  <1> QED
    BY <1>6, <1>9

\* The fragment is added to those taken.
LEMMA GotFacts ==
  ASSUME TypeOK, ReadFragment
  PROVE  LET i == rd.idx IN
         /\ DOMAIN Append(rd.got, i) = 1 .. Len(rd.got) + 1 /\ Len(rd.got) \in Nat /\ DOMAIN rd.got = 1 .. Len(rd.got)
         /\ Append(rd.got, i)[Len(rd.got) + 1] = i
         /\ \A j \in DOMAIN rd.got : Append(rd.got, i)[j] = rd.got[j] /\ rd.got[j] \in Got
         /\ Got' = Got \cup {i}
  <1> DEFINE i == rd.idx
  <1>1. i # 0 /\ i \in Nat
    BY ReaderFacts DEF ReadFragment, Mine
  <1>2. rd'.got = Append(rd.got, i)
    BY DEF ReadFragment, TypeOK
  <1>3. /\ DOMAIN Append(rd.got, i) = 1 .. Len(rd.got) + 1 /\ Len(rd.got) \in Nat /\ DOMAIN rd.got = 1 .. Len(rd.got)
        /\ Append(rd.got, i)[Len(rd.got) + 1] = i
        /\ \A j \in DOMAIN rd.got : Append(rd.got, i)[j] = rd.got[j] /\ rd.got[j] \in Got
    <2>1. rd.got \in Seq(1 .. MaxFrags) /\ i \in 1 .. MaxFrags
      BY <1>1, ReaderFacts
    <2> QED
      BY <2>1, SeqFacts DEF Got
  <1>4. Got' = Got \cup {i}
    <2>1. Got' = {Append(rd.got, i)[j] : j \in 1 .. Len(rd.got) + 1}
      BY <1>2, <1>3 DEF Got
    <2>2. 1 .. Len(rd.got) + 1 = DOMAIN rd.got \cup {Len(rd.got) + 1}
      BY <1>3
    <2>3. \A j \in 1 .. Len(rd.got) + 1 : Append(rd.got, i)[j] \in Got \cup {i}
      BY <1>3, <2>2
    <2>4. i \in Got'
      BY <1>3, <2>1, <2>2
    <2>5. ASSUME NEW p \in Got
          PROVE  p \in Got'
      <3>1. PICK j \in DOMAIN rd.got : p = rd.got[j]
        BY DEF Got
      <3> QED
        BY <1>3, <2>1, <2>2, <3>1
    <2> QED
      BY <2>1, <2>3, <2>4, <2>5
  <1> QED
    BY <1>3, <1>4

\* The next fragment of the connection is taken: it belongs to the message of those
\* taken before, if that is not cut, and the last one completes it.
LEMMA FragmentFacts ==
  ASSUME TypeOK, FragInv, OrderInv, WholeInv, TakenInv, LoopInv, HdrInv, ReadFragment
  PROVE  TakenInv' /\ LoopInv' /\ DoneInv'
  <1> DEFINE s == rd.slot
             i == rd.idx
  <1>1. /\ s \in Slots /\ rd.pc = "loop" /\ i # 0 /\ i \in Nat /\ rx[s][i].conn = rd.conn
        /\ gone' = [gone EXCEPT ![s] = @ \cup {i}]
        /\ rd' = [rd EXCEPT !.got = Append(@, i), !.idx = PktNext(s, i), !.pc = IF rx[s][i].last THEN "done" ELSE "loop"]
        /\ UNCHANGED <<rx, cut>>
    BY ReaderFacts DEF ReadFragment, Mine, HdrInv
  <1>2. /\ rd'.pc = IF rx[s][i].last THEN "done" ELSE "loop"
        /\ rd'.idx = PktNext(s, i) /\ rd'.got = Append(rd.got, i) /\ rd'.slot = s /\ rd'.conn = rd.conn
        /\ gone'[s] = gone[s] \cup {i}
    BY <1>1 DEF TypeOK
  <1>3. /\ \A p \in Got : ~rx[s][p].last /\ p < i
        /\ i \in DOMAIN rx[s] \ gone[s]
        /\ \A p \in DOMAIN rx[s] \ gone[s] : p < i => rx[s][p].conn # rd.conn
    BY <1>1 DEF LoopInv
  <1>4. /\ Got \subseteq gone[s] /\ gone[s] \subseteq DOMAIN rx[s] /\ Got \subseteq Nat
        /\ \A p \in Got : rx[s][p].conn = rd.conn
        /\ \A p, q \in Got : p < q /\ rx[s][p].msg \notin cut[s] => rx[s][q].msg = rx[s][p].msg
        /\ \A p \in DOMAIN rx[s] : p \in Nat
    BY <1>1, SlotFacts, ReaderFacts DEF TakenInv
  <1>5. /\ DOMAIN Append(rd.got, i) = 1 .. Len(rd.got) + 1 /\ Len(rd.got) \in Nat /\ DOMAIN rd.got = 1 .. Len(rd.got)
        /\ Append(rd.got, i)[Len(rd.got) + 1] = i
        /\ \A j \in DOMAIN rd.got : Append(rd.got, i)[j] = rd.got[j] /\ rd.got[j] \in Got
    BY GotFacts
  <1>6. Got' = Got \cup {i}
    BY GotFacts
  <1>7. \A p \in DOMAIN rx[s] : p < i /\ rx[s][p].conn = rd.conn => p \in gone[s]
    BY <1>3
  \* No end of a message was passed without being taken.
  <1>8. ASSUME NEW p \in Got, rx[s][p].msg \notin cut[s]
        PROVE  rx[s][i].msg = rx[s][p].msg
    <2> SUFFICES ASSUME rx[s][i].msg # rx[s][p].msg
                 PROVE  FALSE
      OBVIOUS
    <2>1. p \in DOMAIN rx[s] /\ p < i /\ rx[s][p].conn = rx[s][i].conn /\ p \in Nat
      BY <1>1, <1>3, <1>4
    <2>2. PICK r \in p .. i - 1 : rx[s][r].msg = rx[s][p].msg /\ rx[s][r].last
      BY <1>1, <1>3, <1>8, <2>1 DEF OrderInv
    <2>3. r \in DOMAIN rx[s] /\ r < i
      BY <1>1, <1>3, <2>1, SlotFacts
    <2>4. rx[s][r].conn = rd.conn
      BY <1>1, <2>1, <2>2, <2>3 DEF FragInv
    <2>5. r \in gone[s]
      BY <1>7, <2>3, <2>4
    <2>6. r \notin Got
      BY <1>3, <2>2
    <2>7. r \in Old(s)
      BY <2>5, <2>6 DEF Old
    <2>8. p \in Message(s, rx[s][r].msg)
      BY <2>1, <2>2 DEF Message
    <2>9. p \in Old(s)
      BY <1>1, <1>8, <2>2, <2>3, <2>7, <2>8 DEF WholeInv
    <2> QED
      BY <2>9 DEF Old
  <1>9. TakenInv'
    <2>1. Got' \subseteq gone'[s] /\ \A p \in Got' : rx[s][p].conn = rd.conn
      BY <1>1, <1>2, <1>4, <1>6
    <2>2. \A j, k \in DOMAIN rd'.got : j < k => rd'.got[j] < rd'.got[k]
      <3>1. ASSUME NEW j \in 1 .. Len(rd.got) + 1, NEW k \in 1 .. Len(rd.got) + 1, j < k
            PROVE  Append(rd.got, i)[j] < Append(rd.got, i)[k]
        <4>1. j \in DOMAIN rd.got
          BY <1>5, <3>1
        <4>2. CASE k = Len(rd.got) + 1
          BY <1>3, <1>5, <4>1, <4>2
        <4>3. CASE k \in DOMAIN rd.got
          BY <1>5, <3>1, <4>1, <4>3 DEF TakenInv
        <4> QED
          BY <1>5, <4>2, <4>3
      <3> QED
        BY <1>2, <1>5, <3>1
    <2>3. \A p \in DOMAIN rx[s], q \in Got' : rx[s][p].conn = rd.conn /\ p < q => p \in gone'[s]
      BY <1>2, <1>6, <1>7 DEF TakenInv
    <2>4. \A p, q \in Got' : p < q /\ rx[s][p].msg \notin cut[s] => rx[s][q].msg = rx[s][p].msg
      BY <1>1, <1>3, <1>4, <1>6, <1>8
    <2>5. rd'.pc \in {"loop", "done"}
      BY <1>2
    <2> HIDE DEF s, i
    <2> QED
      BY <1>1, <1>2, <2>1, <2>2, <2>3, <2>4, <2>5 DEF TakenInv
  <1>10. LoopInv'
    <2> SUFFICES ASSUME rd'.pc = "loop"
                 PROVE  /\ \A p \in Got' : ~rx[s][p].last
                        /\ rd'.idx # 0 =>
                             /\ rd'.idx \in DOMAIN rx[s] \ gone'[s]
                             /\ \A p \in Got' : p < rd'.idx
                             /\ \A p \in DOMAIN rx[s] \ gone'[s] : p < rd'.idx => rx[s][p].conn # rd'.conn
      BY <1>1, <1>2 DEF LoopInv
    <2>1. ~rx[s][i].last
      BY <1>2
    <2>2. PktNext(s, i) # 0 =>
            /\ PktNext(s, i) \in DOMAIN rx[s] \ gone[s] /\ PktNext(s, i) > i
            /\ \A p \in DOMAIN rx[s] \ gone[s] : p > i => ~(p < PktNext(s, i))
      BY <1>1, <1>4, NextFacts
    <2>3. PktNext(s, i) # 0 => PktNext(s, i) \in Nat
      BY <1>4, <2>2
    <2>4. ASSUME PktNext(s, i) # 0, NEW p \in DOMAIN rx[s] \ gone'[s], p < PktNext(s, i)
          PROVE  rx[s][p].conn # rd.conn
      BY <1>1, <1>2, <1>3, <1>4, <2>2, <2>4
    <2> QED
      BY <1>1, <1>2, <1>3, <1>4, <1>6, <2>1, <2>2, <2>3, <2>4
  <1>11. DoneInv'
    <2> SUFFICES ASSUME rd'.pc = "done"
                 PROVE  /\ \E e \in Got' : rx[s][e].last /\ \A p \in Got' : p <= e
                        /\ \A p \in Got' : rx[s][p].msg \notin cut[s] => Message(s, rx[s][p].msg) \subseteq Got'
      BY <1>1, <1>2 DEF DoneInv, Message
    <2>1. rx[s][i].last
      BY <1>2
    <2>2. \E e \in Got' : rx[s][e].last /\ \A p \in Got' : p <= e
      BY <1>1, <1>3, <1>4, <1>6, <2>1
    <2>3. ASSUME NEW p \in Got', rx[s][p].msg \notin cut[s], NEW r \in Message(s, rx[s][p].msg)
          PROVE  r \in Got'
      <3>1. rx[s][i].msg = rx[s][p].msg
        BY <1>6, <1>8, <2>3
      <3>2. r \in DOMAIN rx[s] /\ rx[s][r].msg = rx[s][i].msg /\ r \in Nat
        BY <1>4, <2>3, <3>1 DEF Message
      <3>3. rx[s][r].conn = rd.conn
        BY <1>1, <1>3, <3>2 DEF FragInv
      <3>4. CASE r < i
        <4>1. r \in gone[s]
          BY <1>7, <3>2, <3>3, <3>4
        <4>2. i \notin Old(s) /\ i \in Message(s, rx[s][r].msg)
          BY <1>3, <3>2 DEF Old, Message
        <4>3. r \notin Old(s)
          BY <1>1, <2>3, <3>1, <3>2, <4>2 DEF WholeInv
        <4> QED
          BY <1>6, <4>1, <4>3 DEF Old
      <3>5. CASE i < r
        <4>1. rx[s][r].msg > i
          BY <1>1, <1>3, <2>1, <3>2, <3>3, <3>5 DEF OrderInv
        <4>2. rx[s][i].msg <= i /\ rx[s][i].msg \in Nat
          BY <1>1, <1>3, MsgFacts, SlotFacts
        <4> QED
          BY <1>1, <3>2, <4>1, <4>2
      <3> QED
        BY <1>1, <1>6, <3>2, <3>4, <3>5
    <2> QED
      BY <2>2, <2>3
  <1> QED
    BY <1>9, <1>10, <1>11

\* What the header of the fragment shows stays true, as long as it was not misread.
LEMMA HdrStep ==
  ASSUME TypeOK, FragInv, TakenInv, LoopInv, HdrInv, [Next]_vars, torn' = "no"
  PROVE  HdrInv'
  <1> SUFFICES ASSUME hdr' # "none"
               PROVE  rd'.pc = "loop" /\ Mine' /\ (hdr' = "last" <=> rx'[rd'.slot][rd'.idx].last)
    BY DEF HdrInv
  <1>1. CASE ReadHdr
    <2>1. /\ rd.pc = "loop" /\ Mine /\ UNCHANGED <<rx, rd>>
          /\ hdr' = IF rx[rd.slot][rd.idx].last THEN "last" ELSE "more"
      BY <1>1 DEF ReadHdr
    <2>2. hdr' = "last" <=> rx[rd.slot][rd.idx].last
      BY <2>1
    <2> QED
      BY <2>1, <2>2 DEF Mine
  <1>2. CASE ~ReadHdr
    <2>0. ~ReadFragment /\ ~ReadFault
      BY DEF ReadFragment, ReadFault
    <2>1. \/ \E s \in Slots : \/ PollData(s)
                              \/ \E c \in Conns, last \in BOOLEAN : ReadData(s, c, last)
                              \/ ReadDataError(s)
                              \/ SlotShutdown(s)
                              \/ SlotRunning(s)
          \/ ReadDataBegin \/ ReadDataRest \/ ReadDataWake \/ ReadNothing \/ IoOpen \/ IoRelease
          \/ IoReset \/ ResetSlot \/ ResetEnd \/ UNCHANGED vars
          \/ Call \/ ScanSlot \/ ScanEnd \/ Wake \/ GiveUp
          \/ ReadFirst \/ ReadSkip \/ ReadBug \/ ReadReturn
      BY <1>2, <2>0 DEF Next
    <2>2. hdr' = hdr
      BY <2>1 DEF PollData, ReadData, ReadDataError, SlotShutdown, SlotRunning, Stop,
                  ReadDataBegin, ReadDataRest, ReadDataWake, ReadNothing, IoOpen, IoRelease, IoReset, ResetSlot, ResetEnd,
                  vars, Call, ScanSlot, ScanEnd, Wake, GiveUp, ReadFirst, ReadSkip, ReadBug, ReadReturn
    <2>3. rd.pc = "loop" /\ Mine /\ (hdr = "last" <=> rx[rd.slot][rd.idx].last) /\ rd.idx # 0
      BY <2>2 DEF HdrInv, Mine
    <2>4. /\ ~Call /\ ~ScanSlot /\ ~ScanEnd /\ ~Wake /\ ~GiveUp /\ ~IoOpen /\ ~ReadFirst /\ ~ReadReturn
          /\ ~ReadSkip /\ ~ReadBug
      BY <2>3 DEF Call, ScanSlot, ScanEnd, Wake, GiveUp, IoOpen, ReadFirst, ReadReturn, ReadSkip, ReadBug
    <2>6. rd'.pc = rd.pc /\ rd'.slot = rd.slot /\ rd'.conn = rd.conn /\ rd'.idx = rd.idx
      BY <2>0, <2>4, ReaderSteps
    <2>7. rd.slot \in Slots /\ rd.idx \in DOMAIN rx[rd.slot]
      BY <2>3, ReaderFacts DEF LoopInv
    <2>8. rx'[rd.slot][rd.idx] = rx[rd.slot][rd.idx]
      BY <2>7, Keeps
    <2> QED
      BY <2>2, <2>3, <2>6, <2>8 DEF Mine
  <1> QED
    BY <1>1, <1>2

LEMMA TakenStep ==
  ASSUME TypeOK, FragInv, OrderInv, WholeInv, TakenInv, LoopInv, DoneInv, HdrInv, [Next]_vars
  PROVE  TakenInv' /\ LoopInv' /\ DoneInv'
  BY ReaderSteps, SameFacts, FirstFacts, SkipFacts, FragmentFacts

-----------------------------------------------------------------------------
(* What has been disposed of.                                              *)

\* Nothing is disposed of, and the read() in progress has taken what it had.
LEMMA OldFacts ==
  ASSUME TypeOK, FragInv, OrderInv, WholeInv, TakenInv, LoopInv, [Next]_vars, \A s \in Slots : Old(s)' = Old(s)
  PROVE  WholeInv'
  <1> SUFFICES ASSUME NEW s \in Slots, NEW p \in DOMAIN rx'[s], p \in Old(s), rx'[s][p].msg \notin cut'[s]
               PROVE  /\ \A q \in DOMAIN rx'[s] : rx'[s][q].msg = rx'[s][p].msg => q \in Old(s)
                      /\ \E q \in DOMAIN rx'[s] : rx'[s][q].msg = rx'[s][p].msg /\ rx'[s][q].last
    BY DEF WholeInv, Message
  <1>1. /\ \A q \in DOMAIN rx[s] : q \in DOMAIN rx'[s] /\ rx'[s][q] = rx[s][q]
        /\ \A q \in DOMAIN rx'[s] : q \in DOMAIN rx[s] \/ \A r \in DOMAIN rx[s] : r < q
        /\ cut[s] \subseteq cut'[s]
    BY Keeps
  <1>2. p \in DOMAIN rx[s]
    BY SlotFacts DEF Old
  <1>3. rx'[s][p] = rx[s][p] /\ rx[s][p].msg \notin cut[s]
    BY <1>1, <1>2
  <1>4. /\ \A q \in DOMAIN rx[s] : rx[s][q].msg = rx[s][p].msg => q \in Old(s)
        /\ \E q \in DOMAIN rx[s] : rx[s][q].msg = rx[s][p].msg /\ rx[s][q].last
    BY <1>2, <1>3 DEF WholeInv, Message
  <1>5. PICK e \in DOMAIN rx[s] : rx[s][e].msg = rx[s][p].msg /\ rx[s][e].last
    BY <1>4
  <1>6. ASSUME NEW q \in DOMAIN rx'[s], rx'[s][q].msg = rx'[s][p].msg, e < q
        PROVE  q \in DOMAIN rx[s]
    <2>1. FragInv' /\ OrderInv'
      BY FragStep, OrderStep
    <2>2. e \in DOMAIN rx'[s] /\ rx'[s][e] = rx[s][e]
      BY <1>1
    <2>3. rx'[s][q].conn = rx'[s][e].conn
      BY <1>3, <1>5, <1>6, <2>1, <2>2 DEF FragInv
    <2>4. rx'[s][q].msg > e
      BY <1>5, <1>6, <2>1, <2>2, <2>3 DEF OrderInv
    <2>5. rx[s][e].msg <= e /\ rx[s][e].msg \in Nat /\ e \in Nat
      BY MsgFacts, SlotFacts
    <2> QED
      BY <1>3, <1>5, <1>6, <2>4, <2>5
  <1> QED
    BY <1>1, <1>3, <1>4, <1>5, <1>6

LEMMA WholeStep ==
  ASSUME TypeOK, FragInv, OrderInv, WholeInv, TakenInv, LoopInv, DoneInv, [Next]_vars
  PROVE  WholeInv'
  <1>0. rd \in Reader /\ rd.slot \in Slots /\ (rd.got = <<>> => Got = {}) /\ (rd'.got = <<>> => Got' = {})
    BY ReaderFacts DEF TypeOK, Reader, Got
  <1>1. CASE ReadReturn
    <2>1. rd.pc = "done" /\ UNCHANGED <<rx, gone, cut>> /\ Got' = {}
      BY <1>0, <1>1 DEF ReadReturn, Out
    <2>2. ASSUME NEW s \in Slots, NEW p \in DOMAIN rx[s], p \in gone[s], rx[s][p].msg \notin cut[s]
          PROVE  /\ \A q \in Message(s, rx[s][p].msg) : q \in gone[s]
                 /\ \E q \in Message(s, rx[s][p].msg) : rx[s][q].last
      <3>1. CASE s = rd.slot /\ p \in Got
        <4>1. Message(s, rx[s][p].msg) \subseteq gone[s]
          BY <2>1, <2>2, <3>1 DEF DoneInv, TakenInv
        <4>2. PICK e \in Got : rx[s][e].last /\ p <= e
          BY <2>1, <3>1 DEF DoneInv
        <4>3. e \in DOMAIN rx[s] /\ e \in Nat /\ p \in Nat
          BY <2>2, <3>1, SlotFacts, ReaderFacts DEF TakenInv
        <4>4. rx[s][e].msg = rx[s][p].msg
          BY <2>2, <3>1, <4>2, <4>3 DEF TakenInv
        <4> QED
          BY <4>1, <4>2, <4>3, <4>4 DEF Message
      <3>2. CASE ~(s = rd.slot /\ p \in Got)
        <4>1. p \in Old(s) /\ Old(s) \subseteq gone[s]
          BY <2>2, <3>2 DEF Old
        <4> QED
          BY <2>2, <4>1 DEF WholeInv
      <3> QED
        BY <3>1, <3>2
    <2>3. \A s \in Slots : Old(s)' = gone[s]
      BY <2>1 DEF Old
    <2>4. \A s, m : Message(s, m)' = Message(s, m)
      BY <2>1 DEF Message
    <2> QED
      BY <2>1, <2>2, <2>3, <2>4 DEF WholeInv, Message
  <1>2. CASE ReadBug \/ ReadFault
    <2>1. UNCHANGED <<rx, gone>> /\ Got' = {}
          /\ cut' = [cut EXCEPT ![rd.slot] = @ \cup {rx[rd.slot][rd.got[i]].msg : i \in DOMAIN rd.got}]
      BY <1>0, <1>2 DEF ReadBug, ReadFault, Lose, Out
    <2>2. /\ \A s \in Slots : cut[s] \subseteq cut'[s]
          /\ \A p \in Got : rx[rd.slot][p].msg \in cut'[rd.slot]
      BY <1>0, <2>1 DEF Got, TypeOK
    <2>3. \A s \in Slots : Old(s)' = gone[s]
      BY <2>1 DEF Old
    <2> SUFFICES ASSUME NEW s \in Slots, NEW p \in DOMAIN rx[s], p \in gone[s], rx[s][p].msg \notin cut'[s]
                 PROVE  /\ \A q \in DOMAIN rx[s] : rx[s][q].msg = rx[s][p].msg => q \in gone[s]
                        /\ \E q \in DOMAIN rx[s] : rx[s][q].msg = rx[s][p].msg /\ rx[s][q].last
      <3>1. \A s \in Slots : \A m : Message(s, m)' = {p \in DOMAIN rx[s] : rx[s][p].msg = m}
        BY <2>1 DEF Message
      <3>2. rx' = rx
        BY <2>1
      <3> QED
        BY <2>3, <3>1, <3>2 DEF WholeInv
    <2>4. p \in Old(s) /\ Old(s) \subseteq gone[s] /\ rx[s][p].msg \notin cut[s]
      BY <2>2 DEF Old
    <2> QED
      BY <2>4 DEF WholeInv, Message
  <1>3. CASE IoOpen
    <2>1. /\ UNCHANGED <<rx, rd>> /\ Got = {} /\ Got' = {}
          /\ gone' = [s \in Slots |-> IF running[s] THEN DOMAIN rx[s] ELSE gone[s]]
          /\ cut' = [s \in Slots |-> IF running[s] THEN cut[s] \cup {rx[s][p].msg : p \in DOMAIN rx[s] \ gone[s]} ELSE cut[s]]
      BY <1>0, <1>3 DEF IoOpen, TakenInv
    <2>2. \A s \in Slots : Old(s) = gone[s] /\ Old(s)' = gone'[s]
      BY <2>1 DEF Old
    <2>3. ASSUME NEW s \in Slots, NEW p \in DOMAIN rx[s], p \in gone'[s], rx[s][p].msg \notin cut'[s]
          PROVE  /\ \A q \in DOMAIN rx[s] : rx[s][q].msg = rx[s][p].msg => q \in gone'[s]
                 /\ \E q \in DOMAIN rx[s] : rx[s][q].msg = rx[s][p].msg /\ rx[s][q].last
      <3>1. p \in gone[s] /\ rx[s][p].msg \notin cut[s] /\ gone[s] \subseteq gone'[s]
        BY <2>1, <2>3, SlotFacts
      <3> QED
        BY <2>2, <2>3, <3>1 DEF WholeInv, Message
    <2> QED
      BY <2>1, <2>2, <2>3 DEF WholeInv, Message
  <1>4. CASE ReadFragment
    <2>1. /\ rd.pc = "loop" /\ rd.idx \in DOMAIN rx[rd.slot] \ gone[rd.slot]
          /\ gone' = [gone EXCEPT ![rd.slot] = @ \cup {rd.idx}] /\ rd'.slot = rd.slot
      BY <1>0, <1>4 DEF ReadFragment, Mine, LoopInv, Reader
    <2>2. Got' = Got \cup {rd.idx}
      BY <1>4, GotFacts
    <2>3. \A s \in Slots : Old(s)' = Old(s)
      BY ZenonT(60), <1>0, <2>1, <2>2 DEF Old, TypeOK, TakenInv
    <2> QED
      BY <2>3, OldFacts
  <1>5. CASE ReadFirst \/ ReadSkip
    <2>1. UNCHANGED gone /\ rd'.got = rd.got /\ rd'.slot = rd.slot
      BY <1>0, <1>5 DEF ReadFirst, ReadSkip, Reader
    <2> QED
      BY <2>1, OldFacts DEF Old, Got
  <1>6. CASE /\ rd'.pc = rd.pc /\ rd'.slot = rd.slot /\ rd'.conn = rd.conn /\ rd'.idx = rd.idx /\ rd'.got = rd.got
             /\ UNCHANGED gone
    BY <1>6, OldFacts DEF Old, Got
  <1>7. CASE Call \/ ScanSlot \/ ScanEnd \/ Wake \/ GiveUp
    <2>1. UNCHANGED gone /\ rd.got = <<>>
      BY <1>7 DEF Call, ScanSlot, ScanEnd, Wake, GiveUp, TakenInv
    <2>2. rd'.got = <<>>
      BY <2>1, <1>7, ReaderSteps DEF Call, ScanSlot, ScanEnd, Wake, GiveUp, ReadFirst, ReadSkip, ReadFragment
    <2> QED
      BY <1>0, <2>1, <2>2, OldFacts DEF Old
  <1> QED
    BY <1>1, <1>2, <1>3, <1>4, <1>5, <1>6, <1>7, ReaderSteps

-----------------------------------------------------------------------------
\* What was misread or cut stays so.
LEMMA TornStep ==
  ASSUME [Next]_vars, torn' = "no"
  PROVE  torn = "no"
  BY DEF Next, PollData, ReadData, ReadDataError, SlotShutdown, SlotRunning, Stop,
         ReadDataBegin, ReadDataRest, ReadDataWake, ReadNothing, IoOpen, IoRelease, IoReset, ResetSlot, ResetEnd,
         vars, Call, ScanSlot, ScanEnd, Wake, GiveUp, ReadFirst, ReadSkip, ReadHdr, ReadFragment, ReadBug, ReadFault,
         ReadReturn

\* What was received, disposed of and taken, as long as the system runs and read() meets
\* whole fragments.
THEOREM FragmentsInvariant == Spec => [](torn = "no" => FragmentsInv)
  <1>1. Init => FragmentsInv
    <2> SUFFICES ASSUME Init
                 PROVE  FragmentsInv
      OBVIOUS
    <2>1. /\ rx = [s \in Slots |-> <<>>] /\ gone = [s \in Slots |-> {}] /\ cut = [s \in Slots |-> {}]
          /\ rd = Out /\ running = [s \in Slots |-> FALSE] /\ open = FALSE /\ thread = -1
          /\ next_read_slot = 0 /\ moved = FALSE /\ put = "no" /\ hdr = "none" /\ reset = -1 /\ torn = "no"
      BY DEF Init
    <2>2. \A s \in Slots : rx[s] = <<>> /\ DOMAIN rx[s] = {} /\ Len(rx[s]) = 0 /\ gone[s] = {} /\ cut[s] = {}
      BY <2>1
    <2>3. rd.pc = "out" /\ rd.got = <<>> /\ Got = {} /\ rd.slot = 0
      BY <2>1 DEF Out, Got
    <2>4. TypeOK
      <3>1. 0 \in Slots /\ MaxFrags \in Nat
        BY SlotAssumption, RoomAssumption DEF Slots
      <3>2. rx \in [Slots -> Seq(Fragments)]
        BY <2>1
      <3>3. rd \in Reader
        BY <2>1, OutType
      <3>4. gone \in [Slots -> SUBSET (1 .. MaxFrags)] /\ cut \in [Slots -> SUBSET (1 .. MaxFrags)]
        BY <2>1
      <3>5. \A s \in Slots : Len(rx[s]) <= MaxFrags /\ gone[s] \subseteq DOMAIN rx[s] /\ cut[s] \subseteq DOMAIN rx[s]
        BY <2>2, <3>1
      <3>6. /\ running \in [Slots -> BOOLEAN] /\ open \in BOOLEAN /\ thread \in Slots \cup {-1}
            /\ next_read_slot \in Slots /\ moved \in BOOLEAN /\ reset \in -1 .. SlotCount
        BY <2>1, <3>1, SlotAssumption
      <3> QED
        BY <2>1, <3>2, <3>3, <3>4, <3>5, <3>6 DEF TypeOK, Reader
    <2>5. FragInv /\ OrderInv /\ WholeInv
      BY <2>2 DEF FragInv, OrderInv, WholeInv
    <2>6. TakenInv /\ LoopInv /\ DoneInv /\ HdrInv
      BY <2>1, <2>3 DEF TakenInv, LoopInv, DoneInv, HdrInv
    <2> QED
      BY <2>4, <2>5, <2>6 DEF FragmentsInv
  <1>2. (torn = "no" => FragmentsInv) /\ [Next]_vars => (torn = "no" => FragmentsInv)'
    BY TornStep, TypeStep, FragStep, OrderStep, WholeStep, TakenStep, HdrStep DEF FragmentsInv
  <1> QED
    BY <1>1, <1>2, PTL DEF Spec

\* What read() returns is one whole message, and messages come in their order.
THEOREM MessagesCorrect == Spec => []MessagesWhole
  <1>1. (torn = "no" => FragmentsInv) => MessagesWhole
    <2> SUFFICES ASSUME FragmentsInv, rd.pc = "done"
                 PROVE  LET s == rd.slot
                            msgs == {rx[s][p].msg : p \in Got}
                        IN  /\ \A p \in Got : rx[s][p].conn = rd.conn
                            /\ \A i \in 1 .. Len(rd.got) - 1 : rd.got[i] < rd.got[i + 1]
                            /\ msgs \cap cut[s] = {} => \E m \in msgs : Got = Message(s, m)
                            /\ \A p \in DOMAIN rx[s] :
                                 rx[s][p].conn = rd.conn /\ (\E q \in Got : p < q) => p \in gone[s]
      BY DEF FragmentsInv, MessagesWhole
    <2> DEFINE s == rd.slot
               msgs == {rx[s][p].msg : p \in Got}
    <2>1. TypeOK /\ TakenInv /\ DoneInv /\ s \in Slots
      BY ReaderFacts DEF FragmentsInv
    <2>2. \A i \in 1 .. Len(rd.got) - 1 : rd.got[i] < rd.got[i + 1]
      <3>1. DOMAIN rd.got = 1 .. Len(rd.got) /\ Len(rd.got) \in Nat
        BY <2>1, ReaderFacts
      <3> QED
        BY <2>1, <3>1 DEF TakenInv
    <2>3. ASSUME msgs \cap cut[s] = {}
          PROVE  \E m \in msgs : Got = Message(s, m)
      <3>1. PICK e \in Got : rx[s][e].last /\ \A p \in Got : p <= e
        BY <2>1 DEF DoneInv
      <3>2. \A p \in Got : rx[s][p].msg \notin cut[s] /\ p \in DOMAIN rx[s] /\ p \in Nat
        BY <2>1, <2>3, SlotFacts DEF TakenInv
      <3>3. \A p \in Got : rx[s][p].msg = rx[s][e].msg
        BY <2>1, <3>1, <3>2 DEF TakenInv
      <3>4. Got = Message(s, rx[s][e].msg)
        BY <2>1, <3>2, <3>3 DEF Message, DoneInv
      <3> QED
        BY <3>1, <3>4
    <2> QED
      BY <2>1, <2>2, <2>3 DEF TakenInv
  <1> QED
    BY <1>1, FragmentsInvariant, PTL

-----------------------------------------------------------------------------
(* The search for a message.                                               *)

\* The slots that io_read_condition comes to, from slot b on.
LEMMA TurnFacts ==
  ASSUME NEW b \in Slots
  PROVE  /\ \A n \in 0 .. SlotCount : (b + n) % SlotCount \in Slots
         /\ (b + 0) % SlotCount = b /\ (b + SlotCount) % SlotCount = b
         /\ \A n \in Slots : (((b + n) % SlotCount) + 1) % SlotCount = (b + (n + 1)) % SlotCount
         /\ \A n, k \in Slots : (b + n) % SlotCount = (b + k) % SlotCount => n = k
  <1> DEFINE At(n) == (b + n) % SlotCount
  <1>1. SlotCount \in Nat /\ SlotCount > 0 /\ b \in Nat /\ b < SlotCount
    BY SlotAssumption DEF Slots
  <1>2. \A k \in Nat : k < 2 * SlotCount => k % SlotCount = IF k < SlotCount THEN k ELSE k - SlotCount
    <2> SUFFICES ASSUME NEW k \in Nat, k < 2 * SlotCount
                 PROVE  k % SlotCount = IF k < SlotCount THEN k ELSE k - SlotCount
      OBVIOUS
    <2>1. CASE k < SlotCount
      BY <1>1, <2>1
    <2>2. CASE k >= SlotCount
      BY <1>1, <2>2
    <2> QED
      BY <1>1, <2>1, <2>2
  <1>3. \A n \in 0 .. SlotCount : At(n) = IF b + n < SlotCount THEN b + n ELSE b + n - SlotCount
    BY <1>1, <1>2
  <1> HIDE DEF At
  <1>4. \A n \in 0 .. SlotCount : At(n) \in Slots
    BY <1>1, <1>3 DEF Slots
  <1>5. At(0) = b /\ At(SlotCount) = b
    BY <1>1, <1>3
  <1>6. \A n \in Slots : n \in Nat /\ n < SlotCount /\ n \in 0 .. SlotCount /\ n + 1 \in 0 .. SlotCount
    BY <1>1 DEF Slots
  <1>7. ASSUME NEW n \in Slots
        PROVE  (At(n) + 1) % SlotCount = At(n + 1)
    <2>1. At(n) + 1 \in Nat /\ At(n) + 1 < 2 * SlotCount
      BY <1>1, <1>4, <1>6 DEF Slots
    <2> QED
      BY <1>1, <1>2, <1>3, <1>6, <2>1
  <1>8. \A n, k \in Slots : At(n) = At(k) => n = k
    BY <1>1, <1>3, <1>6
  <1> QED
    BY <1>4, <1>5, <1>7, <1>8 DEF At

LEMMA SlotAtFacts ==
  ASSUME next_read_slot \in Slots
  PROVE  /\ \A n \in 0 .. SlotCount : SlotAt(n) \in Slots
         /\ SlotAt(0) = next_read_slot /\ SlotAt(SlotCount) = next_read_slot
         /\ \A n \in Slots : (SlotAt(n) + 1) % SlotCount = SlotAt(n + 1)
         /\ \A n, k \in Slots : SlotAt(n) = SlotAt(k) => n = k
  BY TurnFacts, Zenon DEF SlotAt, TurnAt

LEMMA TurnAtFacts ==
  ASSUME NEW b \in Slots
  PROVE  /\ \A n \in 0 .. SlotCount : TurnAt(b, n) \in Slots
         /\ TurnAt(b, 0) = b /\ TurnAt(b, SlotCount) = b
         /\ \A n \in Slots : (TurnAt(b, n) + 1) % SlotCount = TurnAt(b, n + 1)
         /\ \A n, k \in Slots : TurnAt(b, n) = TurnAt(b, k) => n = k
  BY TurnFacts, Zenon DEF TurnAt

\* What the reader finds is there, and what is there it finds, unless it is misled or about
\* to be woken.
LEMMA FindsFacts ==
  ASSUME TypeOK, NEW s \in Slots, NEW c, NEW end \in BOOLEAN
  PROVE  /\ Finds(s, c, end) => Complete(s, c) \/ Misled(s, end)
         /\ Complete(s, c) => Finds(s, c, end) \/ WakePending
  <1>1. ASSUME NEW p \in DOMAIN rx[s] \ gone[s], Stored(s, p, "header"), rx[s][p].last # end
        PROVE  Misled(s, end)
    BY <1>1 DEF Misled, Stored, Latest
  <1>2. ASSUME NEW p \in DOMAIN rx[s] \ gone[s], Stored(s, p, "header"), rx[s][p].last
        PROVE  WakePending
    BY <1>2 DEF WakePending, Stored, Latest
  <1>3. \A p \in DOMAIN rx[s] : rx[s][p].last \in BOOLEAN
    BY SlotFacts
  <1>4. ASSUME NEW p \in DOMAIN rx[s] \ gone[s], rx[s][p].conn = c,
               IF Stored(s, p, "header") THEN end ELSE rx[s][p].last
        PROVE  Complete(s, c) \/ Misled(s, end)
    <2>1. CASE rx[s][p].last
      BY <1>4, <2>1 DEF Complete
    <2>2. CASE ~rx[s][p].last
      BY <1>1, <1>3, <1>4, <2>2
    <2> QED
      BY <2>1, <2>2
  <1>5. ASSUME NEW p \in DOMAIN rx[s] \ gone[s], rx[s][p].conn = c, rx[s][p].last
        PROVE  Finds(s, c, end) \/ WakePending
    <2>1. CASE Stored(s, p, "header")
      BY <1>2, <1>5, <2>1
    <2>2. CASE ~Stored(s, p, "header")
      BY <1>5, <2>2 DEF Finds
    <2> QED
      BY <2>1, <2>2
  <1> QED
    BY <1>4, <1>5 DEF Finds, Complete

\* How the record changes while the process looks, and what it finds.
LEMMA ScanSlotFacts ==
  ASSUME TypeOK, ScanSlot, torn' = "no"
  PROVE  LET s == rd.slot
             c == IF running[s] THEN Connection(s, rd.conn) ELSE rd.conn
         IN  /\ s \in Slots /\ rd.pc = "scan" /\ rd.seen \in Slots /\ UNCHANGED <<running, rx, gone, thread, put>>
             /\ \/ /\ rd'.pc = "out" /\ ~rd'.queued
                \/ /\ rd'.pc = "first" /\ ~rd'.queued /\ rd'.slot = s
                   /\ running[s] /\ Complete(s, c)
                \/ /\ rd'.pc = "scan" /\ rd'.slot = (s + 1) % SlotCount /\ rd'.seen = rd.seen + 1
                   /\ rd'.conn = c /\ rd'.queued = rd.queued /\ rd'.woken = rd.woken
                   /\ UNCHANGED <<next_read_slot, moved>>
                   /\ running[s] => ~Complete(s, c) \/ WakePending
  <1> DEFINE s == rd.slot
             c == IF running[s] THEN Connection(s, rd.conn) ELSE rd.conn
  <1>1. s \in Slots /\ rd.pc = "scan" /\ UNCHANGED <<running, rx, gone, thread, put>>
    BY ReaderFacts DEF ScanSlot
  <1>2. rd.seen \in Slots
    BY ReaderFacts, SlotAssumption DEF ScanSlot, Slots
  <1>3. PICK end \in BOOLEAN :
          \/ rd' = Out
          \/ /\ running[s] /\ Finds(s, c, end) /\ rd' = [Out EXCEPT !.pc = "first", !.slot = s]
             /\ torn' = IF Misled(s, end) /\ ~Complete(s, c) THEN "read" ELSE torn
          \/ /\ ~(running[s] /\ Finds(s, c, end))
             /\ rd' = [rd EXCEPT !.slot = (s + 1) % SlotCount, !.seen = @ + 1, !.conn = c]
             /\ UNCHANGED <<next_read_slot, moved>>
    BY DEF ScanSlot
  <1> HIDE DEF c
  <1>4. CASE rd' = Out
    BY <1>1, <1>2, <1>4 DEF Out
  <1>5. CASE /\ running[s] /\ Finds(s, c, end) /\ rd' = [Out EXCEPT !.pc = "first", !.slot = s]
             /\ torn' = IF Misled(s, end) /\ ~Complete(s, c) THEN "read" ELSE torn
    <2>1. Complete(s, c)
      BY <1>1, <1>5, FindsFacts
    <2> QED
      BY <1>1, <1>2, <1>5, <2>1 DEF Out, c
  <1>6. CASE /\ ~(running[s] /\ Finds(s, c, end))
             /\ rd' = [rd EXCEPT !.slot = (s + 1) % SlotCount, !.seen = @ + 1, !.conn = c]
             /\ UNCHANGED <<next_read_slot, moved>>
    <2>1. /\ rd'.pc = "scan" /\ rd'.slot = (s + 1) % SlotCount /\ rd'.seen = rd.seen + 1
          /\ rd'.conn = c /\ rd'.queued = rd.queued /\ rd'.woken = rd.woken
      BY <1>1, <1>6 DEF TypeOK
    <2>2. running[s] => ~Complete(s, c) \/ WakePending
      BY <1>1, <1>6, FindsFacts
    <2> QED
      BY <1>1, <1>2, <1>6, <2>1, <2>2 DEF c
  <1> QED
    BY <1>3, <1>4, <1>5, <1>6

\* What a step does to the process that looks for a message.
LEMMA LookSteps ==
  ASSUME TypeOK, ScanInv, [Next]_vars
  PROVE  \/ /\ rd'.pc = rd.pc /\ rd'.slot = rd.slot /\ rd'.seen = rd.seen /\ rd'.conn = rd.conn /\ rd'.idx = rd.idx
            /\ rd'.queued = rd.queued /\ UNCHANGED <<next_read_slot, gone>> /\ (rd.queued /\ ~moved' => ~moved)
         \/ /\ rd' = rd /\ UNCHANGED <<rx, gone>> /\ moved' = rd.queued
         \/ /\ rd'.pc = "out" /\ ~rd'.queued
         \/ /\ rd'.pc \in {"loop", "done"} /\ ~rd'.queued
            /\ ReadFirst \/ ReadSkip \/ ReadFragment
         \/ ScanSlot
         \/ /\ rd'.pc = "scan" /\ rd'.slot = next_read_slot' /\ rd'.seen = 0 /\ rd'.conn = None
         \/ /\ rd.pc = "scan" /\ rd.queued /\ ~rd.woken /\ rd.seen = SlotCount
            /\ rd'.pc = "asleep" /\ rd'.slot = rd.slot /\ rd'.seen = 0 /\ rd'.conn = None /\ rd'.queued
            /\ next_read_slot' = rd.slot /\ UNCHANGED <<running, rx, gone, moved>>
  <1>1. rd \in Reader
    BY DEF TypeOK, Reader
  <1>2. WakeUp => /\ rd'.pc = rd.pc /\ rd'.slot = rd.slot /\ rd'.seen = rd.seen /\ rd'.conn = rd.conn
                  /\ rd'.idx = rd.idx /\ rd'.queued = rd.queued
    BY <1>1 DEF WakeUp, Reader
  <1>3. ASSUME NEW s \in Slots, \/ PollData(s)
                                \/ \E c \in Conns, last \in BOOLEAN : ReadData(s, c, last)
                                \/ ReadDataError(s)
                                \/ SlotShutdown(s)
                                \/ SlotRunning(s)
        PROVE  /\ rd'.pc = rd.pc /\ rd'.slot = rd.slot /\ rd'.seen = rd.seen /\ rd'.conn = rd.conn /\ rd'.idx = rd.idx
               /\ rd'.queued = rd.queued /\ UNCHANGED <<next_read_slot, gone>> /\ (rd.queued /\ ~moved' => ~moved)
    <2>1. /\ rd' = rd \/ WakeUp
          /\ UNCHANGED <<next_read_slot, gone>>
          /\ moved' = moved \/ moved' = rd.queued
      BY <1>3 DEF PollData, ReadData, ReadDataError, SlotShutdown, SlotRunning, Stop
    <2> QED
      BY <1>2, <2>1
  <1>4. CASE \/ ReadDataBegin \/ ReadDataRest \/ ReadDataWake \/ ReadNothing \/ IoRelease
             \/ IoReset \/ ResetSlot \/ ReadHdr \/ UNCHANGED vars
    BY <1>2, <1>4 DEF ReadDataBegin, ReadDataRest, ReadDataWake, ReadNothing, IoRelease,
                      IoReset, ResetSlot, Stop, ReadHdr, vars
  <1>11. CASE ResetEnd
    BY <1>11 DEF ResetEnd
  <1>5. CASE IoOpen
    <2>1. rd' = rd /\ rd.pc = "out"
      BY <1>5 DEF IoOpen
    <2> QED
      BY <2>1 DEF ScanInv
  <1>6. CASE GiveUp \/ ReadBug \/ ReadFault \/ ReadReturn
    <2>1. rd' = Out
      BY <1>6 DEF GiveUp, ReadBug, ReadFault, ReadReturn
    <2> QED
      BY <2>1 DEF Out
  <1>7. CASE Call
    <2>1. rd' = Scan(Out) /\ UNCHANGED next_read_slot
      BY <1>7 DEF Call
    <2> QED
      BY <2>1 DEF Scan, Out
  <1>8. CASE Wake
    <2>1. rd' = Scan(rd) /\ UNCHANGED next_read_slot
      BY <1>8 DEF Wake
    <2> QED
      BY <1>1, <2>1 DEF Scan, Reader
  <1>9. CASE ScanEnd
    <2>1. rd.pc = "scan" /\ rd.seen = SlotCount /\ next_read_slot' = rd.slot /\ UNCHANGED <<running, rx, gone>>
      BY <1>9 DEF ScanEnd
    <2>2. \/ /\ rd.queued /\ ~rd.woken /\ UNCHANGED moved
             /\ rd' = [rd EXCEPT !.pc = "asleep", !.conn = None, !.seen = 0]
          \/ rd' = [Scan(rd) EXCEPT !.slot = rd.slot, !.queued = TRUE]
      BY <1>9 DEF ScanEnd
    <2>3. CASE /\ rd.queued /\ ~rd.woken /\ UNCHANGED moved
               /\ rd' = [rd EXCEPT !.pc = "asleep", !.conn = None, !.seen = 0]
      <3>1. rd'.pc = "asleep" /\ rd'.slot = rd.slot /\ rd'.seen = 0 /\ rd'.conn = None /\ rd'.queued = rd.queued
        BY <1>1, <2>3 DEF Reader
      <3> QED
        BY <2>1, <2>3, <3>1
    <2>4. CASE rd' = [Scan(rd) EXCEPT !.slot = rd.slot, !.queued = TRUE]
      <3>1. rd'.pc = "scan" /\ rd'.slot = rd.slot /\ rd'.seen = 0 /\ rd'.conn = None
        BY <1>1, <2>4 DEF Scan, Reader
      <3> QED
        BY <2>1, <3>1
    <2> QED
      BY <2>2, <2>3, <2>4
  <1>10. CASE ReadFirst \/ ReadSkip \/ ReadFragment
    <2>1. ~rd.queued
      BY <1>10 DEF ScanInv, ReadFirst, ReadSkip, ReadFragment
    <2>2. rd'.pc \in {"loop", "done"} /\ rd'.queued = rd.queued
      BY <1>1, <1>10 DEF ReadFirst, ReadSkip, ReadFragment, Reader
    <2> QED
      BY <1>10, <2>1, <2>2
  <1> QED
    BY <1>3, <1>4, <1>5, <1>6, <1>7, <1>8, <1>9, <1>10, <1>11 DEF Next

\* The slots are looked at in turn; the connection looked for is that of a fragment in one
\* of those before.
LEMMA ScanStep ==
  ASSUME FragmentsInv, ScanInv, [Next]_vars, torn' = "no"
  PROVE  ScanInv'
  <1>0. /\ TypeOK /\ FragInv /\ TakenInv /\ LoopInv /\ next_read_slot \in Slots
        /\ next_read_slot' \in Slots /\ rd.seen \in 0 .. SlotCount /\ rd.slot \in Slots
    BY ReaderFacts, ReaderType DEF FragmentsInv, TypeOK
  <1>1. CASE \/ /\ rd'.pc = rd.pc /\ rd'.slot = rd.slot /\ rd'.seen = rd.seen /\ rd'.conn = rd.conn
                /\ rd'.queued = rd.queued /\ UNCHANGED next_read_slot /\ (rd.queued /\ ~moved' => ~moved)
             \/ rd' = rd /\ moved' = rd.queued
    <2>1. /\ rd'.pc = rd.pc /\ rd'.slot = rd.slot /\ rd'.seen = rd.seen /\ rd'.conn = rd.conn
          /\ rd'.queued = rd.queued /\ (rd'.queued /\ ~moved' => ~moved /\ UNCHANGED next_read_slot)
      BY <1>1
    <2>2. ASSUME NEW b \in Slots, ScanFrom(b)
          PROVE  ScanFrom(b)'
      <3>1. rd'.slot = TurnAt(b, rd'.seen) /\ (rd'.queued /\ ~moved' => b = next_read_slot')
        BY <2>1, <2>2 DEF ScanFrom
      <3>2. ASSUME rd.pc = "scan", rd.conn # None
            PROVE  \E n \in 0 .. rd.seen - 1 : \E p \in DOMAIN rx'[TurnAt(b, n)] : rx'[TurnAt(b, n)][p].conn = rd.conn
        <4>1. PICK n \in 0 .. rd.seen - 1 : \E p \in DOMAIN rx[TurnAt(b, n)] : rx[TurnAt(b, n)][p].conn = rd.conn
          BY <2>2, <3>2 DEF ScanFrom
        <4>2. n \in 0 .. SlotCount
          BY <1>0, SlotAssumption
        <4>3. TurnAt(b, n) \in Slots
          BY <4>2, TurnAtFacts
        <4> QED
          BY <1>0, <4>1, <4>3, Keeps
      <3> QED
        BY <2>1, <3>1, <3>2 DEF ScanFrom, TurnAt
    <2> QED
      BY <2>1, <2>2 DEF ScanInv
  <1>2. CASE rd'.pc \in {"out", "loop", "done"} /\ ~rd'.queued
    BY <1>2 DEF ScanInv
  <1>3. CASE ScanSlot
    <2> DEFINE s == rd.slot
               c == IF running[s] THEN Connection(s, rd.conn) ELSE rd.conn
    <2>1. /\ s \in Slots /\ rd.pc = "scan" /\ rd.seen \in Slots /\ UNCHANGED <<running, rx, gone>>
          /\ \/ /\ rd'.pc \in {"out", "first"} /\ ~rd'.queued
             \/ /\ rd'.pc = "scan" /\ rd'.slot = (s + 1) % SlotCount /\ rd'.seen = rd.seen + 1
                /\ rd'.conn = c /\ rd'.queued = rd.queued /\ UNCHANGED <<next_read_slot, moved>>
      BY <1>0, <1>3, ScanSlotFacts
    <2>2. CASE rd'.pc \in {"out", "first"} /\ ~rd'.queued
      BY <2>2 DEF ScanInv
    <2>3. CASE /\ rd'.pc = "scan" /\ rd'.slot = (s + 1) % SlotCount /\ rd'.seen = rd.seen + 1
               /\ rd'.conn = c /\ rd'.queued = rd.queued /\ UNCHANGED <<next_read_slot, moved>>
      <3>1. PICK b \in Slots : ScanFrom(b)
        BY <2>1 DEF ScanInv
      <3>2. s = TurnAt(b, rd.seen) /\ rd'.slot = TurnAt(b, rd.seen + 1)
        BY <2>1, <2>3, <3>1, TurnAtFacts DEF ScanFrom
      <3>3. rd.seen \in 0 .. rd.seen + 1 - 1 /\ 0 .. rd.seen - 1 \subseteq 0 .. rd.seen + 1 - 1
        BY <1>0, SlotAssumption
      <3>4. ASSUME c # None
            PROVE  \E n \in 0 .. rd.seen + 1 - 1 : \E p \in DOMAIN rx[TurnAt(b, n)] : rx[TurnAt(b, n)][p].conn = c
        <4>1. CASE rd.conn # None
          <5>1. c = rd.conn
            BY <4>1 DEF Connection
          <5>2. \E n \in 0 .. rd.seen - 1 : \E p \in DOMAIN rx[TurnAt(b, n)] : rx[TurnAt(b, n)][p].conn = rd.conn
            BY <2>1, <3>1, <4>1 DEF ScanFrom
          <5> HIDE DEF c
          <5> QED
            BY <3>3, <5>1, <5>2
        <4>2. CASE rd.conn = None
          <5>1. PktNext(s, 0) # 0 /\ c = rx[s][PktNext(s, 0)].conn
            BY <3>4, <4>2 DEF Connection
          <5>2. PktNext(s, 0) \in DOMAIN rx[s]
            BY <1>0, <2>1, <5>1, NextFacts
          <5> HIDE DEF c
          <5> QED
            BY <3>2, <3>3, <5>1, <5>2
        <4> QED
          BY <4>1, <4>2
      <3> HIDE DEF c
      <3>5. rd.queued /\ ~moved => b = next_read_slot
        BY <3>1 DEF ScanFrom
      <3>6. ScanFrom(b)'
        <4>1. rd'.slot = TurnAt(b, rd'.seen) /\ (rd'.queued /\ ~moved' => b = next_read_slot')
          BY <2>3, <3>2, <3>5
        <4>2. ASSUME rd'.conn # None
              PROVE  \E n \in 0 .. rd'.seen - 1 : \E p \in DOMAIN rx'[TurnAt(b, n)] : rx'[TurnAt(b, n)][p].conn = rd'.conn
          <5>1. rx' = rx /\ rd'.seen = rd.seen + 1 /\ rd'.conn = c /\ c # None
            BY <2>1, <2>3, <4>2
          <5> QED
            BY <1>0, <3>4, <5>1, SlotAssumption
        <4> QED
          BY <4>1, <4>2 DEF ScanFrom, TurnAt
      <3> QED
        BY <2>3, <3>6 DEF ScanInv
    <2> QED
      BY <2>1, <2>2, <2>3
  <1>4. CASE rd'.pc = "scan" /\ rd'.slot = next_read_slot' /\ rd'.seen = 0 /\ rd'.conn = None
    <2>1. TurnAt(next_read_slot', 0) = next_read_slot'
      BY <1>0, TurnAtFacts
    <2>2. \E b \in Slots : ScanFrom(b)'
      BY <1>0, <1>4, <2>1 DEF ScanFrom, TurnAt
    <2> QED
      BY <1>4, <2>2 DEF ScanInv
  <1>5. CASE /\ rd'.pc = "asleep" /\ rd'.slot = rd.slot /\ rd'.seen = 0 /\ rd'.conn = None /\ rd'.queued
             /\ next_read_slot' = rd.slot
    <2>1. TurnAt(rd.slot, 0) = rd.slot
      BY <1>0, TurnAtFacts
    <2>2. \E b \in Slots : ScanFrom(b)'
      BY <1>0, <1>5, <2>1 DEF ScanFrom, TurnAt
    <2> QED
      BY <1>5, <2>2 DEF ScanInv
  <1> QED
    BY <1>0, <1>1, <1>2, <1>3, <1>4, <1>5, LookSteps

\* While nothing is disposed of, the first fragment of a slot stays the first.
LEMMA FirstKeeps ==
  ASSUME FragmentsInv, [Next]_vars, UNCHANGED gone, NEW s \in Slots
  PROVE  /\ \A p \in DOMAIN rx[s] \ gone[s] : p \in DOMAIN rx'[s] \ gone'[s] /\ rx'[s][p] = rx[s][p]
         /\ PktNext(s, 0) # 0 => PktNext(s, 0)' = PktNext(s, 0) /\ Connection(s, None)' = Connection(s, None)
  <1> DEFINE ps == {q \in DOMAIN rx'[s] \ gone[s] : q > 0}
             f == PktNext(s, 0)
  <1>1. /\ \A p \in DOMAIN rx[s] : p \in DOMAIN rx'[s] /\ rx'[s][p] = rx[s][p]
        /\ \A p \in DOMAIN rx'[s] : p \in DOMAIN rx[s] \/ \A q \in DOMAIN rx[s] : q < p
    BY Keeps DEF FragmentsInv
  <1>2. ASSUME f # 0
        PROVE  PktNext(s, 0)' = f /\ Connection(s, None)' = Connection(s, None)
    <2>1. /\ f \in DOMAIN rx[s] \ gone[s] /\ f > 0 /\ f \in Nat
          /\ \A q \in DOMAIN rx[s] \ gone[s] : q > 0 => f <= q
      BY <1>2, NextFacts, SlotFacts DEF FragmentsInv
    <2> HIDE DEF f
    <2>2. \A q \in DOMAIN rx'[s] : q \in Nat
      <3>1. TypeOK'
        BY TypeStep DEF FragmentsInv
      <3>2. DOMAIN rx'[s] = 1 .. Len(rx'[s]) /\ rx'[s] \in Seq(Fragments)
        BY <3>1 DEF TypeOK
      <3> QED
        BY <3>2
    <2>3. f \in ps /\ \A r \in ps : f <= r
      BY <1>1, <2>1, <2>2
    <2>4. \A q \in ps : (\A r \in ps : q <= r) => q = f
      BY <2>1, <2>2, <2>3
    <2>5. PktNext(s, 0)' = IF ps = {} THEN 0 ELSE CHOOSE q \in ps : \A r \in ps : q <= r
      BY DEF PktNext
    <2> HIDE DEF ps
    <2>6. PktNext(s, 0)' = f
      BY <2>3, <2>4, <2>5
    <2>7. Connection(s, None) = rx[s][f].conn
      BY <1>2 DEF Connection, f
    <2>8. Connection(s, None)' = rx'[s][f].conn
      BY <1>2, <2>6 DEF Connection
    <2> QED
      BY <1>1, <2>1, <2>6, <2>7, <2>8
  <1> QED
    BY <1>1, <1>2

\* What is there is found by pkt_next.
LEMMA CompleteFacts ==
  ASSUME TypeOK, NEW s \in Slots, NEW c, Complete(s, c)
  PROVE  PktNext(s, 0) # 0
  <1>1. PICK p \in DOMAIN rx[s] \ gone[s] : TRUE
    BY DEF Complete
  <1> QED
    BY <1>1, NextFacts, SlotFacts

LEMMA SharedStep ==
  ASSUME FragmentsInv, [Next]_vars, NEW s \in Slots, Shared(s)
  PROVE  Shared(s)'
  <1>1. PICK t \in Slots \ {s} : \E p \in DOMAIN rx[t], q \in DOMAIN rx[s] : rx[t][p].conn = rx[s][q].conn
    BY DEF Shared
  <1>2. PICK p \in DOMAIN rx[t], q \in DOMAIN rx[s] : rx[t][p].conn = rx[s][q].conn
    BY <1>1
  <1>3. /\ p \in DOMAIN rx'[t] /\ rx'[t][p] = rx[t][p]
        /\ q \in DOMAIN rx'[s] /\ rx'[s][q] = rx[s][q]
    BY <1>1, <1>2, Keeps DEF FragmentsInv
  <1> QED
    BY <1>1, <1>2, <1>3 DEF Shared

\* A message that io_read_condition found, read() finds to its end, unless the id came
\* from another slot.
LEMMA AheadStep ==
  ASSUME FragmentsInv, ScanInv, AheadInv, [Next]_vars, torn' = "no"
  PROVE  AheadInv'
  <1> SUFFICES ASSUME NEW s \in Slots, s = rd.slot
               PROVE  AheadInv'
    BY ReaderFacts DEF FragmentsInv
  <1> DEFINE i == rd.idx
             Last(c, p) == rx[s][p].conn = c /\ rx[s][p].last
  <1>0. /\ TypeOK /\ LoopInv /\ s \in Slots /\ next_read_slot \in Slots /\ i \in Nat
        /\ rd.seen \in 0 .. SlotCount /\ rd \in Reader
    BY ReaderFacts DEF FragmentsInv, TypeOK, Reader
  <1>1. CASE /\ rd'.pc = rd.pc /\ rd'.slot = rd.slot /\ rd'.conn = rd.conn /\ rd'.idx = rd.idx
             /\ UNCHANGED gone
    <2>1. Shared(s) => Shared(s)'
      BY <1>0, SharedStep
    <2>2. /\ \A p \in DOMAIN rx[s] \ gone[s] : p \in DOMAIN rx'[s] \ gone'[s] /\ rx'[s][p] = rx[s][p]
          /\ PktNext(s, 0) # 0 => PktNext(s, 0)' = PktNext(s, 0) /\ Connection(s, None)' = Connection(s, None)
      BY <1>0, <1>1, FirstKeeps
    <2>3. ASSUME NEW c, Complete(s, c)
          PROVE  \E p \in DOMAIN rx'[s] \ gone'[s] : rx'[s][p].conn = c /\ rx'[s][p].last
      BY <2>2, <2>3 DEF Complete
    <2>4. ASSUME rd.pc = "first", ~Shared(s)
          PROVE  PktNext(s, 0)' # 0 /\ Complete(s, Connection(s, None))'
      <3>1. PktNext(s, 0) # 0 /\ Complete(s, Connection(s, None))
        BY <2>4 DEF AheadInv
      <3>2. \E p \in DOMAIN rx'[s] \ gone'[s] : rx'[s][p].conn = Connection(s, None) /\ rx'[s][p].last
        BY <2>3, <3>1
      <3> QED
        BY <2>2, <3>1, <3>2 DEF Complete
    <2>5. ASSUME rd.pc = "loop", ~Shared(s)
          PROVE  /\ i # 0
                 /\ \E p \in DOMAIN rx'[s] \ gone'[s] : i <= p /\ rx'[s][p].conn = rd.conn /\ rx'[s][p].last
      BY <2>2, <2>5 DEF AheadInv
    <2> QED
      BY <1>1, <2>1, <2>4, <2>5 DEF AheadInv
  <1>2. CASE rd'.pc \notin {"first", "loop"}
    BY <1>2 DEF AheadInv
  <1>3. CASE ScanSlot /\ rd'.pc = "first"
    <2> DEFINE c == Connection(s, rd.conn)
    <2>1. /\ rd.pc = "scan" /\ rd.seen \in Slots /\ UNCHANGED <<running, rx, gone>>
          /\ rd'.slot = s /\ running[s] /\ Complete(s, c)
      BY <1>0, <1>3, ScanSlotFacts
    <2>2. CASE rd.conn = None
      <3>1. PktNext(s, 0) # 0 /\ Complete(s, Connection(s, None))
        BY <1>0, <2>1, <2>2, CompleteFacts
      <3>2. PktNext(s, 0)' = PktNext(s, 0)
        BY <2>1 DEF PktNext
      <3>3. Connection(s, None)' = Connection(s, None)
        BY <2>1, <3>2 DEF Connection
      <3>4. Complete(s, Connection(s, None))'
        BY <2>1, <3>1, <3>3 DEF Complete
      <3> QED
        BY <1>3, <2>1, <3>1, <3>2, <3>4 DEF AheadInv
    <2>3. CASE rd.conn # None
      <3>1. c = rd.conn
        BY <2>3 DEF Connection
      <3>0. PICK b \in Slots : ScanFrom(b)
        BY <2>1 DEF ScanInv
      <3>2. PICK n \in 0 .. rd.seen - 1 : \E p \in DOMAIN rx[TurnAt(b, n)] : rx[TurnAt(b, n)][p].conn = rd.conn
        BY <2>1, <2>3, <3>0 DEF ScanFrom
      <3>3. n \in Slots /\ n # rd.seen /\ n \in 0 .. SlotCount
        BY <1>0, SlotAssumption DEF Slots
      <3>4. TurnAt(b, n) \in Slots /\ TurnAt(b, n) # s
        BY <2>1, <3>0, <3>3, TurnAtFacts DEF ScanFrom
      <3>5. \E q \in DOMAIN rx[s] : rx[s][q].conn = rd.conn
        BY <2>1, <3>1 DEF Complete
      <3>6. Shared(s)
        BY <3>2, <3>4, <3>5 DEF Shared
      <3>7. Shared(s)'
        BY <2>1, <3>6 DEF Shared
      <3> QED
        BY <1>3, <2>1, <3>7 DEF AheadInv
    <2> QED
      BY <2>2, <2>3
  <1>4. CASE ReadFirst
    <2>1. rd.pc = "first" /\ rd' = [rd EXCEPT !.pc = "loop", !.idx = PktNext(s, 0), !.conn = Connection(s, None)]
          /\ UNCHANGED <<rx, gone>>
      BY <1>4 DEF ReadFirst
    <2>2. rd'.pc = "loop" /\ rd'.idx = PktNext(s, 0) /\ rd'.conn = Connection(s, None) /\ rd'.slot = s
      BY <1>0, <2>1 DEF Reader
    <2>3. CASE Shared(s)
      <3>1. Shared(s)'
        BY <2>1, <2>3 DEF Shared
      <3> QED
        BY <2>2, <3>1 DEF AheadInv
    <2>4. CASE ~Shared(s)
      <3>1. PktNext(s, 0) # 0 /\ Complete(s, Connection(s, None))
        BY <2>1, <2>4 DEF AheadInv
      <3>2. PICK p \in DOMAIN rx[s] \ gone[s] : Last(Connection(s, None), p)
        BY <3>1 DEF Complete
      <3>3. PktNext(s, 0) <= p
        BY <1>0, <3>1, <3>2, NextFacts, SlotFacts
      <3> QED
        BY <2>1, <2>2, <3>1, <3>2, <3>3 DEF AheadInv
    <2> QED
      BY <2>3, <2>4
  <1>5. CASE ReadSkip \/ (ReadFragment /\ rd'.pc = "loop")
    <2>1. /\ rd.pc = "loop" /\ i # 0 /\ UNCHANGED rx
          /\ gone' = gone \/ gone' = [gone EXCEPT ![s] = @ \cup {i}]
      BY <1>5 DEF ReadSkip, ReadFragment, Mine
    <2>2. rd'.pc = "loop" /\ rd'.idx = PktNext(s, i) /\ rd'.conn = rd.conn /\ rd'.slot = s
      BY <1>0, <1>5 DEF ReadSkip, ReadFragment, Reader
    <2>3. ~Last(rd.conn, i)
      <3>1. CASE ReadSkip
        BY <3>1 DEF ReadSkip, Mine
      <3>2. CASE ReadFragment /\ rd'.pc = "loop"
        <4>1. rd' = [rd EXCEPT !.got = Append(@, i), !.idx = PktNext(s, i),
                               !.pc = IF rx[s][i].last THEN "done" ELSE "loop"]
          BY <3>2 DEF ReadFragment, HdrInv, FragmentsInv
        <4>2. rd'.pc = IF rx[s][i].last THEN "done" ELSE "loop"
          BY <1>0, <4>1 DEF Reader
        <4> QED
          BY <3>2, <4>2
      <3> QED
        BY <1>5, <3>1, <3>2
    <2>4. gone \in [Slots -> SUBSET (1 .. MaxFrags)]
      BY <1>0 DEF TypeOK
    <2>5. CASE Shared(s)
      <3>1. Shared(s)'
        BY <2>1, <2>5 DEF Shared
      <3> QED
        BY <2>2, <3>1 DEF AheadInv
    <2>6. CASE ~Shared(s)
      <3>1. PICK p \in DOMAIN rx[s] \ gone[s] : i <= p /\ Last(rd.conn, p)
        BY <2>1, <2>6 DEF AheadInv
      <3>2. p # i /\ p \in Nat /\ p > i
        BY <1>0, <2>3, <3>1, SlotFacts
      <3>3. PktNext(s, i) # 0 /\ PktNext(s, i) <= p
        BY SMTT(30), <1>0, <3>1, <3>2, NextFacts, SlotFacts
      <3>4. p \in DOMAIN rx[s] \ gone'[s]
        BY <1>0, <2>1, <2>4, <3>1, <3>2
      <3> QED
        BY <2>1, <2>2, <3>1, <3>3, <3>4 DEF AheadInv
    <2> QED
      BY <2>5, <2>6
  <1> QED
    BY <1>0, <1>1, <1>2, <1>3, <1>4, <1>5, LookSteps, ScanSlotFacts

\* A step that neither wakes the process on the queue nor changes the state of a slot
\* unannounced is one of its own, or receives at most a fragment that ends no message.
LEMMA QuietSteps ==
  ASSUME TypeOK, FragInv, ScanInv, [Next]_vars, rd'.queued, ~rd'.woken, ~moved', ~WakePending'
  PROVE  \/ /\ rd'.pc = rd.pc /\ rd'.slot = rd.slot /\ rd'.seen = rd.seen /\ rd'.conn = rd.conn
            /\ rd.queued /\ ~rd.woken /\ ~moved /\ ~WakePending /\ UNCHANGED <<next_read_slot, gone, running>>
            /\ UNCHANGED rx \/ \E s \in Slots, c \in Conns, last \in BOOLEAN : ReadData(s, c, last) /\ ~last
         \/ ScanSlot /\ ~WakePending
         \/ rd'.pc = "scan" /\ rd'.seen = 0 /\ rd'.conn = None
         \/ /\ rd.pc = "scan" /\ rd.queued /\ ~rd.woken /\ rd.seen = SlotCount
            /\ rd'.pc = "asleep" /\ rd'.slot = rd.slot /\ rd'.conn = None
            /\ next_read_slot' = rd.slot /\ UNCHANGED <<running, rx, gone, moved>> /\ ~WakePending
  <1>1. rd \in Reader
    BY DEF TypeOK, Reader
  <1>2. ASSUME WakeUp
        PROVE  rd' = rd /\ ~rd.queued
    <2>1. rd' = IF rd.queued THEN [rd EXCEPT !.woken = TRUE] ELSE rd
      BY <1>2 DEF WakeUp
    <2>2. ~rd.queued
      BY <1>1, <2>1 DEF Reader
    <2> QED
      BY <2>1, <2>2
  <1>3. ASSUME NEW s \in Slots, NEW c \in Conns, NEW last \in BOOLEAN, ReadData(s, c, last)
        PROVE  /\ rd' = rd /\ ~moved /\ UNCHANGED <<next_read_slot, gone, running>>
               /\ ~last /\ ~WakePending
    <2> DEFINE m == IF Begun(s, c) = 0 THEN Len(rx[s]) + 1 ELSE Begun(s, c)
    <2>1. /\ rd' = rd /\ ~moved /\ UNCHANGED <<next_read_slot, gone, running>>
          /\ thread' = s /\ put = "begun" /\ put' \in {"header", "payload", "whole"}
      BY <1>3 DEF ReadData
    <2>2. Len(rx'[s]) = Len(rx[s]) + 1 /\ rx'[s][Len(rx[s]) + 1] = [conn |-> c, msg |-> m, last |-> last]
      BY <1>3, AppendFacts
    <2> HIDE DEF m
    <2>3. Latest'.last = last
      BY <2>1, <2>2 DEF Latest
    <2> QED
      BY <2>1, <2>3 DEF WakePending
  <1>4. ASSUME NEW s \in Slots, PollData(s)
        PROVE  rd' = rd /\ ~moved /\ ~WakePending /\ UNCHANGED <<next_read_slot, gone, running, rx>>
    BY <1>4 DEF PollData, WakePending
  <1>5. ASSUME NEW s \in Slots, ReadDataError(s) \/ SlotRunning(s)
        PROVE  FALSE
    BY <1>5 DEF ReadDataError, SlotRunning
  <1>6. ASSUME NEW s \in Slots, SlotShutdown(s)
        PROVE  FALSE
    BY <1>2, <1>6 DEF SlotShutdown
  <1>7. CASE ReadDataBegin \/ ReadNothing
    BY <1>7 DEF ReadDataBegin, ReadNothing, WakePending
  <1>11. ASSUME UNCHANGED <<rx, thread>>, put' = put \/ ReadDataRest
         PROVE  ~WakePending
    <2>1. Latest' = Latest
      BY <1>11 DEF Latest
    <2>2. ~(put' \in {"header", "payload", "whole"} /\ Latest'.last)
      BY DEF WakePending
    <2> QED
      BY <1>11, <2>1, <2>2 DEF WakePending, ReadDataRest
  <1>12. CASE ReadDataRest \/ IoRelease \/ IoReset \/ ReadHdr \/ UNCHANGED vars
    <2>1. UNCHANGED <<rx, thread, rd, moved, next_read_slot, gone, running>> /\ (put' = put \/ ReadDataRest)
      BY <1>12 DEF ReadDataRest, IoRelease, IoReset, ReadHdr, vars
    <2> QED
      BY <1>11, <2>1
  <1>13. CASE ReadDataWake
    <2>1. ~Latest.last
      BY <1>2, <1>13 DEF ReadDataWake
    <2>2. UNCHANGED <<rx, rd, moved, next_read_slot, gone, running>>
      BY <1>13, <2>1 DEF ReadDataWake
    <2> QED
      BY <2>1, <2>2 DEF WakePending
  <1>14. CASE ResetSlot
    <2>1. UNCHANGED <<rx, thread, rd, moved, next_read_slot, gone, running, put>>
      BY <1>2, <1>14 DEF ResetSlot, Stop
    <2> QED
      BY <1>11, <2>1
  <1>15. CASE ResetEnd
    BY <1>15 DEF ResetEnd
  <1>16. CASE ScanSlot
    <2>1. UNCHANGED <<rx, thread, put>>
      BY <1>16 DEF ScanSlot
    <2> QED
      BY <1>11, <1>16, <2>1
  <1>8. CASE IoOpen \/ GiveUp \/ ReadBug \/ ReadFault \/ ReadReturn
    <2>1. IoOpen => ~rd'.queued
      BY DEF IoOpen, ScanInv
    <2>2. GiveUp \/ ReadBug \/ ReadFault \/ ReadReturn => rd' = Out
      BY DEF GiveUp, ReadBug, ReadFault, ReadReturn
    <2>3. ~Out.queued
      BY DEF Out
    <2> QED
      BY <1>8, <2>1, <2>2, <2>3
  <1>9. CASE Call \/ ScanEnd \/ Wake
    <2>1. rd'.pc # rd.pc \/ rd'.seen # rd.seen \/ (rd'.pc = "scan" /\ rd'.seen = 0 /\ rd'.conn = None)
      BY ZenonT(60), <1>1, <1>9, SlotAssumption DEF Call, ScanEnd, Wake, Scan, Out, Reader
    <2>2. UNCHANGED <<rx, thread, put>>
      BY <1>9 DEF Call, ScanEnd, Wake
    <2>3. ~WakePending
      BY <1>11, <2>2
    <2>4. rd' = rd => (rd'.pc = "scan" /\ rd'.seen = 0 /\ rd'.conn = None)
      BY <2>1
    <2>5. ~ScanSlot
      BY <1>1, <1>9 DEF Call, ScanEnd, Wake, ScanSlot, Reader
    <2> QED
      BY <1>9, <2>1, <2>3, <2>4, <2>5, LookSteps
  <1>10. CASE ReadFirst \/ ReadSkip \/ ReadFragment
    <2>1. ~rd.queued
      BY <1>10 DEF ScanInv, ReadFirst, ReadSkip, ReadFragment
    <2>2. rd.pc \in {"first", "loop"}
      BY <1>10 DEF ReadFirst, ReadSkip, ReadFragment
    <2>3. ~ScanSlot
      BY <2>2 DEF ScanSlot
    <2>4. rd'.pc # "scan"
      <3>1. CASE ReadFirst
        BY <1>1, <3>1 DEF ReadFirst, Reader
      <3>2. CASE ReadSkip
        BY <1>1, <3>2 DEF ReadSkip, Reader
      <3>3. CASE ReadFragment
        BY <1>1, <3>3 DEF ReadFragment, Reader
      <3> QED
        BY <1>10, <3>1, <3>2, <3>3
    <2> QED
      BY <2>1, <2>2, <2>3, <2>4, LookSteps
  <1> QED
    BY <1>3, <1>4, <1>5, <1>6, <1>7, <1>8, <1>9, <1>10, <1>12, <1>13, <1>14, <1>15, <1>16 DEF Next

\* Among the slots that the process has looked at since it is on the queue, the first that
\* holds anything has no complete message.
LEMMA WakeStep ==
  ASSUME FragmentsInv, ScanInv, WakeInv, [Next]_vars, torn' = "no"
  PROVE  WakeInv'
  <1> SUFFICES ASSUME rd'.pc \in {"scan", "asleep"}, rd'.queued, ~rd'.woken, ~moved', ~WakePending'
               PROVE  /\ \A n \in Holds' : n < Looked' /\ (\A k \in Holds' : n <= k) =>
                           ~Complete(SlotAt(n), Connection(SlotAt(n), None))'
                      /\ rd'.pc = "scan" /\ rd'.conn # None => \E n \in Holds' : n < Looked'
    BY DEF WakeInv
  <1>0. /\ TypeOK /\ next_read_slot \in Slots /\ rd.seen \in 0 .. SlotCount /\ SlotCount \in Nat
        /\ Slots \subseteq 0 .. SlotCount /\ Slots \subseteq Nat
    <2>1. TypeOK
      BY DEF FragmentsInv
    <2>2. next_read_slot \in Slots /\ rd.seen \in 0 .. SlotCount
      BY <2>1, ReaderFacts DEF TypeOK
    <2> QED
      BY <2>1, <2>2, SlotAssumption DEF Slots
  <1>1. CASE /\ rd'.pc = rd.pc /\ rd'.slot = rd.slot /\ rd'.seen = rd.seen /\ rd'.conn = rd.conn
             /\ rd.queued /\ ~rd.woken /\ ~moved /\ ~WakePending /\ UNCHANGED <<next_read_slot, gone, running>>
             /\ UNCHANGED rx \/ \E s \in Slots, c \in Conns, last \in BOOLEAN : ReadData(s, c, last) /\ ~last
    <2>1. /\ \A n : SlotAt(n)' = SlotAt(n)
          /\ Looked' = Looked
      BY <1>1 DEF SlotAt, TurnAt, Looked
    <2>2. ASSUME NEW s \in Slots, NEW c, NEW p \in DOMAIN rx'[s] \ gone'[s], rx'[s][p].conn = c, rx'[s][p].last
          PROVE  Complete(s, c)
      <3>1. CASE UNCHANGED rx
        BY <1>1, <2>2, <3>1 DEF Complete
      <3>2. ASSUME NEW t \in Slots, NEW d \in Conns, NEW last \in BOOLEAN, ReadData(t, d, last), ~last
            PROVE  Complete(s, c)
        <4> DEFINE m == IF Begun(t, d) = 0 THEN Len(rx[t]) + 1 ELSE Begun(t, d)
        <4>1. /\ rx'[t][Len(rx[t]) + 1] = [conn |-> d, msg |-> m, last |-> last]
              /\ \A q \in DOMAIN rx[t] : rx'[t][q] = rx[t][q]
              /\ \A q \in DOMAIN rx'[t] : q = Len(rx[t]) + 1 \/ q \in DOMAIN rx[t]
              /\ \A u \in Slots : u # t => rx'[u] = rx[u]
          BY <3>2, AppendFacts DEF FragmentsInv
        <4>2. ~rx'[t][Len(rx[t]) + 1].last
          BY <3>2, <4>1
        <4>3. p \in DOMAIN rx[s] /\ rx'[s][p] = rx[s][p]
          BY <2>2, <4>1, <4>2
        <4> QED
          BY <1>1, <2>2, <4>3 DEF Complete
      <3> QED
        BY <1>1, <3>1, <3>2
    <2>3. ASSUME NEW n \in Holds
          PROVE  n \in Holds' /\ Connection(SlotAt(n), None)' = Connection(SlotAt(n), None)
      <3>1. n \in Slots /\ running[SlotAt(n)] /\ PktNext(SlotAt(n), 0) # 0 /\ SlotAt(n) \in Slots
        BY <1>0, <2>3, SlotAtFacts DEF Holds
      <3> SUFFICES ASSUME NEW s \in Slots, s = SlotAt(n)
                   PROVE  n \in Holds' /\ Connection(SlotAt(n), None)' = Connection(SlotAt(n), None)
        BY <3>1
      <3>2. PktNext(s, 0)' # 0 /\ Connection(s, None)' = Connection(s, None)
        BY <1>1, <3>1, FirstKeeps
      <3>3. SlotAt(n)' = s
        BY <2>1
      <3>4. Connection(SlotAt(n), None)' = Connection(s, None)' /\ PktNext(SlotAt(n), 0)' = PktNext(s, 0)'
        BY <3>3 DEF Connection, PktNext
      <3> QED
        BY <1>1, <3>1, <3>2, <3>3, <3>4 DEF Holds
    <2>4. ASSUME NEW n \in Holds', n < Looked', \A k \in Holds' : n <= k,
                 Complete(SlotAt(n), Connection(SlotAt(n), None))'
          PROVE  FALSE
      <3>1. n \in Slots /\ running[SlotAt(n)] /\ SlotAt(n) \in Slots
        <4>1. n \in Slots /\ running'[SlotAt(n)']
          BY <2>4 DEF Holds
        <4> QED
          BY <1>0, <1>1, <2>1, <4>1, SlotAtFacts
      <3> DEFINE s == SlotAt(n)
                 c == Connection(s, None)'
      <3>2. PICK p \in DOMAIN rx'[s] \ gone'[s] : rx'[s][p].conn = Connection(SlotAt(n), None)' /\ rx'[s][p].last
        BY <2>1, <2>4 DEF Complete
      <3>3. Complete(s, Connection(SlotAt(n), None)')
        BY <2>2, <3>1, <3>2
      <3>4. PktNext(s, 0) # 0
        BY <1>0, <3>1, <3>3, CompleteFacts
      <3>5. n \in Holds
        BY <3>1, <3>4 DEF Holds
      <3>6. \A k \in Holds : n <= k
        BY <2>3, <2>4
      <3>7. ~Complete(s, Connection(s, None))
        BY <1>1, <2>1, <2>4, <3>5, <3>6 DEF WakeInv
      <3> QED
        BY <2>3, <3>3, <3>5, <3>7
    <2>5. ASSUME rd'.pc = "scan", rd'.conn # None
          PROVE  \E n \in Holds' : n < Looked'
      <3>1. \E n \in Holds : n < Looked
        BY <1>1, <2>5 DEF WakeInv
      <3> QED
        BY <2>1, <2>3, <3>1
    <2> QED
      BY <2>4, <2>5
  <1>2. CASE rd'.pc = "scan" /\ rd'.seen = 0 /\ rd'.conn = None
    <2>1. Looked' = 0
      BY <1>2 DEF Looked
    <2>2. \A n \in Holds' : n \in Nat
      BY <1>0 DEF Holds
    <2> QED
      BY <1>2, <2>1, <2>2
  <1>3. ASSUME UNCHANGED <<next_read_slot, running, rx, gone>>
        PROVE  /\ Holds' = Holds
               /\ \A n : Complete(SlotAt(n), Connection(SlotAt(n), None))' <=>
                           Complete(SlotAt(n), Connection(SlotAt(n), None))
    <2>1. \A n : SlotAt(n)' = SlotAt(n)
      BY <1>3 DEF SlotAt, TurnAt
    <2>2. ASSUME NEW n
          PROVE  PktNext(SlotAt(n), 0)' = PktNext(SlotAt(n), 0)
      <3>1. PICK s : s = SlotAt(n)
        OBVIOUS
      <3>2. SlotAt(n)' = s
        BY <2>1, <3>1
      <3>3. PktNext(SlotAt(n), 0)' = PktNext(s, 0)'
        BY <3>2 DEF PktNext
      <3>4. PktNext(s, 0)' = PktNext(s, 0)
        BY <1>3 DEF PktNext
      <3> QED
        BY <3>1, <3>3, <3>4
    <2>3. \A n : Connection(SlotAt(n), None)' = Connection(SlotAt(n), None)
      BY <1>3, <2>1, <2>2 DEF Connection
    <2> QED
      BY <1>3, <2>1, <2>2, <2>3 DEF Holds, Complete
  <1>4. CASE ScanSlot /\ ~WakePending
    <2> DEFINE s == rd.slot
               c == IF running[s] THEN Connection(s, rd.conn) ELSE rd.conn
    <2>1. /\ s \in Slots /\ rd.pc = "scan" /\ rd.seen \in Slots /\ UNCHANGED <<running, rx, gone>>
          /\ rd'.pc = "scan" /\ rd'.seen = rd.seen + 1
          /\ rd'.conn = c /\ rd'.queued = rd.queued /\ rd'.woken = rd.woken
          /\ UNCHANGED <<next_read_slot, moved>>
          /\ running[s] => ~Complete(s, c)
      BY <1>0, <1>4, ScanSlotFacts
    <2>2. Looked = rd.seen /\ Looked' = rd.seen + 1 /\ rd.seen \in Nat
      BY <1>0, <2>1 DEF Looked
    <2>3. Holds' = Holds /\ \A n \in Holds : n \in Nat
      BY <1>0, <1>3, <2>1 DEF Holds
    <2>4. /\ \A n \in Holds : n < rd.seen /\ (\A k \in Holds : n <= k) =>
               ~Complete(SlotAt(n), Connection(SlotAt(n), None))
          /\ rd.conn # None => \E n \in Holds : n < rd.seen
      BY <1>4, <2>1, <2>2 DEF WakeInv
    <2>5. s = SlotAt(rd.seen)
      BY <2>1 DEF ScanInv, ScanFrom, SlotAt
    <2>6. ASSUME NEW n \in Holds, n < rd.seen + 1, \A k \in Holds : n <= k
          PROVE  ~Complete(SlotAt(n), Connection(SlotAt(n), None))
      <3>1. CASE n < rd.seen
        BY <2>4, <2>6, <3>1
      <3>2. CASE n = rd.seen
        <4>1. running[s]
          BY <2>5, <3>2 DEF Holds
        <4>2. rd.conn = None
          BY <2>2, <2>3, <2>4, <2>6, <3>2
        <4> QED
          BY <2>1, <2>5, <3>2, <4>1, <4>2
      <3> QED
        BY <2>2, <2>3, <2>6, <3>1, <3>2
    <2>7. ASSUME c # None
          PROVE  \E n \in Holds : n < rd.seen + 1
      <3>1. CASE rd.conn # None
        BY <2>2, <2>3, <2>4, <3>1
      <3>2. CASE rd.conn = None
        <4>1. running[s] /\ PktNext(s, 0) # 0
          BY <2>7, <3>2 DEF Connection
        <4>2. rd.seen \in Holds
          BY <2>1, <2>5, <4>1 DEF Holds
        <4> QED
          BY <2>2, <4>2
      <3> QED
        BY <3>1, <3>2
    <2> HIDE DEF c
    <2> QED
      BY <1>3, <2>1, <2>2, <2>3, <2>6, <2>7
  <1>5. CASE /\ rd.pc = "scan" /\ rd.queued /\ ~rd.woken /\ rd.seen = SlotCount
             /\ rd'.pc = "asleep" /\ rd'.slot = rd.slot /\ rd'.conn = None
             /\ next_read_slot' = rd.slot /\ UNCHANGED <<running, rx, gone, moved>> /\ ~WakePending
    <2>1. next_read_slot' = next_read_slot
      BY <1>0, <1>5, SlotAtFacts DEF ScanInv, ScanFrom, SlotAt
    <2>2. Looked = SlotCount /\ Looked' = SlotCount
      BY <1>5 DEF Looked
    <2>3. \A n \in Holds : n < SlotCount /\ (\A k \in Holds : n <= k) =>
            ~Complete(SlotAt(n), Connection(SlotAt(n), None))
      BY <1>5, <2>2 DEF WakeInv
    <2> QED
      BY <1>3, <1>5, <2>1, <2>2, <2>3
  <1> QED
    BY <1>0, <1>1, <1>2, <1>4, <1>5, QuietSteps DEF FragmentsInv

-----------------------------------------------------------------------------
LookInv == ScanInv /\ AheadInv /\ WakeInv

\* What a process that looks for a message knows of the slots behind and before it, as
\* long as the system runs and the process meets whole fragments.
THEOREM LookInvariant == Spec => [](torn = "no" => LookInv)
  <1>1. Init => LookInv
    <2>1. Init => rd.pc = "out" /\ ~rd.queued
      BY DEF Init, Out
    <2> QED
      BY <2>1 DEF LookInv, ScanInv, AheadInv, WakeInv
  <1>2. (torn = "no" => FragmentsInv) /\ (torn = "no" => LookInv) /\ [Next]_vars => (torn = "no" => LookInv)'
    BY TornStep, ScanStep, AheadStep, WakeStep DEF LookInv
  <1> QED
    BY <1>1, <1>2, FragmentsInvariant, PTL DEF Spec

\* A read() that has begun finds the end of its message, unless half a fragment misled it
\* or another slot shares an id with the one it reads.
THEOREM BugCorrect == Spec => []BugNeedsSharedId
  <1>1. (torn = "no" => LookInv) => BugNeedsSharedId
    <2> SUFFICES ASSUME AheadInv, rd.pc = "loop", rd.idx = 0
                 PROVE  Shared(rd.slot)
      BY DEF LookInv, BugNeedsSharedId, Shared
    <2> QED
      BY DEF AheadInv
  <1> QED
    BY <1>1, LookInvariant, PTL

\* No reader sleeps through a message.
THEOREM WakeupCorrect == Spec => []NoLostWakeup
  <1>1. (torn = "no" => FragmentsInv) /\ (torn = "no" => LookInv) => NoLostWakeup
    <2> SUFFICES ASSUME FragmentsInv, LookInv, rd.pc = "asleep", ~rd.woken, ~moved, ~WakePending,
                        NEW n \in Holds, \A k \in Holds : n <= k
                 PROVE  ~Complete(SlotAt(n), Connection(SlotAt(n), None))
      BY DEF NoLostWakeup, Holds, SlotAt, TurnAt
    <2>1. rd.queued
      BY DEF LookInv, ScanInv
    <2>2. n < Looked
      BY SlotAssumption DEF Holds, Looked, Slots
    <2> QED
      BY <2>1, <2>2 DEF LookInv, WakeInv
  <1> QED
    BY <1>1, FragmentsInvariant, LookInvariant, PTL
=============================================================================
