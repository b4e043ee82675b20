------------------------ MODULE DvbRingBufferProofs ------------------------
(***************************************************************************)
(* For every Size: the lock-free ring never loses, duplicates, reorders or *)
(* overwrites a byte.  RingInv is inductive; the properties of the run are *)
(* conjuncts of it.                                                        *)
(***************************************************************************)
EXTENDS DvbRingBuffer, SequenceTheorems, TLAPS

\* The only two cases in which the code's (ptr + todo) % size is evaluated.
LEMMA ModWrap ==
  ASSUME NEW k \in 0 .. Size
  PROVE  k % Size = Wrap(k)
  BY SizeAssumption DEF Wrap

\* The index a transfer leaves behind is the index one part further round the ring.
LEMMA AdvanceIsWrap ==
  ASSUME NEW ptr \in Index, NEW todo \in Nat, NEW part \in 0 .. todo,
         ptr + part <= Size,
         part < todo => ptr + part = Size
  PROVE  Advance(ptr, part, todo) = Wrap(ptr + part)
  <1>1. CASE part < todo
    BY <1>1, SizeAssumption DEF Advance, Wrap, Index
  <1>2. CASE part = todo
    BY <1>2, ModWrap, SizeAssumption DEF Advance, Index
  <1> QED
    BY <1>1, <1>2

\* Going d places round the ring and then i more is going d + i places round it.
LEMMA WrapAdd ==
  ASSUME NEW ptr \in Index, NEW d \in Nat, NEW i \in Nat, d + i < Size
  PROVE  /\ Wrap(ptr + d) \in Index
         /\ Wrap(Wrap(ptr + d) + i) = Wrap(ptr + (d + i))
  BY SizeAssumption DEF Wrap, Index

\* The counts the two sides compute, as plain facts about the indices.
LEMMA AvailFacts ==
  ASSUME pread \in Index, pwrite \in Index
  PROVE  /\ avail \in Index
         /\ free = Size - 1 - avail
         /\ Wrap(pread + avail) = pwrite
  BY SizeAssumption DEF avail, Avail, free, Free, Wrap, Index

\* Consuming the oldest d bytes (a store to pread by a read or by a flush)
\* leaves the others where they are.
LEMMA ConsumePrefix ==
  ASSUME RingInv, NEW d \in 0 .. avail,
         pread' = Wrap(pread + d), rpos' = rpos + d,
         UNCHANGED <<data, pwrite, woff>>, wtodo <= free
  PROVE  /\ avail' = avail - d
         /\ ContentsExact'
  <1>1. /\ pread \in Index /\ pwrite \in Index /\ rpos \in Nat /\ avail \in Index
        /\ woff \in Nat /\ wtodo \in Nat /\ woff <= wtodo
        /\ avail + woff < Size /\ d \in Nat /\ d <= avail
    <2>1. pread \in Index /\ pwrite \in Index /\ rpos \in Nat /\ woff \in Nat /\ wtodo \in Nat /\ woff <= wtodo
      BY SizeAssumption DEF RingInv, TypeOK
    <2> QED
      BY <2>1, AvailFacts, SizeAssumption DEF Index
  <1>2. avail' = avail - d
    BY <1>1, SizeAssumption DEF avail, Avail, Wrap, Index
  <1>3. SUFFICES ASSUME NEW i \in 0 .. avail' + woff - 1
                 PROVE  data[Wrap(pread' + i)] = rpos + d + i
    BY <1>1, <1>2 DEF ContentsExact, Wrap, Index
  <1>4. i \in Nat /\ d + i \in 0 .. avail + woff - 1 /\ d + i < Size
    BY <1>1, <1>2, SizeAssumption DEF Index
  <1>5. Wrap(pread' + i) = Wrap(pread + (d + i))
    BY <1>1, <1>4, WrapAdd
  <1>6. data[Wrap(pread + (d + i))] = rpos + (d + i)
    BY <1>4 DEF RingInv, ContentsExact
  <1> QED
    BY <1>1, <1>4, <1>5, <1>6

-----------------------------------------------------------------------------
(* One lemma per action: it preserves RingInv.                             *)

\* The start of dvb_ringbuffer_write preserves RingInv: the request fits into what
\* free said, and FirstPart stays inside the array.
LEMMA WriteBeginInv ==
  ASSUME RingInv, NEW len \in 1 .. Size - 1, WriteBegin(len)
  PROVE  RingInv'
  <1>1. TypeOK' /\ PartsInside' /\ NoOverrun'
    BY SizeAssumption DEF RingInv, TypeOK, PartsInside, NoOverrun, WriteBegin, FirstPart,
       free, Free, avail, Avail, Wrap, Index, rvars, fvars
  <1>2. woff = 0 /\ avail' = avail /\ free' = free
    BY DEF RingInv, TypeOK, WriteBegin, avail, Avail, free, Free, rvars
  <1>3. CountsExact' /\ ContentsExact' /\ ReadsStream'
    BY <1>2 DEF RingInv, CountsExact, ContentsExact, ReadsStream, WriteBegin, Wrap, rvars
  <1> QED
    BY <1>1, <1>3 DEF RingInv

\* A byte stored by dvb_ringbuffer_write lands just behind the stream bytes that
\* are in the ring, so RingInv survives.
LEMMA WriteCopyInv ==
  ASSUME RingInv, WriteCopy
  PROVE  RingInv'
  <1>1. TypeOK' /\ PartsInside' /\ NoOverrun' /\ CountsExact' /\ ReadsStream'
    BY SizeAssumption DEF RingInv, TypeOK, PartsInside, NoOverrun, CountsExact, ReadsStream,
       WriteCopy, free, Free, avail, Avail, Wrap, Index, rvars, fvars
  <1>2. /\ pread \in Index /\ pwrite \in Index /\ woff \in Nat /\ rpos \in Nat
        /\ data \in [Index -> Nat]
        /\ pwrite + woff \in Index /\ avail + woff < Size - 1
        /\ wpos = rpos + avail
    BY SizeAssumption DEF RingInv, TypeOK, PartsInside, NoOverrun, CountsExact, WriteCopy,
       free, Free, avail, Avail, Index
  <1>3. avail' = avail /\ pread' = pread /\ rpos' = rpos /\ woff' = woff + 1
    BY DEF WriteCopy, avail, Avail, rvars
  <1>4. SUFFICES ASSUME NEW i \in 0 .. avail + woff
                 PROVE  data'[Wrap(pread + i)] = rpos + i
    BY <1>1, <1>2, <1>3, AvailFacts DEF RingInv, ContentsExact, Index, Wrap
  <1>5. i \in Int /\ avail \in Index /\ Wrap(pread + i) \in Index
    <2>1. avail \in Index
      BY <1>2, AvailFacts
    <2>2. i \in Nat /\ i < Size
      BY <1>2, <2>1, SizeAssumption DEF Index
    <2> QED
      BY <1>2, <2>1, <2>2, SizeAssumption DEF Wrap, Index
  <1>6. CASE i = avail + woff
    <2>1. Wrap(pread + i) = pwrite + woff
      BY <1>2, <1>5, <1>6, WrapAdd, AvailFacts, SizeAssumption DEF Wrap, Index
    <2> QED
      BY <1>2, <1>5, <1>6, <2>1 DEF WriteCopy, Index
  <1>7. CASE i < avail + woff
    <2>1. Wrap(pread + i) # pwrite + woff
      BY <1>2, <1>5, <1>7, AvailFacts, SizeAssumption DEF Wrap, Index
    <2>2. data[Wrap(pread + i)] = rpos + i
      BY <1>2, <1>5, <1>7 DEF RingInv, ContentsExact, Index
    <2> QED
      BY <1>2, <1>5, <2>1, <2>2 DEF WriteCopy
  <1> QED
    BY <1>2, <1>5, <1>6, <1>7 DEF Index

\* The store to pwrite publishes bytes that are already in place.
LEMMA WritePublishInv ==
  ASSUME RingInv, WritePublish
  PROVE  RingInv'
  <1>1. pwrite' = Wrap(pwrite + wpart)
    BY AdvanceIsWrap, SizeAssumption DEF WritePublish, RingInv, TypeOK, PartsInside
  <1>2. TypeOK' /\ PartsInside' /\ NoOverrun' /\ CountsExact' /\ ReadsStream'
    BY <1>1, SizeAssumption DEF RingInv, TypeOK, PartsInside, NoOverrun, CountsExact,
       ReadsStream, WritePublish, free, Free, avail, Avail, Wrap, Index, rvars, fvars
  <1>3. (avail + woff - 1)' = avail + woff - 1 /\ pread' = pread /\ rpos' = rpos /\ data' = data
    BY <1>1, SizeAssumption DEF RingInv, TypeOK, PartsInside, NoOverrun, WritePublish,
       free, Free, avail, Avail, Wrap, Index, rvars
  <1>4. ContentsExact'
    <2>1. \A i \in 0 .. avail + woff - 1 : data[Wrap(pread + i)] = rpos + i
      BY DEF RingInv, ContentsExact
    <2>2. (0 .. avail + woff - 1)' = 0 .. avail + woff - 1
      BY <1>3
    <2>3. SUFFICES ASSUME NEW i \in 0 .. avail + woff - 1
                   PROVE  data[Wrap(pread + i)] = rpos + i
      BY <1>3, <2>2 DEF ContentsExact, Wrap
    <2> QED
      BY <2>1
  <1> QED
    BY <1>2, <1>4 DEF RingInv

\* The start of dvb_ringbuffer_read_user preserves RingInv.
LEMMA ReadBeginInv ==
  ASSUME RingInv, NEW len \in 1 .. Size - 1, ReadBegin(len)
  PROVE  RingInv'
  BY SizeAssumption DEF RingInv, TypeOK, PartsInside, NoOverrun, CountsExact, ContentsExact,
     ReadsStream, ReadBegin, ReaderIdle, FirstPart, free, Free, avail, Avail, Wrap, Index, wvars, fvars

\* The byte that dvb_ringbuffer_read_user copies is the next one of the stream.
LEMMA ReadCopyInv ==
  ASSUME RingInv, ReadCopy
  PROVE  RingInv'
  <1>1. /\ pread \in Index /\ rpos \in Nat /\ ubuf \in Seq(Nat) /\ woff \in Nat
        /\ Len(ubuf) \in Nat /\ Len(ubuf) < avail /\ avail \in Index /\ pread + Len(ubuf) < Size
    <2>1. /\ pread \in Index /\ pwrite \in Index /\ rpos \in Nat /\ woff \in Nat
          /\ rtodo \in Nat /\ rpart \in Nat /\ rpart <= rtodo /\ ubuf \in Seq(Nat)
      BY SizeAssumption DEF RingInv, TypeOK
    <2>2. Len(ubuf) < rpart /\ rtodo <= avail /\ pread + rpart <= Size
      BY DEF RingInv, PartsInside, NoOverrun, ReadCopy
    <2>3. avail \in Index /\ Len(ubuf) \in Nat
      BY <2>1, AvailFacts
    <2> QED
      BY <2>1, <2>2, <2>3, SizeAssumption DEF Index
  <1>2. TypeOK'
    <2>1. data[pread + Len(ubuf)] \in Nat
      BY <1>1, SizeAssumption DEF RingInv, TypeOK, Index
    <2>2. ubuf' \in Seq(Nat) /\ Len(ubuf') = Len(ubuf) + 1
      BY <1>1, <2>1 DEF ReadCopy
    <2> QED
      BY <1>1, <2>2 DEF RingInv, TypeOK, ReadCopy, wvars, fvars
  <1>3. PartsInside' /\ NoOverrun' /\ CountsExact'
    BY DEF RingInv, PartsInside, NoOverrun, CountsExact, ReadCopy, free, Free, avail, Avail, Wrap, wvars, fvars
  <1>4. ContentsExact'
    BY DEF RingInv, ContentsExact, ReadCopy, avail, Avail, Wrap, wvars
  <1>5. data[pread + Len(ubuf)] = rpos + Len(ubuf)
    <2>1. Len(ubuf) \in 0 .. avail + woff - 1
      BY <1>1 DEF Index
    <2>2. data[Wrap(pread + Len(ubuf))] = rpos + Len(ubuf)
      BY <2>1 DEF RingInv, ContentsExact
    <2> QED
      BY <1>1, <2>2 DEF Wrap
  <1>6. ReadsStream'
    <2>1. \A i \in 1 .. Len(ubuf) : ubuf[i] = rpos + i - 1
      BY DEF RingInv, ReadsStream
    <2>2. ubuf' = Append(ubuf, rpos + Len(ubuf)) /\ rpos' = rpos
      BY <1>5 DEF ReadCopy
    <2> QED
      BY <1>1, <2>1, <2>2 DEF ReadsStream
  <1> QED
    BY <1>2, <1>3, <1>4, <1>6 DEF RingInv

\* The store to pread gives up exactly the bytes that were copied.
LEMMA ReadPublishInv ==
  ASSUME RingInv, ReadPublish
  PROVE  RingInv'
  <1>1. pread' = Wrap(pread + rpart)
    BY AdvanceIsWrap, SizeAssumption DEF ReadPublish, RingInv, TypeOK, PartsInside
  <1>2. TypeOK' /\ PartsInside' /\ NoOverrun' /\ CountsExact' /\ ReadsStream'
    BY <1>1, SizeAssumption DEF RingInv, TypeOK, PartsInside, NoOverrun, CountsExact,
       ReadsStream, ReadPublish, free, Free, avail, Avail, Wrap, Index, wvars, fvars
  <1>3. rpart \in 0 .. avail /\ wtodo <= free
    BY AvailFacts DEF RingInv, TypeOK, NoOverrun, Index
  <1>4. ContentsExact'
    BY <1>1, <1>3, ConsumePrefix DEF ReadPublish, wvars
  <1> QED
    BY <1>2, <1>4 DEF RingInv

\* The -EFAULT return of dvb_ringbuffer_read_user preserves RingInv.
LEMMA ReadFaultInv ==
  ASSUME RingInv, ReadFault
  PROVE  RingInv'
  BY SizeAssumption DEF RingInv, TypeOK, PartsInside, NoOverrun, CountsExact, ContentsExact,
     ReadsStream, ReadFault, free, Free, avail, Avail, Wrap, Index, wvars, fvars

\* The load of pwrite in dvb_ringbuffer_flush preserves RingInv.
LEMMA FlushLoadInv ==
  ASSUME RingInv, FlushLoad
  PROVE  RingInv'
  BY SizeAssumption DEF RingInv, TypeOK, PartsInside, NoOverrun, CountsExact, ContentsExact,
     ReadsStream, FlushLoad, ReaderIdle, free, Free, avail, Avail, Wrap, Index, wvars, rvars

\* The store to pread in dvb_ringbuffer_flush is safe although pwrite may have
\* moved on since it was loaded.
LEMMA FlushStoreInv ==
  ASSUME RingInv, FlushStore
  PROVE  RingInv'
  <1>1. TypeOK' /\ PartsInside' /\ NoOverrun' /\ CountsExact' /\ ReadsStream'
    BY SizeAssumption DEF RingInv, TypeOK, PartsInside, NoOverrun, CountsExact, ReadsStream,
       FlushStore, free, Free, avail, Avail, Wrap, Index, wvars
  <1>2. /\ fpos - rpos \in 0 .. avail /\ wtodo <= free
        /\ pread' = Wrap(pread + (fpos - rpos)) /\ rpos' = rpos + (fpos - rpos)
    BY DEF RingInv, TypeOK, NoOverrun, CountsExact, FlushStore
  <1>3. ContentsExact'
    BY <1>2, ConsumePrefix DEF FlushStore, wvars
  <1> QED
    BY <1>1, <1>3 DEF RingInv

-----------------------------------------------------------------------------
\* RingInv holds in every reachable state, for every Size and MaxBytes: it holds
\* after dvb_ringbuffer_init, and each memory access of dvb_ringbuffer_write,
\* dvb_ringbuffer_read(_user) and dvb_ringbuffer_flush preserves it.
THEOREM RingInvariant == Spec => []RingInv
  <1>1. Init => RingInv
    BY SizeAssumption DEF Init, RingInv, TypeOK, PartsInside, NoOverrun, CountsExact,
       ContentsExact, ReadsStream, free, Free, avail, Avail, Wrap, Index
  <1>2. RingInv /\ [Next]_vars => RingInv'
    <2> SUFFICES ASSUME RingInv, [Next]_vars PROVE RingInv'
      OBVIOUS
    <2>1. CASE Next
      BY <2>1, WriteBeginInv, WriteCopyInv, WritePublishInv, ReadBeginInv, ReadCopyInv,
         ReadPublishInv, ReadFaultInv, FlushLoadInv, FlushStoreInv DEF Next
    <2>2. CASE UNCHANGED vars
      BY <2>2 DEF RingInv, TypeOK, PartsInside, NoOverrun, CountsExact, ContentsExact,
         ReadsStream, free, Free, avail, Avail, Wrap, Index, vars, wvars, rvars, fvars
    <2> QED
      BY <2>1, <2>2
  <1> QED
    BY <1>1, <1>2, PTL DEF Spec

\* dvb_ringbuffer_init and every memory access keep pread and pwrite inside the
\* array and the transfer counters within the request, for every Size.
THEOREM TypeCorrect == Spec => []TypeOK
  BY RingInvariant, PTL DEF RingInv

\* No memcpy and no flush overwrites or exposes a byte that is not the stream's
\* byte for that place, for every Size.
THEOREM ContentsCorrect == Spec => []ContentsExact
  BY RingInvariant, PTL DEF RingInv

-----------------------------------------------------------------------------
(***************************************************************************)
(* The refinement.  Under RingInv the bytes in flight are a run of         *)
(* consecutive stream positions, so what is left is arithmetic on runs.    *)
(***************************************************************************)

\* The n bytes of the stream that start at position a.
Run(a, n) == [i \in 1 .. n |-> a + i - 1]

\* A run of the stream is a sequence, and which one.
LEMMA RunSeq ==
  ASSUME NEW a \in Nat, NEW n \in Nat
  PROVE  /\ Run(a, n) \in Seq(Nat)
         /\ Len(Run(a, n)) = n
         /\ \A i \in 1 .. n : Run(a, n)[i] = a + i - 1
  BY DEF Run

\* A sequence whose elements count up from a is a run of the stream.
LEMMA IsRun ==
  ASSUME NEW s \in Seq(Nat), NEW a \in Nat,
         \A i \in 1 .. Len(s) : s[i] = a + i - 1
  PROVE  s = Run(a, Len(s))
  BY RunSeq, SeqEqual, LenProperties, SMT

\* Appending the bytes that come next in the stream gives a longer run.
LEMMA RunAppend ==
  ASSUME NEW a \in Nat, NEW n \in Nat, NEW m \in Nat
  PROVE  Run(a, n) \o Run(a + n, m) = Run(a, n + m)
  <1> DEFINE s == Run(a, n)
             t == Run(a + n, m)
  <1>1. s \in Seq(Nat) /\ Len(s) = n /\ \A i \in 1 .. n : s[i] = a + i - 1
    BY RunSeq
  <1>2. a + n \in Nat
    OBVIOUS
  <1>3. t \in Seq(Nat) /\ Len(t) = m /\ \A i \in 1 .. m : t[i] = (a + n) + i - 1
    BY <1>2, RunSeq
  <1> HIDE DEF s, t
  <1>4. /\ s \o t \in Seq(Nat) /\ Len(s \o t) = n + m
        /\ \A i \in 1 .. n + m : (s \o t)[i] = IF i <= n THEN s[i] ELSE t[i - n]
    BY <1>1, <1>3, ConcatProperties
  <1>5. \A i \in 1 .. n + m : (s \o t)[i] = a + i - 1
    BY <1>1, <1>3, <1>4
  <1>6. s \o t = Run(a, n + m)
    BY <1>4, <1>5, IsRun
  <1> QED
    BY <1>6 DEF s, t

\* A part of a run is a run.
LEMMA RunSubSeq ==
  ASSUME NEW a \in Nat, NEW n \in Nat, NEW m \in 1 .. n + 1, NEW k \in m - 1 .. n
  PROVE  SubSeq(Run(a, n), m, k) = Run(a + m - 1, k - m + 1)
  <1> DEFINE s == Run(a, n)
  <1>1. s \in Seq(Nat) /\ Len(s) = n /\ \A i \in 1 .. n : s[i] = a + i - 1
    BY RunSeq
  <1> HIDE DEF s
  <1>2. \A i \in m .. k : s[i] \in Nat
    BY <1>1
  <1>3. /\ SubSeq(s, m, k) \in Seq(Nat)
        /\ Len(SubSeq(s, m, k)) = (IF m <= k THEN k - m + 1 ELSE 0)
        /\ \A i \in 1 .. k - m + 1 : SubSeq(s, m, k)[i] = s[m + i - 1]
    BY <1>2, SubSeqProperties
  <1>4. Len(SubSeq(s, m, k)) = k - m + 1 /\ a + m - 1 \in Nat
    BY <1>3
  <1>5. \A i \in 1 .. k - m + 1 : SubSeq(s, m, k)[i] = a + m - 1 + i - 1
    BY <1>1, <1>3
  <1>6. \A i \in 1 .. Len(SubSeq(s, m, k)) : SubSeq(s, m, k)[i] = (a + m - 1) + i - 1
    BY <1>4, <1>5
  <1>7. SubSeq(s, m, k) = Run(a + m - 1, k - m + 1)
    BY <1>3, <1>4, <1>6, IsRun
  <1> QED
    BY <1>7 DEF s

\* The bytes between pread and pwrite are the stream from rpos to wpos.
LEMMA InFlightIsRun ==
  RingInv => /\ InFlight = Run(rpos, wpos - rpos)
             /\ rpos \in Nat /\ wpos \in Nat /\ wpos - rpos \in 0 .. Size - 1
  <1> SUFFICES ASSUME RingInv
               PROVE  /\ InFlight = Run(rpos, wpos - rpos)
                      /\ rpos \in Nat /\ wpos \in Nat /\ wpos - rpos \in 0 .. Size - 1
    OBVIOUS
  <1>1. rpos \in Nat /\ wpos \in Nat /\ avail \in Index /\ avail = wpos - rpos /\ woff \in Nat
    BY AvailFacts, SizeAssumption DEF RingInv, TypeOK, CountsExact
  <1>2. \A i \in 1 .. avail : data[Wrap(pread + i - 1)] = rpos + i - 1
    <2> SUFFICES ASSUME NEW i \in 1 .. avail
                 PROVE  data[Wrap(pread + i - 1)] = rpos + i - 1
      OBVIOUS
    <2>1. i - 1 \in 0 .. avail + woff - 1
      BY <1>1 DEF Index
    <2>2. data[Wrap(pread + (i - 1))] = rpos + (i - 1)
      BY <2>1 DEF RingInv, ContentsExact
    <2> QED
      BY <1>1, <2>2 DEF RingInv, TypeOK, Index
  <1> QED
    BY <1>1, <1>2 DEF InFlight, Run, Index

\* The lock-free ring implements the bounded queue, for every Size: a store to
\* pwrite is a Put of the bytes just copied, a store to pread a Get of exactly
\* the oldest bytes (or the Drop of a flush), all other accesses stutter.
THEOREM RingImplementsFifo == Spec => ImplementsFifo
  <1>1. Init => Fifo!Init
    BY SizeAssumption DEF Init, Fifo!Init, InFlight, avail, Avail
  <1>2. RingInv /\ RingInv' /\ [Next]_vars => [Fifo!Next]_<<InFlight, wpos, out>>
    <2> SUFFICES ASSUME RingInv, RingInv', [Next]_vars
                 PROVE  [Fifo!Next]_<<InFlight, wpos, out>>
      OBVIOUS
    <2>1. /\ InFlight = Run(rpos, wpos - rpos)
          /\ rpos \in Nat /\ wpos \in Nat /\ wpos - rpos \in 0 .. Size - 1
      BY InFlightIsRun
    <2>2. (/\ InFlight = Run(rpos, wpos - rpos)
           /\ rpos \in Nat /\ wpos \in Nat /\ wpos - rpos \in 0 .. Size - 1)'
      BY InFlightIsRun, PTL
    <2> DEFINE n == wpos - rpos
    <2>3. /\ n \in Nat /\ n \in 0 .. Size - 1 /\ wpos = rpos + n
          /\ InFlight = Run(rpos, n) /\ Len(InFlight) = n
      BY <2>1, RunSeq
    <2> HIDE DEF n
    <2>4. ASSUME UNCHANGED <<rpos, wpos, out>>
          PROVE  UNCHANGED <<InFlight, wpos, out>>
      BY <2>1, <2>2, <2>4
    <2>5. CASE WritePublish
      <3>1. /\ wpos' = wpos + wpart /\ rpos' = rpos /\ out' = out
            /\ wpart \in 1 .. Size - 1
        BY <2>5, SizeAssumption DEF WritePublish, rvars, RingInv, TypeOK, PartsInside
      <3>2. InFlight' = Run(rpos, n + wpart)
        <4>1. wpos' - rpos' = n + wpart
          BY <2>1, <2>3, <3>1
        <4> QED
          BY <2>2, <3>1, <4>1
      <3>3. InFlight' = InFlight \o Run(wpos, wpart)
        <4>1. rpos \in Nat /\ n \in Nat /\ wpart \in Nat
          BY <2>1, <2>3, <3>1
        <4>2. Run(rpos, n) \o Run(rpos + n, wpart) = Run(rpos, n + wpart)
          BY <4>1, RunAppend
        <4> QED
          BY <2>3, <3>2, <4>2
      <3>4. Fifo!Put(wpart)
        BY <2>1, <2>2, <2>3, <3>1, <3>3 DEF Fifo!Put, Run
      <3> QED
        BY <3>1, <3>4 DEF Fifo!Next
    <2>6. CASE ReadPublish
      <3>1. /\ rpos' = rpos + rpart /\ wpos' = wpos /\ out' = ubuf
            /\ rpart \in 1 .. n /\ ubuf \in Seq(Nat) /\ Len(ubuf) = rpart
            /\ \A i \in 1 .. Len(ubuf) : ubuf[i] = rpos + i - 1
        BY <2>1, <2>2, <2>3, <2>6 DEF ReadPublish, wvars, RingInv, TypeOK, PartsInside, ReadsStream
      <3>2. out' = SubSeq(InFlight, 1, rpart)
        <4>1. ubuf = Run(rpos, rpart)
          BY <2>1, <3>1, IsRun
        <4>2. 1 \in 1 .. n + 1 /\ rpart \in 1 - 1 .. n /\ rpos \in Nat /\ n \in Nat
          BY <2>1, <2>3, <3>1
        <4>3. SubSeq(Run(rpos, n), 1, rpart) = Run(rpos + 1 - 1, rpart - 1 + 1)
          BY <4>2, RunSubSeq
        <4>4. rpos + 1 - 1 = rpos /\ rpart - 1 + 1 = rpart
          BY <2>1, <3>1
        <4> QED
          BY <2>3, <3>1, <4>1, <4>3, <4>4
      <3>3. InFlight' = SubSeq(InFlight, rpart + 1, Len(InFlight))
        <4>1. rpart + 1 \in 1 .. n + 1 /\ n \in (rpart + 1) - 1 .. n /\ rpos \in Nat /\ n \in Nat
          BY <2>1, <2>3, <3>1
        <4>2. SubSeq(Run(rpos, n), rpart + 1, n) = Run(rpos + (rpart + 1) - 1, n - (rpart + 1) + 1)
          BY <4>1, RunSubSeq
        <4>3. rpos + (rpart + 1) - 1 = rpos' /\ n - (rpart + 1) + 1 = wpos' - rpos'
          BY <2>1, <2>3, <3>1
        <4> QED
          BY <2>2, <2>3, <4>2, <4>3
      <3>4. Fifo!Get(rpart)
        BY <3>1, <3>2, <3>3 DEF Fifo!Get
      <3> QED
        BY <2>3, <3>1, <3>4 DEF Fifo!Next
    <2>7. CASE FlushStore
      <3> DEFINE d == fpos - rpos
      <3>1. /\ rpos' = rpos + d /\ wpos' = wpos /\ out' = <<>>
            /\ d \in 0 .. n
        BY <2>1, <2>3, <2>7 DEF FlushStore, wvars, RingInv, TypeOK, NoOverrun
      <3> HIDE DEF d
      <3>2. InFlight' = SubSeq(InFlight, d + 1, Len(InFlight))
        <4>1. d + 1 \in 1 .. n + 1 /\ n \in (d + 1) - 1 .. n /\ rpos \in Nat /\ n \in Nat
          BY <2>1, <2>3, <3>1
        <4>2. SubSeq(Run(rpos, n), d + 1, n) = Run(rpos + (d + 1) - 1, n - (d + 1) + 1)
          BY <4>1, RunSubSeq
        <4>3. rpos + (d + 1) - 1 = rpos' /\ n - (d + 1) + 1 = wpos' - rpos'
          BY <2>1, <2>3, <3>1
        <4> QED
          BY <2>2, <2>3, <4>2, <4>3
      <3>3. Fifo!Drop(d)
        BY <3>1, <3>2 DEF Fifo!Drop
      <3> QED
        BY <2>3, <3>1, <3>3 DEF Fifo!Next
    <2>8. CASE \/ \E len \in 1 .. Size - 1 : WriteBegin(len) \/ ReadBegin(len)
               \/ WriteCopy \/ ReadCopy \/ ReadFault \/ FlushLoad \/ UNCHANGED vars
      <3>1. UNCHANGED <<rpos, wpos, out>>
        BY <2>8 DEF WriteBegin, ReadBegin, WriteCopy, ReadCopy, ReadFault, FlushLoad,
           vars, wvars, rvars, fvars
      <3> QED
        BY <2>4, <3>1
    <2> QED
      BY <2>5, <2>6, <2>7, <2>8 DEF Next
  <1> QED
    BY <1>1, <1>2, RingInvariant, PTL DEF Spec, ImplementsFifo, Fifo!Spec
=============================================================================
