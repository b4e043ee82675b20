------------------------ MODULE DmxdevBufferProofs -------------------------
(***************************************************************************)
(* For every buffer size, stream and mode: the callback that fills the     *)
(* ring and flushes it on overflow, the timer, and the read() that drains  *)
(* it without their lock.                                                  *)
(***************************************************************************)
EXTENDS DmxdevBuffer, TLAPS

\* How far index i is behind the one written next.
Back(i) == IF i < pwrite THEN pwrite - i ELSE pwrite - i + Size

\* Whatever the indices of the reader are, the array holds the last Size bytes of
\* the stream, the others being 0; and what the user got was in it.
DataInv ==
  /\ \A i \in Index : data[i] = IF Back(i) < wpos THEN wpos - Back(i) ELSE 0
  /\ last < wpos

\* The callback: what is left of its buffers, and that it fits where it is copied.
WriterInv ==
  /\ wpc = "locked" => Len(wbufs) \in 1 .. 2
  /\ wpc = "locked" /\ Len(wbufs) = 2 => wpos + wbufs[1] + wbufs[2] <= MaxBytes
  /\ wpc = "locked" /\ Len(wbufs) = 1 => wpos + wbufs[1] <= MaxBytes
  /\ wpc = "memcpy" =>
       /\ Len(wbufs) \in 1 .. 2 /\ wpos + wbufs[1] <= MaxBytes
       /\ Len(wbufs) = 2 => wpos + wbufs[1] + wbufs[2] <= MaxBytes
       /\ wbufs[1] <= free /\ wpart \in 1 .. wbufs[1]
       /\ wpart = FirstPart(pwrite, wbufs[1])

\* The indices are good, unless the callback has flushed the ring and the error it
\* left behind was not collected yet.
Sound == wpc \in {"locked", "memcpy", "flush"} \/ (error = None /\ wpc # "seterror")

\* While they are good, the reader is where the oldest byte is that the user does
\* not have; between a copy and its store it is still to get there.  All loads of
\* pread agree, and what read_user was asked for is there.
ReaderInv ==
  Sound =>
    /\ avail < wpos
    /\ avail - (IF rpc \in {"load", "store"} THEN rpart ELSE 0) < wpos - last
    /\ rpc \in Reading => rlen <= avail
    /\ rpc \in Reading \ {"split"} => rpart = FirstPart(pread, rlen) /\ ruse = pread
    /\ rpc \in Reading \ {"split", "base"} => rbase = pread
    /\ rpc \in {"len", "flushed"} => Avail(ruse, pwrite) <= avail

\* Outside read_user nothing is left to copy; and the read() that collects the
\* error makes the indices good before it clears it.
CollectInv ==
  /\ rpc \notin Reading => rlen = 0
  /\ rpc \in {"flush", "flushed", "clear"} => error # None \/ wpc = "seterror"
  /\ rpc = "flushed" => Avail(ruse, pwrite) < wpos - last
  /\ rpc = "clear" => avail < wpos - last

\* NoLostWakeup, with the steps from which the callback will certainly come to wake.
WakeInv ==
  rpc = "asleep" /\ (~Empty \/ error # None) =>
    \/ wpc \notin {"idle", "locked"}
    \/ wpc = "locked" /\ Len(wbufs) = 1
    \/ tpc # "idle"

BufInv == TypeOK /\ DataInv /\ WriterInv /\ ReaderInv /\ CollectInv

-----------------------------------------------------------------------------
(* Indices and bytes.                                                      *)

\* (ptr + todo) % size is an index, and goes round the ring once at most.
LEMMA ModFacts ==
  ASSUME NEW k \in 0 .. 2 * Size - 1
  PROVE  k % Size \in Index /\ k % Size = Wrap(k)
  <1>1. k \in Nat /\ Size \in Nat /\ Size > 0 /\ k < 2 * Size
    BY SizeAssumption
  <1>2. CASE k < Size
    BY <1>1, <1>2 DEF Wrap, Index
  <1>3. CASE k >= Size
    BY <1>1, <1>3 DEF Wrap, Index
  <1> QED
    BY <1>1, <1>2, <1>3

LEMMA ModIndex ==
  ASSUME NEW k \in Nat
  PROVE  k % Size \in Index
  BY SizeAssumption DEF Index

\* The counts the two sides compute.
LEMMA AvailFacts ==
  ASSUME NEW r \in Index, NEW w \in Index
  PROVE  /\ Avail(r, w) \in 0 .. Size - 1
         /\ Free(r, w) = Size - 1 - Avail(r, w)
  BY SizeAssumption DEF Avail, Free, Index

\* A copy stays inside the array, and goes up to its end unless it is the last.
LEMMA PartFacts ==
  ASSUME NEW ptr \in Index, NEW len \in Nat
  PROVE  /\ FirstPart(ptr, len) \in 0 .. len /\ ptr + FirstPart(ptr, len) <= Size
         /\ FirstPart(ptr, len) < len => ptr + FirstPart(ptr, len) = Size
         /\ len > 0 => FirstPart(ptr, len) > 0
  BY SizeAssumption DEF FirstPart, Index

\* The numbers that TypeOK gives, for the arithmetic below.
LEMMA Numbers ==
  ASSUME TypeOK
  PROVE  /\ Size \in Nat /\ Size > 0 /\ MaxBytes \in Nat /\ MaxBytes > 0
         /\ pread \in 0 .. Size - 1 /\ pwrite \in 0 .. Size - 1
         /\ rbase \in 0 .. Size - 1 /\ ruse \in 0 .. Size - 1 /\ rpart \in 0 .. rlen
         /\ avail \in 0 .. Size - 1 /\ free = Size - 1 - avail
         /\ Avail(ruse, pwrite) \in 0 .. Size - 1
         /\ wpos \in 1 .. MaxBytes /\ last \in 0 .. MaxBytes
         /\ wpart \in 0 .. Size /\ pread \in Index /\ pwrite \in Index /\ ruse \in Index
         /\ todo \in Nat /\ rlen \in 0 .. todo /\ rlen \in Nat
  <1>1. Size \in Nat /\ Size > 0 /\ MaxBytes \in Nat /\ MaxBytes > 0
    BY SizeAssumption, MaxBytesAssumption
  <1>2. /\ pread \in Index /\ pwrite \in Index /\ rbase \in Index /\ ruse \in Index
        /\ wpos \in 1 .. MaxBytes /\ last \in 0 .. MaxBytes /\ todo \in Nat /\ rlen \in 0 .. todo
        /\ wpart \in 0 .. Size /\ rpart \in 0 .. rlen
    BY DEF TypeOK
  <1>3. rlen \in Nat
    BY <1>2
  <1>4. /\ avail \in 0 .. Size - 1 /\ free = Size - 1 - avail /\ Avail(ruse, pwrite) \in 0 .. Size - 1
    BY <1>2, AvailFacts DEF avail, free
  <1> QED
    BY <1>1, <1>2, <1>3, <1>4 DEF Index

\* The lengths of the buffers a callback has left.
LEMMA PairFacts ==
  ASSUME NEW S, NEW x \in S, NEW y \in S
  PROVE  <<x, y>> \in Seq(S)
  OBVIOUS

LEMMA SeqFacts ==
  ASSUME NEW S, NEW b \in Seq(S), Len(b) \in 1 .. 2
  PROVE  /\ b[1] \in S /\ (Len(b) = 2 => b[2] \in S)
         /\ \A x \in S : /\ [b EXCEPT ![1] = x] \in Seq(S) /\ Len([b EXCEPT ![1] = x]) = Len(b)
                         /\ [b EXCEPT ![1] = x][1] = x
                         /\ Len(b) = 2 => [b EXCEPT ![1] = x][2] = b[2]
         /\ Tail(b) \in Seq(S) /\ Len(Tail(b)) = Len(b) - 1
         /\ Len(b) = 2 => Tail(b)[1] = b[2]
  <1>1. Len(b) \in Nat /\ 1 \in 1 .. Len(b) /\ (Len(b) = 2 => 2 \in 1 .. Len(b))
    OBVIOUS
  <1>2. b[1] \in S /\ (Len(b) = 2 => b[2] \in S)
    BY <1>1
  <1>3. ASSUME NEW x \in S
        PROVE  /\ [b EXCEPT ![1] = x] \in Seq(S) /\ Len([b EXCEPT ![1] = x]) = Len(b)
               /\ [b EXCEPT ![1] = x][1] = x
               /\ Len(b) = 2 => [b EXCEPT ![1] = x][2] = b[2]
    BY <1>1
  <1>4. Tail(b) \in Seq(S) /\ Len(Tail(b)) = Len(b) - 1 /\ (Len(b) = 2 => Tail(b)[1] = b[2])
    BY <1>1
  <1> QED
    BY <1>2, <1>3, <1>4

LEMMA BufsFacts ==
  ASSUME TypeOK, Len(wbufs) \in 1 .. 2
  PROVE  /\ wbufs[1] \in 0 .. Size /\ (Len(wbufs) = 2 => wbufs[2] \in 0 .. Size)
         /\ Tail(wbufs) \in Seq(0 .. Size) /\ Len(Tail(wbufs)) = Len(wbufs) - 1
         /\ Len(wbufs) = 2 => Tail(wbufs)[1] = wbufs[2]
  <1> DEFINE S == 0 .. Size
  <1>1. wbufs \in Seq(S)
    BY DEF TypeOK
  <1> HIDE DEF S
  <1>2. /\ wbufs[1] \in S /\ (Len(wbufs) = 2 => wbufs[2] \in S)
        /\ Tail(wbufs) \in Seq(S) /\ Len(Tail(wbufs)) = Len(wbufs) - 1
        /\ Len(wbufs) = 2 => Tail(wbufs)[1] = wbufs[2]
    BY <1>1, SeqFacts
  <1> QED
    BY <1>2 DEF S

-----------------------------------------------------------------------------
(* BufInv is inductive.  First the callback.                               *)

\* A callback comes in past the check of the error only while the indices are good.
LEMMA EnterInv ==
  ASSUME BufInv, NEW b1 \in 1 .. Size - 1, NEW b2 \in 0 .. 1, CallbackEnter(b1, b2)
  PROVE  BufInv'
  <1>1. /\ TypeOK /\ wpc = "idle" /\ wpos + b1 + b2 <= MaxBytes
        /\ UNCHANGED <<data, pread, pwrite, error, state, timer, tpc, wpart, wpos, rpc, todo, rlen, ruse, rpart, rbase, last>>
        /\ IF error # None THEN wpc' = "wake" /\ wbufs' = wbufs ELSE wpc' = "locked" /\ wbufs' = <<b1, b2>>
    BY DEF BufInv, CallbackEnter, ring, tmr, rdlocal
  <1>2. TypeOK'
    <2>1. b1 \in 0 .. Size /\ b2 \in 0 .. Size
      BY <1>1, Numbers
    <2>2. wbufs' \in Seq(0 .. Size) /\ wpc' \in {"wake", "locked"}
      BY ZenonT(60), <1>1, <2>1, PairFacts DEF TypeOK
    <2> QED
      BY <1>1, <2>2 DEF TypeOK, Reading
  <1>3. DataInv'
    BY <1>1 DEF BufInv, DataInv, Back
  <1>4. WriterInv'
    BY <1>1 DEF WriterInv
  <1>5. Sound' => Sound
    BY <1>1 DEF Sound
  <1>6. ReaderInv' /\ CollectInv'
    BY <1>1, <1>5 DEF BufInv, ReaderInv, CollectInv, avail, Reading
  <1> QED
    BY <1>2, <1>3, <1>4, <1>6 DEF BufInv

\* The steps of the callback that copy nothing.
LEMMA CallbackInv ==
  ASSUME BufInv,
         \/ CallbackFirst \/ CallbackSecond \/ CallbackFlush
         \/ CallbackSetError \/ CallbackUnlock \/ CallbackWake
  PROVE  BufInv'
  <1>1. TypeOK /\ DataInv /\ WriterInv /\ ReaderInv /\ CollectInv
    BY DEF BufInv
  <1>2. CASE CallbackFirst \/ CallbackSecond
    <2>1. /\ UNCHANGED <<data, pread, pwrite, error, state, tpc, wbufs, wpos, rpc, todo, rlen, ruse, rpart, rbase, last>>
          /\ wpc = "locked" /\ Len(wbufs) \in 1 .. 2 /\ timer' \in {timer, "off"}
          /\ \/ wpc' \in {"idle", "unlock", "flush"} /\ wpart' = wpart
             \/ wpc' = "memcpy" /\ wbufs[1] # 0 /\ ~(wbufs[1] > free) /\ wpart' = FirstPart(pwrite, wbufs[1])
      BY <1>2 DEF CallbackFirst, CallbackSecond, BufferWrite, ring, rdlocal, tmr
    <2>2. wbufs[1] \in 0 .. Size /\ (Len(wbufs) = 2 => wbufs[2] \in 0 .. Size)
      BY <1>1, <2>1, BufsFacts
    <2>3. wpc' = "memcpy" => wpart' \in 1 .. wbufs[1] /\ wbufs[1] <= free
      <3>1. wbufs[1] \in Nat /\ pwrite \in Index
        BY <1>1, <2>2, Numbers
      <3>2. /\ FirstPart(pwrite, wbufs[1]) \in 0 .. wbufs[1]
            /\ wbufs[1] > 0 => FirstPart(pwrite, wbufs[1]) > 0
        BY <3>1, PartFacts
      <3> QED
        BY <1>1, <2>1, <3>1, <3>2, Numbers
    <2>4. TypeOK'
      <3>1. wpart' \in 0 .. Size
        BY <1>1, <2>1, <2>2, <2>3, Numbers
      <3> QED
        BY <1>1, <2>1, <3>1 DEF TypeOK, Reading
    <2>5. DataInv'
      BY <1>1, <2>1 DEF DataInv, Back
    <2>6. WriterInv'
      <3>2. wpos + wbufs[1] <= MaxBytes /\ (Len(wbufs) = 2 => wpos + wbufs[1] + wbufs[2] <= MaxBytes)
        BY <1>1, <2>1, <2>2, Numbers DEF WriterInv
      <3> QED
        BY <1>1, <2>1, <2>3, <3>2 DEF WriterInv, free
    <2>7. Sound
      BY <2>1 DEF Sound
    <2>8. ReaderInv' /\ CollectInv'
      BY <1>1, <2>1, <2>7 DEF ReaderInv, CollectInv, avail, Reading
    <2> QED
      BY <2>4, <2>5, <2>6, <2>8 DEF BufInv
  <1>3. CASE CallbackFlush
    <2>1. /\ UNCHANGED <<data, pwrite, state, timer, tpc, wbufs, wpart, wpos, rpc, todo, rlen, ruse, rpart, rbase, last>>
          /\ wpc = "flush" /\ wpc' = "seterror" /\ pread' = pwrite /\ error' = None
      BY <1>3 DEF CallbackFlush, tmr, cblocal, rdlocal
    <2>2. TypeOK'
      BY <1>1, <2>1 DEF TypeOK, Reading
    <2>3. DataInv' /\ WriterInv' /\ ReaderInv'
      BY <1>1, <2>1 DEF DataInv, Back, WriterInv, ReaderInv, Sound
    <2>4. avail' = 0 /\ 0 < wpos - last
      BY <1>1, <2>1, Numbers DEF avail, Avail, DataInv
    <2>5. CollectInv'
      BY <1>1, <2>1, <2>4 DEF CollectInv
    <2> QED
      BY <2>2, <2>3, <2>5 DEF BufInv
  <1>4. CASE CallbackSetError
    <2>1. /\ UNCHANGED <<data, pread, pwrite, state, timer, tpc, wbufs, wpart, wpos, rpc, todo, rlen, ruse, rpart, rbase, last>>
          /\ wpc' = "unlock" /\ error' = EOVERFLOW
      BY <1>4 DEF CallbackSetError, tmr, cblocal, rdlocal
    <2>2. TypeOK'
      BY <1>1, <2>1 DEF TypeOK, Reading
    <2>3. DataInv' /\ WriterInv' /\ ReaderInv'
      BY <1>1, <2>1 DEF DataInv, Back, WriterInv, ReaderInv, Sound, EOVERFLOW, None
    <2>4. CollectInv'
      BY <1>1, <2>1 DEF CollectInv, avail, EOVERFLOW, None
    <2> QED
      BY <2>2, <2>3, <2>4 DEF BufInv
  <1>5. CASE CallbackUnlock
    <2>1. /\ UNCHANGED <<data, pread, pwrite, error, timer, tpc, wpart, wpos, rpc, todo, rlen, ruse, rpart, rbase, last>>
          /\ wpc = "unlock" /\ wpc' = "wake" /\ wbufs' = <<>> /\ state' \in {state, "DONE"}
      BY <1>5 DEF CallbackUnlock, ring, rdlocal
    <2>2. TypeOK'
      BY <1>1, <2>1 DEF TypeOK, Reading
    <2>3. DataInv' /\ WriterInv'
      BY <1>1, <2>1 DEF DataInv, Back, WriterInv
    <2>4. ReaderInv' /\ CollectInv'
      BY <1>1, <2>1 DEF ReaderInv, CollectInv, avail, Reading, Sound
    <2> QED
      BY <2>2, <2>3, <2>4 DEF BufInv
  <1>6. CASE CallbackWake
    <2>1. /\ UNCHANGED <<data, pread, pwrite, error, state, timer, tpc, wbufs, wpart, wpos, todo, rlen, ruse, rpart, rbase, last>>
          /\ wpc = "wake" /\ wpc' = "idle" /\ (rpc' = rpc \/ (rpc = "asleep" /\ rpc' = "wait"))
      BY <1>6 DEF CallbackWake, WakeUp, ring, tmr, cblocal, rdlocal
    <2>2. TypeOK'
      BY <1>1, <2>1 DEF TypeOK, Reading
    <2>3. DataInv' /\ WriterInv'
      BY <1>1, <2>1 DEF DataInv, Back, WriterInv
    <2>4. ReaderInv' /\ CollectInv'
      BY <1>1, <2>1 DEF ReaderInv, CollectInv, avail, Reading, Sound
    <2> QED
      BY <2>2, <2>3, <2>4 DEF BufInv
  <1> QED
    BY <1>2, <1>3, <1>4, <1>5, <1>6

\* A copy by the callback: into room that the indices leave free, behind the bytes
\* that are there.
LEMMA WriteInv ==
  ASSUME BufInv, CallbackWrite
  PROVE  BufInv'
  <1>1. /\ TypeOK /\ DataInv /\ WriterInv /\ ReaderInv /\ CollectInv
        /\ wpc = "memcpy" /\ Len(wbufs) \in 1 .. 2
        /\ wpart = FirstPart(pwrite, wbufs[1]) /\ wpart \in 1 .. wbufs[1] /\ wbufs[1] <= free
        /\ UNCHANGED <<pread, error, state, timer, tpc, rpc, todo, rlen, ruse, rpart, rbase, last>>
        /\ wpos' = wpos + wpart /\ pwrite' = Advance(pwrite, wpart, wbufs[1])
    BY DEF BufInv, WriterInv, CallbackWrite, tmr, rdlocal
  <1>2. /\ wbufs[1] \in 1 .. Size - 1 /\ wpart \in 1 .. Size - 1 /\ pwrite + wpart <= Size
        /\ avail + wpart <= Size - 1 /\ (wpart < wbufs[1] => pwrite + wpart = Size)
    <2>1. wbufs[1] \in 0 .. Size
      BY <1>1, BufsFacts
    <2>2. wbufs[1] \in Nat
      BY <2>1, <1>1, Numbers
    <2>3. pwrite + wpart <= Size /\ (wpart < wbufs[1] => pwrite + wpart = Size)
      BY <1>1, <2>2, Numbers, PartFacts
    <2> QED
      BY <1>1, <2>2, <2>3, Numbers
  <1>3. pwrite' = IF pwrite + wpart = Size THEN 0 ELSE pwrite + wpart
    <2>1. CASE wpart < wbufs[1]
      BY <1>1, <1>2, <2>1 DEF Advance
    <2>2. CASE wpart = wbufs[1]
      <3>1. pwrite + wpart \in 0 .. 2 * Size - 1
        BY <1>1, <1>2, Numbers
      <3>2. pwrite' = Wrap(pwrite + wpart)
        BY <1>1, <2>2, <3>1, ModFacts DEF Advance
      <3> QED
        BY <1>1, <1>2, <3>2, Numbers DEF Wrap
    <2> QED
      BY <1>1, <1>2, <2>1, <2>2
  <1>4. pwrite' \in 0 .. Size - 1 /\ wpos' \in 2 .. MaxBytes
    <2>1. wpos + wbufs[1] <= MaxBytes
      BY <1>1 DEF WriterInv
    <2> QED
      BY <1>1, <1>2, <1>3, <2>1, Numbers
  <1>5. DataInv'
    <2>1. ASSUME NEW i \in Index
          PROVE  data'[i] = IF Back(i)' < wpos' THEN wpos' - Back(i)' ELSE 0
      <3>1. i \in 0 .. Size - 1 /\ data[i] = IF Back(i) < wpos THEN wpos - Back(i) ELSE 0
        BY <1>1 DEF DataInv, Index
      <3>2. data'[i] = IF i \in pwrite .. pwrite + wpart - 1 THEN wpos + (i - pwrite) ELSE data[i]
        BY DEF CallbackWrite
      <3>3. CASE i \in pwrite .. pwrite + wpart - 1
        <4>1. Back(i)' = wpart - (i - pwrite)
          BY <1>1, <1>2, <1>3, <3>1, <3>3, Numbers DEF Back
        <4> QED
          BY <1>1, <1>2, <3>1, <3>2, <3>3, <4>1, Numbers
      <3>4. CASE i \notin pwrite .. pwrite + wpart - 1
        <4>1. Back(i)' = Back(i) + wpart /\ Back(i) \in Int
          BY <1>1, <1>2, <1>3, <3>1, <3>4, Numbers DEF Back
        <4> QED
          BY <1>1, <1>2, <3>1, <3>2, <3>4, <4>1, Numbers
      <3> QED
        BY <3>3, <3>4
    <2>2. last' < wpos'
      BY <1>1, <1>2, Numbers DEF DataInv
    <2> QED
      BY <2>1, <2>2 DEF DataInv
  <1>6. avail' = avail + wpart
    BY <1>1, <1>2, <1>3, Numbers DEF avail, Avail
  <1>7. \/ /\ wpart < wbufs[1] /\ wpc' = "memcpy" /\ wpart' = wbufs[1] - wpart
           /\ wbufs' = [wbufs EXCEPT ![1] = wbufs[1] - wpart]
        \/ /\ wpart = wbufs[1] /\ wpart' = 0 /\ wbufs' = Tail(wbufs)
           /\ wpc' = IF Len(wbufs) = 2 THEN "locked" ELSE "unlock"
    BY <1>1, <1>2 DEF CallbackWrite
  <1>8. ASSUME wpart < wbufs[1]
        PROVE  WriterInv' /\ wbufs' \in Seq(0 .. Size) /\ wpart' \in 0 .. Size /\ wpc' = "memcpy"
    <2>1. /\ wbufs' \in Seq(0 .. Size) /\ Len(wbufs') = Len(wbufs) /\ wbufs'[1] = wbufs[1] - wpart
          /\ Len(wbufs) = 2 => wbufs'[2] = wbufs[2]
      <3> DEFINE S == 0 .. Size
      <3>1. wbufs \in Seq(S) /\ wbufs[1] - wpart \in S
        <4>1. wbufs[1] - wpart \in S
          BY <1>1, <1>2, <1>8, Numbers
        <4> QED
          BY <1>1, <4>1 DEF TypeOK
      <3> HIDE DEF S
      <3>2. /\ wbufs' \in Seq(S) /\ Len(wbufs') = Len(wbufs) /\ wbufs'[1] = wbufs[1] - wpart
            /\ Len(wbufs) = 2 => wbufs'[2] = wbufs[2]
        BY <1>1, <1>2, <1>7, <1>8, <3>1, SeqFacts
      <3> QED
        BY <3>2 DEF S
    <2>2. /\ wpc' = "memcpy" /\ wpart' = wbufs[1] - wpart /\ wbufs'[1] = wbufs[1] - wpart
          /\ wbufs'[1] \in Int
      BY <1>2, <1>7, <1>8, <2>1
    <2>3. WriterInv'
      <3>1. Len(wbufs') \in 1 .. 2 /\ wpart' \in 1 .. wbufs'[1]
        BY <1>1, <1>2, <1>8, <2>1, <2>2
      <3>2. wbufs'[1] <= free'
        <4>1. free' = Size - 1 - avail'
          BY <1>1, <1>4, AvailFacts, Numbers DEF free, avail, Index
        <4> QED
          BY <1>1, <1>2, <1>6, <2>2, <4>1, Numbers
      <3>3. pwrite' = 0 /\ FirstPart(0, wbufs'[1]) = wbufs'[1]
        BY <1>1, <1>2, <1>3, <1>8, <2>2, Numbers DEF FirstPart
      <3>4. wpos' + wbufs'[1] = wpos + wbufs[1]
        BY <1>1, <1>2, <2>2, Numbers
      <3>5. wpos + wbufs[1] <= MaxBytes /\ (Len(wbufs) = 2 => wpos + wbufs[1] + wbufs[2] <= MaxBytes)
        BY <1>1 DEF WriterInv
      <3> QED
        BY <2>1, <2>2, <3>1, <3>2, <3>3, <3>4, <3>5 DEF WriterInv
    <2>4. wpart' \in 0 .. Size
      BY <1>1, <1>2, <1>8, <2>2, Numbers
    <2> QED
      BY <2>1, <2>2, <2>3, <2>4
  <1>9. ASSUME wpart = wbufs[1]
        PROVE  WriterInv' /\ wbufs' \in Seq(0 .. Size) /\ wpart' \in 0 .. Size /\ wpc' \in {"locked", "unlock"}
    <2>1. /\ wpart' = 0 /\ wbufs' = Tail(wbufs) /\ wpc' = IF Len(wbufs) = 2 THEN "locked" ELSE "unlock"
      BY <1>2, <1>7, <1>9
    <2>2. /\ wbufs' \in Seq(0 .. Size) /\ Len(wbufs') = Len(wbufs) - 1
          /\ Len(wbufs) = 2 => wbufs'[1] = wbufs[2]
      BY <1>1, <2>1, BufsFacts
    <2>3. WriterInv'
      <3>1. Len(wbufs) = 2 => wpos + wbufs[1] + wbufs[2] <= MaxBytes
        BY <1>1 DEF WriterInv
      <3>2. Len(wbufs) = 2 => wpos' + wbufs'[1] <= MaxBytes
        BY <1>1, <1>9, <2>2, <3>1
      <3>3. wpc' = "locked" => Len(wbufs) = 2 /\ Len(wbufs') = 1
        BY <2>1, <2>2
      <3>4. wpc' # "memcpy"
        BY <2>1
      <3> QED
        BY <3>2, <3>3, <3>4 DEF WriterInv
    <2> QED
      BY <1>1, <2>1, <2>2, <2>3, Numbers
  <1>10. WriterInv' /\ wbufs' \in Seq(0 .. Size) /\ wpart' \in 0 .. Size /\ wpc' \in {"memcpy", "locked", "unlock"}
    <2>1. wpart < wbufs[1] \/ wpart = wbufs[1]
      BY <1>7
    <2> QED
      BY <1>8, <1>9, <2>1
  <1>11. TypeOK'
    <2>1. data' \in [Index -> 0 .. MaxBytes]
      <3>1. \A i \in Index : i \in Int /\ data[i] \in 0 .. MaxBytes
        BY SMTT(30), <1>1 DEF TypeOK, Index
      <3>2. \A i \in Index : (IF i \in pwrite .. pwrite + wpart - 1 THEN wpos + (i - pwrite) ELSE data[i]) \in 0 .. MaxBytes
        BY <1>1, <1>2, <1>4, <3>1, Numbers
      <3> QED
        BY <3>2 DEF CallbackWrite
    <2>2. wpos' \in 1 .. MaxBytes /\ pwrite' \in Index
      BY <1>1, <1>4, Numbers DEF Index
    <2> QED
      BY SMTT(30), <1>1, <1>10, <2>1, <2>2 DEF TypeOK, Reading
  <1>12. Sound
    BY <1>1 DEF Sound
  <1>13. rpc \in {"len", "flushed"} => Avail(ruse, pwrite') = Avail(ruse, pwrite) + wpart
    <2>1. rpc \in {"len", "flushed"} => Avail(ruse, pwrite) <= avail
      BY <1>1, <1>12 DEF ReaderInv
    <2> QED
      BY <1>1, <1>2, <1>3, <2>1, Numbers DEF Avail
  <1>14. ReaderInv'
    <2> DEFINE ahead == IF rpc \in {"load", "store"} THEN rpart ELSE 0
    <2>1. /\ avail < wpos /\ avail - ahead < wpos - last
          /\ rpc \in Reading => rlen <= avail
          /\ rpc \in Reading \ {"split"} => rpart = FirstPart(pread, rlen) /\ ruse = pread
          /\ rpc \in Reading \ {"split", "base"} => rbase = pread
          /\ rpc \in {"len", "flushed"} => Avail(ruse, pwrite) <= avail
      BY <1>1, <1>12 DEF ReaderInv
    <2>2. ahead \in Nat /\ ahead' = ahead
      BY <1>1, Numbers
    <2>3. avail' < wpos' /\ avail' - ahead < wpos' - last
      <3> HIDE DEF ahead
      <3> QED
        BY <1>1, <1>2, <1>6, <2>1, <2>2, Numbers
    <2>4. rlen <= avail => rlen <= avail'
      BY <1>1, <1>2, <1>6, Numbers
    <2>6. rpc \in {"len", "flushed"} => Avail(ruse, pwrite') <= avail'
      BY <1>1, <1>2, <1>6, <1>13, <2>1, Numbers
    <2> QED
      BY <1>1, <2>1, <2>3, <2>4, <2>6 DEF ReaderInv
  <1>15. CollectInv'
    <2>1. rpc = "flushed" => Avail(ruse, pwrite') < wpos' - last
      BY <1>1, <1>2, <1>13, Numbers DEF CollectInv
    <2>2. rpc = "clear" => avail' < wpos' - last
      BY <1>1, <1>2, <1>6, Numbers DEF CollectInv
    <2> QED
      BY <1>1, <2>1, <2>2 DEF CollectInv
  <1> QED
    BY <1>5, <1>10, <1>11, <1>14, <1>15 DEF BufInv

-----------------------------------------------------------------------------
(* The timer and the reader.                                               *)

\* The timer function leaves the ring alone, but for the error.
LEMMA TimerInv ==
  ASSUME BufInv, TimerFire \/ TimerState \/ TimerWake
  PROVE  BufInv'
  <1>1. TypeOK /\ DataInv /\ WriterInv /\ ReaderInv /\ CollectInv
    BY DEF BufInv
  <1>2. /\ UNCHANGED <<data, pread, pwrite, wpc, wbufs, wpart, wpos, todo, rlen, ruse, rpart, rbase, last>>
        /\ state' \in {state, "TIMEDOUT"} /\ timer' \in {timer, "off"} /\ tpc' \in {"idle", "state", "wake"}
        /\ rpc' = rpc \/ (rpc = "asleep" /\ rpc' = "wait")
        /\ error' = error \/ error' = ETIMEDOUT
    BY DEF TimerFire, TimerState, TimerWake, WakeUp, ring, cblocal, rdlocal
  <1>3. TypeOK'
    BY <1>1, <1>2 DEF TypeOK, Reading
  <1>4. DataInv' /\ WriterInv'
    BY <1>1, <1>2 DEF DataInv, Back, WriterInv, free
  <1>5. Sound' => Sound
    BY <1>2 DEF Sound, ETIMEDOUT, None
  <1>6. ReaderInv' /\ CollectInv'
    BY <1>1, <1>2, <1>5 DEF ReaderInv, CollectInv, avail, Reading, ETIMEDOUT, None
  <1> QED
    BY <1>3, <1>4, <1>6 DEF BufInv

\* What the reader never changes.
LEMMA ReaderKeeps ==
  ASSUME BufInv, UNCHANGED <<data, pwrite, wpc, wbufs, wpart, wpos>>,
         last' < wpos, pread' \in Index,
         wpc = "memcpy" => avail' <= avail
  PROVE  DataInv' /\ WriterInv'
  <1>1. TypeOK /\ DataInv /\ WriterInv
    BY DEF BufInv
  <1>2. DataInv'
    BY <1>1 DEF DataInv, Back
  <1>3. wpc = "memcpy" => free <= free'
    <2>1. pwrite \in Index
      BY <1>1, Numbers
    <2>2. free' = Size - 1 - avail' /\ avail' \in Int
      BY <2>1, AvailFacts DEF free, avail
    <2> QED
      BY <1>1, <2>2, Numbers
  <1>4. wpc = "memcpy" => wbufs[1] <= free'
    <2>1. ASSUME wpc = "memcpy" PROVE wbufs[1] \in Int
      <3>1. Len(wbufs) \in 1 .. 2
        BY <1>1, <2>1 DEF WriterInv
      <3> QED
        BY <1>1, <3>1, BufsFacts
    <2>2. free' \in Int
      <3>1. pwrite \in Index
        BY <1>1, Numbers
      <3> QED
        BY <3>1, AvailFacts, SizeAssumption DEF free
    <2>3. wpc = "memcpy" => wbufs[1] <= free
      BY <1>1 DEF WriterInv
    <2> QED
      BY <1>1, <1>3, <2>1, <2>2, <2>3, Numbers
  <1>5. WriterInv'
    BY <1>1, <1>4 DEF WriterInv
  <1> QED
    BY <1>2, <1>5

\* The steps of read() that touch neither the ring nor its own registers.
LEMMA ReadQuiet ==
  ASSUME BufInv,
         \/ \E n \in 1 .. Size : ReadCall(n)
         \/ ReadError \/ ReadNoError \/ ReadWait \/ ReadGiveUp \/ ReadFault
  PROVE  BufInv'
  <1>1. TypeOK /\ DataInv /\ WriterInv /\ ReaderInv /\ CollectInv
    BY DEF BufInv
  <1>2. /\ UNCHANGED <<data, pread, pwrite, error, state, timer, tpc, wpc, wbufs, wpart, wpos, rbase, ruse, last>>
        /\ rpc \in {"out", "top", "wait", "asleep", "check", "copy"}
        /\ rpc' \in {"out", "top", "wait", "asleep", "check", "avail", "flush"}
        /\ rpc' = "flush" => error # None
    BY DEF ReadCall, ReadError, ReadNoError, ReadWait, ReadGiveUp, ReadFault, ring, tmr, cblocal, rdlocal
  <1>3. todo' \in Nat /\ rlen' = 0 /\ rpart' = 0
    <2>1. CASE \E n \in 1 .. Size : ReadCall(n)
      <3>1. PICK n \in 1 .. Size : ReadCall(n)
        BY <2>1
      <3>2. n \in Nat /\ todo' = n /\ rlen' = rlen /\ rpart' = rpart /\ rlen = 0
        BY <1>1, <3>1 DEF ReadCall, CollectInv, Reading
      <3> QED
        BY <1>1, <3>2, Numbers
    <2>2. CASE ReadError \/ ReadNoError \/ ReadWait \/ ReadGiveUp
      <3>1. rlen = 0 /\ todo' = todo /\ rlen' = rlen /\ rpart' = rpart
        BY <1>1, <2>2 DEF ReadError, ReadNoError, ReadWait, ReadGiveUp, rdlocal, CollectInv, Reading
      <3> QED
        BY <1>1, <3>1, Numbers
    <2>3. CASE ReadFault
      BY <1>1, <2>3, Numbers DEF ReadFault
    <2> QED
      BY <2>1, <2>2, <2>3
  <1>4. TypeOK'
    <2>1. rlen' \in 0 .. todo' /\ rpart' \in 0 .. rlen'
      BY <1>3
    <2> QED
      BY <1>1, <1>2, <1>3, <2>1 DEF TypeOK, Reading
  <1>5. DataInv' /\ WriterInv'
    BY <1>1, <1>2 DEF DataInv, Back, WriterInv, free
  <1>6. ReaderInv'
    BY <1>1, <1>2 DEF ReaderInv, avail, Sound, Reading
  <1>7. CollectInv'
    BY <1>2, <1>3 DEF CollectInv
  <1> QED
    BY <1>4, <1>5, <1>6, <1>7 DEF BufInv

\* avail: the pwrite it loads is not behind pread, while nobody flushes.
LEMMA ReadAvailInv ==
  ASSUME BufInv, ReadAvail
  PROVE  BufInv'
  <1>1. /\ TypeOK /\ DataInv /\ WriterInv /\ ReaderInv /\ CollectInv
        /\ UNCHANGED <<data, pread, pwrite, error, state, timer, tpc, wpc, wbufs, wpart, wpos, todo, rlen, rpart, rbase, last>>
        /\ rpc = "avail" /\ rpc' = "len" /\ ruse' = pwrite
    BY DEF BufInv, ReadAvail, ring, tmr, cblocal
  <1>2. Avail(pwrite, pwrite) = 0 /\ 0 <= avail
    BY <1>1, Numbers DEF Avail
  <1>3. TypeOK'
    BY <1>1 DEF TypeOK, Reading
  <1>4. DataInv' /\ WriterInv'
    BY <1>1 DEF DataInv, Back, WriterInv, free
  <1>5. ReaderInv' /\ CollectInv'
    BY <1>1, <1>2 DEF ReaderInv, CollectInv, avail, Reading, Sound
  <1> QED
    BY <1>3, <1>4, <1>5 DEF BufInv

\* read_user is asked for no more than there is.
LEMMA ReadLenInv ==
  ASSUME BufInv, ReadLen
  PROVE  BufInv'
  <1>1. /\ TypeOK /\ DataInv /\ WriterInv /\ ReaderInv /\ CollectInv
        /\ UNCHANGED <<data, pread, pwrite, error, state, timer, tpc, wpc, wbufs, wpart, wpos, todo, ruse, rpart, rbase, last>>
        /\ rpc = "len" /\ rlen' = (IF Avail(pread, ruse) > todo THEN todo ELSE Avail(pread, ruse))
        /\ rpc' = "split" /\ rlen = 0
    BY DEF BufInv, ReadLen, ring, tmr, cblocal, CollectInv, Reading
  <1>2. Avail(pread, ruse) \in 0 .. Size - 1
    BY <1>1, AvailFacts, Numbers
  <1>3. rlen' \in 0 .. todo /\ rlen' <= Avail(pread, ruse) /\ rpart \in 0 .. rlen'
    BY <1>1, <1>2, Numbers
  <1>4. TypeOK'
    BY <1>1, <1>3 DEF TypeOK, Reading
  <1>5. DataInv' /\ WriterInv'
    BY <1>1 DEF DataInv, Back, WriterInv, free
  <1>6. avail' = avail /\ (Sound' <=> Sound)
    BY <1>1 DEF avail, Sound
  <1>7. Sound => rlen' <= avail
    <2>1. Sound => Avail(ruse, pwrite) <= avail
      BY <1>1 DEF ReaderInv
    <2>2. Sound => Avail(pread, ruse) <= avail
      BY <1>1, <2>1, Numbers DEF Avail, avail
    <2> QED
      BY <1>1, <1>2, <1>3, <2>2, Numbers
  <1>8. ReaderInv' /\ CollectInv'
    BY <1>1, <1>6, <1>7 DEF ReaderInv, CollectInv, Reading
  <1> QED
    BY <1>4, <1>5, <1>8 DEF BufInv

\* read_user looks where the array ends ...
LEMMA ReadSplitInv ==
  ASSUME BufInv, ReadSplit
  PROVE  BufInv'
  <1>1. /\ TypeOK /\ DataInv /\ WriterInv /\ ReaderInv /\ CollectInv
        /\ UNCHANGED <<data, pread, pwrite, error, state, timer, tpc, wpc, wbufs, wpart, wpos, todo, rlen, rbase, last>>
        /\ rpc = "split" /\ rpc' = "base" /\ ruse' = pread /\ rpart' = FirstPart(pread, rlen)
    BY DEF BufInv, ReadSplit, ring, tmr, cblocal
  <1>2. rpart' \in 0 .. rlen
    BY <1>1, PartFacts, Numbers
  <1>3. TypeOK'
    BY <1>1, <1>2 DEF TypeOK, Reading
  <1>4. DataInv' /\ WriterInv'
    BY <1>1 DEF DataInv, Back, WriterInv, free
  <1>5. ReaderInv' /\ CollectInv'
    BY <1>1 DEF ReaderInv, CollectInv, avail, Reading, Sound
  <1> QED
    BY <1>3, <1>4, <1>5 DEF BufInv

\* ... and takes the address: the two are the same while nobody flushes.
LEMMA ReadBaseInv ==
  ASSUME BufInv, ReadBase
  PROVE  BufInv'
  <1>1. /\ TypeOK /\ DataInv /\ WriterInv /\ ReaderInv /\ CollectInv
        /\ UNCHANGED <<data, pread, pwrite, error, state, timer, tpc, wpc, wbufs, wpart, wpos, todo, rlen, ruse, rpart, last>>
        /\ rpc = "base" /\ rpc' = "copy" /\ rbase' \in {ruse, pread}
    BY DEF BufInv, ReadBase, ring, tmr, cblocal
  <1>2. TypeOK'
    BY <1>1 DEF TypeOK, Reading
  <1>3. DataInv' /\ WriterInv'
    BY <1>1 DEF DataInv, Back, WriterInv, free
  <1>4. ReaderInv' /\ CollectInv'
    BY <1>1 DEF ReaderInv, CollectInv, avail, Reading, Sound
  <1> QED
    BY <1>2, <1>3, <1>4 DEF BufInv

\* What copy_to_user copies: the last byte of the part.
LEMMA ReadCopyInv ==
  ASSUME BufInv, ReadCopy
  PROVE  BufInv'
  <1>1. /\ TypeOK /\ DataInv /\ WriterInv /\ ReaderInv /\ CollectInv
        /\ UNCHANGED <<data, pread, pwrite, error, state, timer, tpc, wpc, wbufs, wpart, wpos, todo, rlen, ruse, rpart, rbase>>
        /\ rpc = "copy" /\ rpc' = (IF rpart < rlen THEN "store" ELSE "load")
        /\ last' = IF rpart = 0 THEN last
                   ELSE IF rbase + rpart > Size THEN data[Size - 1] ELSE data[rbase + rpart - 1]
    BY DEF BufInv, ReadCopy, ring, tmr, cblocal
  <1> DEFINE i == IF rbase + rpart > Size THEN Size - 1 ELSE rbase + rpart - 1
  <1>2. rpart > 0 => i \in 0 .. Size - 1 /\ last' = data[i]
    BY <1>1, Numbers
  <1>3. rpart > 0 => last' = (IF Back(i) < wpos THEN wpos - Back(i) ELSE 0) /\ Back(i) \in 1 .. Size
    <2> SUFFICES ASSUME rpart > 0
                 PROVE  last' = (IF Back(i) < wpos THEN wpos - Back(i) ELSE 0) /\ Back(i) \in 1 .. Size
      OBVIOUS
    <2>1. i \in Index
      BY <1>2 DEF Index
    <2> HIDE DEF i
    <2>2. data[i] = IF Back(i) < wpos THEN wpos - Back(i) ELSE 0
      BY <1>1, <2>1 DEF DataInv
    <2>3. Back(i) \in 1 .. Size
      BY <1>1, <1>2, Numbers DEF Back
    <2> QED
      BY <1>2, <2>2, <2>3
  <1> HIDE DEF i
  <1>4. last' < wpos /\ last' \in 0 .. MaxBytes
    <2>1. CASE rpart = 0
      BY <1>1, <2>1, Numbers DEF DataInv
    <2>2. CASE rpart > 0
      BY <1>1, <1>3, <2>2, Numbers
    <2> QED
      BY <1>1, <2>1, <2>2, Numbers
  <1>5. TypeOK'
    BY <1>1, <1>4 DEF TypeOK, Reading
  <1>6. DataInv' /\ WriterInv'
    BY <1>1, <1>4 DEF DataInv, Back, WriterInv, free
  <1>7. avail' = avail /\ (Sound' <=> Sound)
    BY <1>1 DEF avail, Sound
  <1>8. ReaderInv'
    <2> SUFFICES ASSUME Sound PROVE ReaderInv'
      BY <1>7 DEF ReaderInv
    <2>1. /\ rbase = pread /\ ruse = pread /\ rlen <= avail /\ rpart = FirstPart(pread, rlen)
          /\ avail < wpos /\ avail < wpos - last
      BY <1>1, Numbers DEF ReaderInv, Reading
    <2>2. rbase + rpart <= Size
      BY <1>1, <2>1, PartFacts, Numbers
    <2>3. avail - rpart < wpos - last'
      <3>1. CASE rpart = 0
        BY <1>1, <2>1, <3>1, Numbers
      <3>2. CASE rpart > 0
        <4>1. i = pread + rpart - 1
          BY <1>1, <2>1, <2>2, Numbers DEF i
        <4>2. Back(i) = avail - rpart + 1
          BY <1>1, <1>2, <2>1, <3>2, <4>1, Numbers DEF Back, avail, Avail
        <4> QED
          BY <1>1, <1>3, <2>1, <3>2, <4>2, Numbers
      <3> QED
        BY <1>1, <3>1, <3>2, Numbers
    <2> QED
      BY <1>1, <1>7, <2>1, <2>3 DEF ReaderInv, Reading
  <1>9. CollectInv'
    BY <1>1 DEF CollectInv, Reading
  <1> QED
    BY <1>5, <1>6, <1>8, <1>9 DEF BufInv

\* pread is loaded again: by now the callback may have changed it.
LEMMA ReadLoadInv ==
  ASSUME BufInv, ReadLoad
  PROVE  BufInv'
  <1>1. /\ TypeOK /\ DataInv /\ WriterInv /\ ReaderInv /\ CollectInv
        /\ UNCHANGED <<data, pread, pwrite, error, state, timer, tpc, wpc, wbufs, wpart, wpos, todo, rlen, rpart, rbase, last>>
        /\ rpc = "load" /\ rpc' = "store" /\ ruse' = pread
    BY DEF BufInv, ReadLoad, ring, tmr, cblocal
  <1>2. TypeOK'
    BY <1>1 DEF TypeOK, Reading
  <1>3. DataInv' /\ WriterInv'
    BY <1>1 DEF DataInv, Back, WriterInv, free
  <1>4. ReaderInv' /\ CollectInv'
    BY <1>1 DEF ReaderInv, CollectInv, avail, Reading, Sound
  <1> QED
    BY <1>2, <1>3, <1>4 DEF BufInv

\* The store to pread: behind the bytes the user got, or, when the callback has
\* flushed the ring meanwhile, at some index.
LEMMA ReadStoreInv ==
  ASSUME BufInv, ReadStore
  PROVE  BufInv'
  <1>1. /\ TypeOK /\ DataInv /\ WriterInv /\ ReaderInv /\ CollectInv
        /\ UNCHANGED <<data, pwrite, error, state, timer, tpc, wpc, wbufs, wpart, wpos, rbase, last>>
        /\ rpc = "store" /\ pread' = Advance(ruse, rpart, rlen) /\ ruse' = pread'
        /\ todo' = todo - rpart /\ rlen' = rlen - rpart /\ rpart' = rlen'
        /\ rpc' = IF rlen' > 0 THEN "base" ELSE IF todo' > 0 THEN "wait" ELSE "out"
    BY DEF BufInv, ReadStore, tmr, cblocal
  <1>2. /\ todo' \in Nat /\ rlen' \in 0 .. todo' /\ rlen' \in Nat /\ 0 \in Index
        /\ rpart' \in 0 .. rlen'
    BY <1>1, Numbers DEF Index
  <1>3. pread' \in Index
    <2>1. ruse + rlen \in Nat
      BY <1>1, Numbers
    <2> QED
      BY <1>1, <1>2, <2>1, ModIndex DEF Advance
  <1>4. TypeOK'
    BY <1>1, <1>2, <1>3 DEF TypeOK, Reading
  <1>5. Sound' <=> Sound
    BY <1>1 DEF Sound
  <1>6. ASSUME Sound
        PROVE  /\ avail' = avail - rpart
               /\ rlen' > 0 => pread' = 0 /\ rpart' = FirstPart(pread', rlen')
    <2>1. ruse = pread /\ rlen <= avail /\ rpart = FirstPart(pread, rlen)
      BY <1>1, <1>6 DEF ReaderInv, Reading
    <2>2. CASE rpart < rlen
      <3>1. pread' = 0 /\ pread + rpart = Size
        BY <1>1, <2>1, <2>2, PartFacts, Numbers DEF Advance
      <3>2. rpart' = FirstPart(pread', rlen')
        BY <1>1, <1>2, <2>1, <3>1, Numbers DEF FirstPart
      <3> QED
        BY <1>1, <2>1, <3>1, <3>2, Numbers DEF avail, Avail
    <2>3. CASE rpart = rlen
      <3>1. pread + rlen \in 0 .. 2 * Size - 1
        BY <1>1, <2>1, <2>3, Numbers
      <3>2. pread' = Wrap(pread + rlen)
        BY <1>1, <2>1, <2>3, <3>1, ModFacts, Numbers DEF Advance
      <3>3. rlen' = 0
        BY <1>1, <2>3, Numbers
      <3> QED
        BY <1>1, <2>1, <2>3, <3>2, <3>3, Numbers DEF avail, Avail, Wrap
    <2> QED
      BY <1>1, <2>2, <2>3, Numbers
  <1>7. DataInv' /\ WriterInv'
    <2>1. wpc = "memcpy" => avail' <= avail
      BY <1>1, <1>6, Numbers DEF Sound
    <2> QED
      BY <1>1, <1>3, <2>1, ReaderKeeps DEF DataInv
  <1>8. ReaderInv'
    <2> SUFFICES ASSUME Sound PROVE ReaderInv'
      BY <1>5 DEF ReaderInv
    <2>1. rlen <= avail /\ avail - rpart < wpos - last /\ avail < wpos
      BY <1>1 DEF ReaderInv, Reading
    <2>2. avail' < wpos /\ avail' < wpos - last /\ rlen' <= avail' /\ avail' - 0 = avail'
      BY <1>1, <1>6, <2>1, Numbers
    <2> QED
      BY <1>1, <1>6, <2>2 DEF ReaderInv, Reading
  <1>9. CollectInv'
    BY <1>1, <1>2 DEF CollectInv, Reading
  <1> QED
    BY <1>4, <1>7, <1>8, <1>9 DEF BufInv

\* The error path: the flush begins where the callback writes next ...
LEMMA FlushLoadInv ==
  ASSUME BufInv, ReadFlushLoad
  PROVE  BufInv'
  <1>1. /\ TypeOK /\ DataInv /\ WriterInv /\ ReaderInv /\ CollectInv
        /\ UNCHANGED <<data, pread, pwrite, error, state, timer, tpc, wpc, wbufs, wpart, wpos, todo, rlen, rpart, rbase, last>>
        /\ rpc = "flush" /\ rpc' = "flushed" /\ ruse' = pwrite
    BY DEF BufInv, ReadFlushLoad, ring, tmr, cblocal
  <1>2. Avail(pwrite, pwrite) = 0 /\ 0 < wpos - last /\ 0 <= avail
    BY <1>1, Numbers DEF Avail, DataInv
  <1>3. TypeOK'
    BY <1>1 DEF TypeOK, Reading
  <1>4. DataInv' /\ WriterInv'
    BY <1>1 DEF DataInv, Back, WriterInv, free
  <1>5. ReaderInv' /\ CollectInv'
    BY <1>1, <1>2 DEF ReaderInv, CollectInv, avail, Reading, Sound
  <1> QED
    BY <1>3, <1>4, <1>5 DEF BufInv

\* ... and its store makes the indices good: what came since is there.
LEMMA FlushStoreInv ==
  ASSUME BufInv, ReadFlushStore
  PROVE  BufInv'
  <1>1. /\ TypeOK /\ DataInv /\ WriterInv /\ ReaderInv /\ CollectInv
        /\ UNCHANGED <<data, pwrite, error, state, timer, tpc, wpc, wbufs, wpart, wpos, todo, rlen, ruse, rpart, rbase, last>>
        /\ rpc = "flushed" /\ rpc' = "clear" /\ pread' = ruse
    BY DEF BufInv, ReadFlushStore, tmr, cblocal, rdlocal
  <1>2. avail' = Avail(ruse, pwrite) /\ (Sound' <=> Sound)
    BY <1>1 DEF avail, Sound
  <1>3. Avail(ruse, pwrite) < wpos - last /\ (Sound => Avail(ruse, pwrite) <= avail)
    BY <1>1 DEF CollectInv, ReaderInv
  <1>4. TypeOK'
    BY <1>1 DEF TypeOK, Reading
  <1>5. DataInv' /\ WriterInv'
    <2>1. wpc = "memcpy" => Sound
      BY DEF Sound
    <2>2. ruse \in Index /\ last < wpos
      BY <1>1, Numbers DEF DataInv
    <2> QED
      BY <1>1, <1>2, <1>3, <2>1, <2>2, ReaderKeeps
  <1>6. avail' < wpos /\ avail' - 0 < wpos - last
    BY <1>1, <1>2, <1>3, Numbers
  <1>7. ReaderInv' /\ CollectInv'
    BY <1>1, <1>2, <1>3, <1>6 DEF ReaderInv, CollectInv, Reading
  <1> QED
    BY <1>4, <1>5, <1>7 DEF BufInv

\* Only then the error is cleared.
LEMMA ReadClearInv ==
  ASSUME BufInv, ReadClear
  PROVE  BufInv'
  <1>1. /\ TypeOK /\ DataInv /\ WriterInv /\ ReaderInv /\ CollectInv
        /\ UNCHANGED <<data, pread, pwrite, state, timer, tpc, wpc, wbufs, wpart, wpos, todo, rlen, ruse, rpart, rbase, last>>
        /\ rpc = "clear" /\ rpc' = "out" /\ error' = None
    BY DEF BufInv, ReadClear, tmr, cblocal, rdlocal
  <1>2. avail' = avail /\ avail - 0 < wpos - last /\ avail < wpos
    <2>1. avail < wpos - last
      BY <1>1 DEF CollectInv
    <2> QED
      BY <1>1, <2>1, Numbers DEF avail
  <1>3. TypeOK'
    BY <1>1 DEF TypeOK, Reading
  <1>4. DataInv' /\ WriterInv'
    BY <1>1 DEF DataInv, Back, WriterInv, free
  <1>5. ReaderInv' /\ CollectInv'
    BY <1>1, <1>2 DEF ReaderInv, CollectInv, Reading
  <1> QED
    BY <1>3, <1>4, <1>5 DEF BufInv

-----------------------------------------------------------------------------
\* The inductive invariant of ring, callback, timer and read().
THEOREM BufInvariant == Spec => []BufInv
  <1>1. Init => BufInv
    <2> SUFFICES ASSUME Init PROVE BufInv
      OBVIOUS
    <2>1. 0 \in Index /\ Size \in Nat /\ Size > 0 /\ MaxBytes \in Nat /\ MaxBytes > 0
      BY SizeAssumption, MaxBytesAssumption DEF Index
    <2>2. TypeOK
      <3>2. /\ data \in [Index -> 0 .. MaxBytes] /\ wbufs \in Seq(0 .. Size)
            /\ wpart \in 0 .. Size /\ wpos \in 1 .. MaxBytes /\ last \in 0 .. MaxBytes
            /\ todo \in Nat /\ rlen \in 0 .. todo /\ rpart \in 0 .. rlen
        BY <2>1 DEF Init
      <3>3. pread \in Index /\ pwrite \in Index /\ ruse \in Index /\ rbase \in Index
        BY <2>1 DEF Init
      <3>4. /\ error = None /\ state = "GO" /\ timer \in {"off", "armed"} /\ tpc = "idle"
            /\ wpc = "idle" /\ rpc = "out"
        BY DEF Init
      <3> QED
        BY <3>2, <3>3, <3>4 DEF TypeOK
    <2>3. DataInv
      BY <2>1 DEF Init, DataInv, Back, Index
    <2>4. avail = 0
      BY <2>1 DEF Init, avail, Avail
    <2> QED
      BY <2>1, <2>2, <2>3, <2>4 DEF Init, BufInv, WriterInv, ReaderInv, CollectInv, Reading
  <1>2. BufInv /\ [Next]_vars => BufInv'
    <2> SUFFICES ASSUME BufInv, [Next]_vars PROVE BufInv'
      OBVIOUS
    <2>1. CASE \E b1 \in 1 .. Size - 1, b2 \in 0 .. 1 : CallbackEnter(b1, b2)
      BY <2>1, EnterInv
    <2>2. CASE Callback
      BY <2>2, CallbackInv, WriteInv DEF Callback
    <2>3. CASE TimerFire \/ Timer
      BY <2>3, TimerInv DEF Timer
    <2>4. CASE (\E n \in 1 .. Size : ReadCall(n)) \/ ReadGiveUp \/ ReadFault
      BY <2>4, ReadQuiet
    <2>5. CASE Reader
      BY <2>5, ReadQuiet, ReadAvailInv, ReadLenInv, ReadSplitInv, ReadBaseInv, ReadCopyInv, ReadLoadInv, ReadStoreInv, FlushLoadInv,
         FlushStoreInv, ReadClearInv DEF Reader
    <2>6. CASE UNCHANGED vars
      <3>1. UNCHANGED <<data, pread, pwrite, error, state, timer, tpc, wpc, wbufs, wpart, wpos, rpc,
                        todo, rlen, ruse, rpart, rbase, last>>
        BY <2>6 DEF vars, ring, tmr, cblocal, rdlocal
      <3>2. TypeOK'
        BY <3>1 DEF BufInv, TypeOK, Reading
      <3>3. DataInv' /\ WriterInv'
        BY <3>1 DEF BufInv, DataInv, Back, WriterInv, free
      <3>4. ReaderInv' /\ CollectInv'
        BY <3>1 DEF BufInv, ReaderInv, CollectInv, avail, Reading, Sound
      <3> QED
        BY <3>2, <3>3, <3>4 DEF BufInv
    <2> QED
      BY <2>1, <2>2, <2>3, <2>4, <2>5, <2>6 DEF Next
  <1> QED
    BY <1>1, <1>2, PTL DEF Spec

\* Bytes that were read already or never written look available only while the
\* overflow that the unlocked flush left behind is pending.
THEOREM DirtyCorrect == Spec => []DirtyOnlyUnderError
  <1>1. BufInv => DirtyOnlyUnderError
    <2> SUFFICES ASSUME BufInv, error = None, wpc # "seterror" PROVE Clean
      BY DEF DirtyOnlyUnderError
    <2>1. /\ TypeOK /\ DataInv /\ avail < wpos
          /\ rpc \notin {"load", "store"} => avail - 0 < wpos - last
      BY DEF BufInv, ReaderInv, Sound
    <2>2. ASSUME NEW i \in 0 .. avail - 1
          PROVE  data[Wrap(pread + i)] = wpos - avail + i
      <3>1. i \in Int /\ i >= 0 /\ i < avail
        BY <2>1, Numbers
      <3>2. Wrap(pread + i) \in 0 .. Size - 1 /\ Back(Wrap(pread + i)) = avail - i
        BY <2>1, <3>1, Numbers DEF Wrap, Back, avail, Avail
      <3>3. data[Wrap(pread + i)] = IF avail - i < wpos THEN wpos - (avail - i) ELSE 0
        BY <2>1, <3>2 DEF DataInv, Index
      <3> QED
        BY <2>1, <3>1, <3>3, Numbers
    <2>3. rpc \notin {"load", "store"} => wpos - avail > last
      BY <2>1, Numbers
    <2> QED
      BY <2>2, <2>3 DEF Clean
  <1> QED
    BY <1>1, BufInvariant, PTL

\* The callback's memcpy never hits the bytes that a copy_to_user is reading, and a
\* copy that goes past the end of the array has the overflow pending.
THEOREM CopyCorrect == Spec => []CopyUndisturbed
  <1>1. BufInv /\ rpc = "copy" /\ rbase + rpart > Size => error # None \/ wpc = "seterror"
    <2> SUFFICES ASSUME BufInv, rpc = "copy", error = None, wpc # "seterror"
                 PROVE  ~(rbase + rpart > Size)
      OBVIOUS
    <2>1. TypeOK /\ rbase = pread /\ rpart = FirstPart(pread, rlen)
      BY DEF BufInv, ReaderInv, Sound, Reading
    <2> QED
      BY <2>1, PartFacts, Numbers
  <1>2. BufInv /\ rpc = "copy" /\ wpc = "memcpy" =>
          (rbase .. rbase + rpart - 1) \cap (pwrite .. pwrite + wpart - 1) = {}
    <2> SUFFICES ASSUME BufInv, rpc = "copy", wpc = "memcpy"
                 PROVE  (rbase .. rbase + rpart - 1) \cap (pwrite .. pwrite + wpart - 1) = {}
      OBVIOUS
    <2>1. /\ TypeOK /\ rbase = pread /\ rlen <= avail /\ rpart = FirstPart(pread, rlen)
          /\ Len(wbufs) \in 1 .. 2 /\ wbufs[1] <= free /\ wpart \in 1 .. wbufs[1]
          /\ wpart = FirstPart(pwrite, wbufs[1])
      BY DEF BufInv, ReaderInv, WriterInv, Sound, Reading
    <2>2. wbufs[1] \in 0 .. Size
      BY <2>1, BufsFacts
    <2>3. wbufs[1] \in Nat /\ wpart \in Nat /\ wpart <= free /\ pwrite + wpart <= Size
      <3>1. wbufs[1] \in Nat
        BY <2>1, <2>2, Numbers
      <3>2. pwrite + wpart <= Size
        <4>1. pwrite \in Index
          BY <2>1, Numbers
        <4> QED
          BY <2>1, <3>1, <4>1, PartFacts
      <3>3. wpart \in Nat /\ free \in Int
        BY <2>1, Numbers
      <3>4. wpart <= wbufs[1] /\ wbufs[1] <= free
        BY <2>1, <3>1
      <3> QED
        BY <3>1, <3>2, <3>3, <3>4
    <2>4. pread + rpart <= Size /\ rpart <= rlen /\ rpart \in Nat
      BY <2>1, PartFacts, Numbers
    <2>5. ASSUME NEW i \in Int, pread <= i, i <= pread + rpart - 1, pwrite <= i, i <= pwrite + wpart - 1
          PROVE  FALSE
      BY <2>1, <2>3, <2>4, <2>5, Numbers DEF avail, Avail
    <2>6. pread \in Int /\ pwrite \in Int /\ rpart \in Int /\ wpart \in Int
      BY <2>1, <2>3, Numbers
    <2> QED
      BY <2>1, <2>5, <2>6
  <1>3. BufInv => CopyUndisturbed
    BY <1>1, <1>2 DEF BufInv, CopyUndisturbed
  <1> QED
    BY <1>3, BufInvariant, PTL

\* A reader that sleeps on a ring with data or an error in it has a wake_up to come.
THEOREM WakeupCorrect == Spec => []NoLostWakeup
  <1>1. Init => WakeInv
    BY DEF Init, WakeInv
  <1>2. BufInv /\ WakeInv /\ [Next]_vars => WakeInv'
    <2> SUFFICES ASSUME BufInv, WakeInv, [Next]_vars, rpc' = "asleep", ~Empty' \/ error' # None
                 PROVE  \/ wpc' \notin {"idle", "locked"}
                        \/ wpc' = "locked" /\ Len(wbufs') = 1
                        \/ tpc' # "idle"
      BY DEF WakeInv
    <2>1. CASE \E b1 \in 1 .. Size - 1, b2 \in 0 .. 1 : CallbackEnter(b1, b2)
      BY <2>1 DEF CallbackEnter, ring, tmr, WakeInv, Empty
    <2>2. CASE CallbackWrite
      <3>1. Len(wbufs) = 2 => Len(Tail(wbufs)) = 1
        <4>1. Len(wbufs) \in 1 .. 2 /\ TypeOK
          BY <2>2 DEF BufInv, WriterInv, CallbackWrite
        <4> QED
          BY <4>1, BufsFacts
      <3>2. \/ wpc' \notin {"idle", "locked"}
            \/ wpc' = "locked" /\ Len(wbufs) = 2 /\ wbufs' = Tail(wbufs)
        BY <2>2 DEF CallbackWrite
      <3> QED
        BY <3>1, <3>2
    <2>3. CASE CallbackFirst \/ CallbackSecond
      BY <2>3 DEF CallbackFirst, CallbackSecond, BufferWrite, ring, tmr, WakeInv, Empty
    <2>4. CASE CallbackFlush \/ CallbackSetError \/ CallbackUnlock
      BY <2>4 DEF CallbackFlush, CallbackSetError, CallbackUnlock
    <2>5. CASE CallbackWake \/ TimerWake
      BY <2>5 DEF CallbackWake, TimerWake, WakeUp
    <2>6. CASE TimerFire \/ TimerState
      BY <2>6 DEF TimerFire, TimerState
    <2>7. CASE (\E n \in 1 .. Size : ReadCall(n)) \/ ReadGiveUp \/ ReadFault \/ Reader
      BY <2>7 DEF ReadCall, ReadGiveUp, ReadFault, Reader, ReadError, ReadNoError, ReadWait, ReadAvail,
         ReadLen, ReadSplit, ReadBase, ReadCopy, ReadLoad, ReadStore, ReadFlushLoad, ReadFlushStore, ReadClear, ring, tmr, Empty
    <2>8. CASE UNCHANGED vars
      BY <2>8 DEF vars, ring, tmr, cblocal, WakeInv, Empty
    <2> QED
      BY <2>1, <2>2, <2>3, <2>4, <2>5, <2>6, <2>7, <2>8 DEF Next, Callback, Timer
  <1>3. WakeInv => NoLostWakeup
    BY DEF WakeInv, NoLostWakeup
  <1> QED
    BY <1>1, <1>2, <1>3, BufInvariant, PTL DEF Spec
=============================================================================
