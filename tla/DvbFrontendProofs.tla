------------------------- MODULE DvbFrontendProofs -------------------------
(***************************************************************************)
(* The frontend device, for every length of the event queue and any number *)
(* of events and open()s: the semaphore, the life of the thread, and the   *)
(* events that are read.                                                   *)
(***************************************************************************)
EXTENDS DvbFrontend, FiniteSetTheorems, TLAPS

One(b) == IF b THEN 1 ELSE 0

\* The number of those that have the semaphore: Cardinality(Holders).
Held == One(tpc \in {"start", "turn", "add", "store", "status"})
        + One(set \in {"in", "add", "store", "status"})
        + One(get \in {"in", "read", "done"})
        + One(opc = "run")

\* A signal may give the semaphore one too many.
SemInv == /\ sem + Held \in 1 .. 2
          /\ "signal" \notin faults => sem + Held = 1

\* open() is alone with the thread: the device is not used while one is under way,
\* nor after it was closed.
AloneInv == /\ opc # "out" => writer /\ set = "out" /\ get = "out"
            /\ ~writer => set = "out" /\ get = "out"

\* fepriv->thread stands for a thread that lives, from its assignment on; there is
\* none when a new one is made; and kthread_stop is over when its caller goes on, so
\* that only a thread it waits for takes the device for removed.
ThreadInv == /\ opc # "assign" => (thread <=> tpc # "none")
             /\ opc \in {"down", "run"} => tpc = "none"
             /\ opc = "assign" => ~thread /\ tpc \notin {"none", "closed", "exit", "clear"}
             /\ opc \in {"run", "assign"} => exit = "no"
             /\ should_stop => opc = "join"
             /\ tpc # "none" => last = "none"
             /\ last = "removed" => opc = "join"

\* ThreadRuns, from the moment on when open() has found or made the thread.
RunsInv == opc \in {"flush", "out"} /\ writer /\ faults = {} =>
             thread /\ exit = "no" /\ tpc \notin {"none", "exit", "clear"}

\* add_event is at step `at` for caller q.
AddAt(q, at) == (q = "thread" /\ tpc = at) \/ (q = "set" /\ set = at)

\* The events that are in the queue, the one that is being stored not counted; and
\* how far slot s is behind the slot written next.
Stored == IF MtxFree THEN added ELSE added - 1
Dist(s) == IF s < ev.w THEN ev.w - s ELSE ev.w - s + MaxEvent
Queued == IF ev.r = ev.w THEN 0 ELSE Dist(ev.r)

\* The queue holds the newest events in order ...
NumberInv == \A s \in Slots : Dist(s) <= Queued => ev.prm[s] = Stored - Dist(s) + 1

\* ... with their status, which the newest may still be waiting for; ...
StatusInv == /\ \A s \in Slots : Dist(s) <= Queued =>
                  ev.status[s] = ev.prm[s] \/ \E q \in {"thread", "set"} : AddAt(q, "status") /\ e[q].slot = s
             /\ \A q \in {"thread", "set"} : AddAt(q, "status") /\ Dist(e[q].slot) <= Queued =>
                  e[q].num = ev.prm[e[q].slot]

\* ... there is room for the one being stored; ...
StoreInv == \A q \in {"thread", "set"} : AddAt(q, "store") =>
              e[q].slot = ev.w /\ e[q].num = added /\ Succ(ev.w) # ev.r

\* ... the queue begins after the event read last, or the reader knows of the gap; and
\* who was told that there are events finds one.
SeenInv == /\ seen <= Stored - Queued
           /\ seen = Stored - Queued \/ told \/ ev.overflow
           /\ get = "read" => ev.r # ev.w
           /\ get = "again" /\ MtxFree => ev.r # ev.w

EventsInv == faults = {} => NumberInv /\ StatusInv /\ StoreInv /\ SeenInv

FrontInv == TypeOK /\ SemInv /\ AloneInv /\ ThreadInv /\ RunsInv /\ OpensAgain

-----------------------------------------------------------------------------
\* How many elements a set of at most four names has.
LEMMA CountHolders ==
  ASSUME NEW a \in BOOLEAN, NEW b \in BOOLEAN, NEW c \in BOOLEAN, NEW d \in BOOLEAN
  PROVE  Cardinality({x \in {"thread", "set", "get", "open"} :
                        \/ x = "thread" /\ a
                        \/ x = "set" /\ b
                        \/ x = "get" /\ c
                        \/ x = "open" /\ d}) = One(a) + One(b) + One(c) + One(d)
  <1> DEFINE S1 == IF a THEN {} \cup {"thread"} ELSE {}
             S2 == IF b THEN S1 \cup {"set"} ELSE S1
             S3 == IF c THEN S2 \cup {"get"} ELSE S2
             S4 == IF d THEN S3 \cup {"open"} ELSE S3
  <1>1. IsFiniteSet(S1) /\ Cardinality(S1) = One(a) /\ S1 \subseteq {"thread"}
    BY FS_EmptySet, FS_AddElement DEF One
  <1>2. IsFiniteSet(S2) /\ Cardinality(S2) = One(a) + One(b) /\ S2 \subseteq {"thread", "set"}
    <2> HIDE DEF S1
    <2>1. "set" \notin S1
      BY <1>1
    <2> QED
      BY <1>1, <2>1, FS_AddElement DEF One
  <1>3. IsFiniteSet(S3) /\ Cardinality(S3) = One(a) + One(b) + One(c) /\ S3 \subseteq {"thread", "set", "get"}
    <2> HIDE DEF S2
    <2>1. "get" \notin S2
      BY <1>2
    <2> QED
      BY <1>2, <2>1, FS_AddElement DEF One
  <1>4. Cardinality(S4) = One(a) + One(b) + One(c) + One(d)
    <2> HIDE DEF S3
    <2>1. "open" \notin S3
      BY <1>3
    <2> QED
      BY <1>3, <2>1, FS_AddElement DEF One
  <1>5. S4 = {x \in {"thread", "set", "get", "open"} :
                \/ x = "thread" /\ a
                \/ x = "set" /\ b
                \/ x = "get" /\ c
                \/ x = "open" /\ d}
    OBVIOUS
  <1> QED
    BY <1>4, <1>5

\* Who leaves the queue alone leaves its type alone.
LEMMA QueueKept == QueueOK /\ UNCHANGED queue => QueueOK'
  BY DEF QueueOK, queue

\* The slot after slot s.
LEMMA SuccSlot ==
  ASSUME NEW s \in Slots
  PROVE  Succ(s) \in Slots /\ Succ(s) = IF s + 1 = MaxEvent THEN 0 ELSE s + 1
  <1>1. s \in Nat /\ MaxEvent \in Nat /\ MaxEvent > 1 /\ s + 1 <= MaxEvent
    BY EventAssumption DEF Slots
  <1>2. CASE s + 1 = MaxEvent
    BY <1>1, <1>2 DEF Succ, Slots
  <1>3. CASE s + 1 < MaxEvent
    BY <1>1, <1>3 DEF Succ, Slots
  <1> QED
    BY <1>1, <1>2, <1>3

-----------------------------------------------------------------------------
(* FrontInv is inductive: the steps of open() and close(), of the thread,  *)
(* of FE_SET_FRONTEND, of FE_GET_EVENT.                                    *)

\* open() and close() preserve FrontInv.
LEMMA OpenFront ==
  ASSUME FrontInv,
         \/ Open \/ StartLoad \/ StartAlive \/ StartStop \/ StopExit \/ StopTest \/ KthreadLoad \/ KthreadStop
         \/ Join \/ StartNew \/ StartDown \/ StartInterrupted \/ Run \/ RunFails
         \/ Assign \/ Flush \/ Release \/ Expire
  PROVE  FrontInv'
  <1> USE BoundAssumption DEF FrontInv, TypeOK, SemInv, AloneInv, ThreadInv, RunsInv, OpensAgain, Held, One, Adding,
        kthread, tasks, device
  <1>1. CASE Open
    BY <1>1, QueueKept DEF Open
  <1>2. CASE StartAlive
    BY <1>2, QueueKept DEF StartAlive
  <1>3. CASE StartStop
    BY <1>3, QueueKept DEF StartStop
  <1>4. CASE StopExit
    BY <1>4, QueueKept DEF StopExit
  <1>5. CASE StopTest
    BY <1>5, QueueKept DEF StopTest
  <1>6. CASE KthreadStop
    <2>0. sem' \in 0 .. 2
      BY <1>6 DEF KthreadStop
    <2>1. TypeOK'
      BY <1>6, <2>0, QueueKept DEF KthreadStop
    <2>2. SemInv'
      BY <1>6 DEF KthreadStop
    <2>3. AloneInv' /\ ThreadInv'
      BY <1>6 DEF KthreadStop
    <2>4. RunsInv' /\ OpensAgain'
      BY <1>6 DEF KthreadStop
    <2> QED
      BY <2>1, <2>2, <2>3, <2>4
  <1>7. CASE Join
    <2>0. sem' \in 0 .. 2
      BY <1>7 DEF Join
    <2>1. TypeOK'
      BY <1>7, <2>0, QueueKept DEF Join
    <2>2. SemInv'
      BY <1>7 DEF Join
    <2>3. AloneInv' /\ ThreadInv'
      BY <1>7 DEF Join
    <2>4. RunsInv' /\ OpensAgain'
      BY <1>7 DEF Join
    <2> QED
      BY <2>1, <2>2, <2>3, <2>4
  <1>8. CASE StartNew
    BY <1>8, QueueKept DEF StartNew
  <1>9. CASE StartDown
    <2>0. sem' \in 0 .. 2
      BY <1>9 DEF StartDown
    <2>1. TypeOK'
      BY <1>9, <2>0, QueueKept DEF StartDown
    <2>2. SemInv'
      BY <1>9 DEF StartDown
    <2>3. AloneInv' /\ ThreadInv'
      BY <1>9 DEF StartDown
    <2>4. RunsInv' /\ OpensAgain'
      BY <1>9 DEF StartDown
    <2> QED
      BY <2>1, <2>2, <2>3, <2>4
  <1>10. CASE StartInterrupted
    BY <1>10, QueueKept DEF StartInterrupted
  <1>11. CASE Run
    <2>0. sem' \in 0 .. 2
      BY <1>11 DEF Run
    <2>1. TypeOK'
      <3>1. old' \in Nat
        BY <1>11 DEF Run
      <3> QED
        BY <1>11, <2>0, <3>1, QueueKept DEF Run
    <2>2. SemInv'
      BY <1>11 DEF Run
    <2>3. AloneInv' /\ ThreadInv'
      BY <1>11 DEF Run
    <2>4. RunsInv' /\ OpensAgain'
      BY <1>11 DEF Run
    <2> QED
      BY <2>1, <2>2, <2>3, <2>4
  <1>12. CASE RunFails
    <2>0. sem' \in 0 .. 2
      BY <1>12 DEF RunFails
    <2>1. TypeOK'
      BY <1>12, <2>0, QueueKept DEF RunFails
    <2>2. SemInv'
      BY <1>12 DEF RunFails
    <2>3. AloneInv' /\ ThreadInv'
      BY <1>12 DEF RunFails
    <2>4. RunsInv' /\ OpensAgain'
      BY <1>12 DEF RunFails
    <2> QED
      BY <2>1, <2>2, <2>3, <2>4
  <1>13. CASE Assign
    BY <1>13, QueueKept DEF Assign
  <1>14. CASE Flush
    <2>0. sem' \in 0 .. 2
      BY <1>14 DEF Flush
    <2>5. QueueOK'
      <3>1. 0 \in Slots
        BY EventAssumption DEF Slots
      <3> QED
        BY <1>14, <3>1 DEF Flush, QueueOK
    <2>1. TypeOK'
      BY <1>14, <2>0, <2>5 DEF Flush
    <2>2. SemInv'
      BY <1>14 DEF Flush
    <2>3. AloneInv' /\ ThreadInv'
      BY <1>14 DEF Flush
    <2>4. RunsInv' /\ OpensAgain'
      BY <1>14 DEF Flush
    <2> QED
      BY <2>1, <2>2, <2>3, <2>4
  <1>15. CASE Release
    <2>0. sem' \in 0 .. 2
      BY <1>15 DEF Release
    <2>1. TypeOK'
      BY <1>15, <2>0, QueueKept DEF Release
    <2>2. SemInv'
      BY <1>15 DEF Release
    <2>3. AloneInv' /\ ThreadInv'
      BY <1>15 DEF Release
    <2>4. RunsInv' /\ OpensAgain'
      BY <1>15 DEF Release
    <2> QED
      BY <2>1, <2>2, <2>3, <2>4
  <1>16. CASE Expire
    BY <1>16, QueueKept DEF Expire
  <1>17. CASE StartLoad
    BY <1>17, QueueKept DEF StartLoad
  <1>18. CASE KthreadLoad
    <2>1. TypeOK'
      BY <1>18, QueueKept DEF KthreadLoad
    <2>2. SemInv' /\ AloneInv'
      BY <1>18 DEF KthreadLoad
    <2>3. ThreadInv' /\ RunsInv' /\ OpensAgain'
      BY <1>18 DEF KthreadLoad
    <2> QED
      BY <2>1, <2>2, <2>3
  <1> QED
    BY <1>1, <1>2, <1>3, <1>4, <1>5, <1>6, <1>7, <1>8, <1>9, <1>10, <1>11, <1>12, <1>13, <1>14, <1>15, <1>16,
       <1>17, <1>18

\* So does the thread.
LEMMA ThreadFront ==
  ASSUME FrontInv,
         \/ ThreadStart \/ ThreadWake \/ ThreadCheck \/ IsExiting \/ IsExpired \/ ThreadExit
         \/ ThreadClear \/ ThreadTest \/ ThreadLast \/ OldLast \/ ThreadDown
  PROVE  FrontInv'
  <1> USE BoundAssumption DEF FrontInv, TypeOK, SemInv, AloneInv, ThreadInv, RunsInv, OpensAgain, Held, One, Adding,
        kthread, tasks, device
  <1>1. CASE ThreadStart
    BY <1>1, QueueKept DEF ThreadStart
  <1>2. CASE ThreadWake
    BY <1>2, QueueKept DEF ThreadWake
  <1>3. CASE ThreadCheck
    BY <1>3, QueueKept DEF ThreadCheck
  <1>4. CASE ThreadExit
    BY <1>4, QueueKept DEF ThreadExit
  <1>5. CASE ThreadClear
    <2>0. sem' \in 0 .. 2
      BY <1>5 DEF ThreadClear
    <2>1. TypeOK'
      <3>1. /\ UNCHANGED <<writer, expired, exit, sem, retune, opc, set, get, old, should_stop, opens, faults>>
            /\ thread' = FALSE /\ tpc' = "none" /\ last' = "test" /\ QueueOK'
        BY <1>5, QueueKept DEF ThreadClear
      <3> QED
        BY <2>0, <3>1
    <2>2. SemInv'
      BY <1>5 DEF ThreadClear
    <2>3. AloneInv' /\ ThreadInv'
      BY <1>5 DEF ThreadClear
    <2>4. RunsInv' /\ OpensAgain'
      BY <1>5 DEF ThreadClear
    <2> QED
      BY <2>1, <2>2, <2>3, <2>4
  <1>6. CASE ThreadLast
    <2>0. sem' \in 0 .. 2
      BY <1>6 DEF ThreadLast
    <2>1. TypeOK'
      BY ZenonT(60), <1>6, <2>0, QueueKept DEF ThreadLast
    <2>2. SemInv'
      BY <1>6 DEF ThreadLast
    <2>3. AloneInv' /\ ThreadInv'
      BY <1>6 DEF ThreadLast
    <2>4. RunsInv' /\ OpensAgain'
      BY <1>6 DEF ThreadLast
    <2> QED
      BY <2>1, <2>2, <2>3, <2>4
  <1>7. CASE OldLast
    BY <1>7, QueueKept DEF OldLast
  <1>8. CASE ThreadDown
    BY <1>8, QueueKept DEF ThreadDown
  <1>9. CASE IsExiting
    BY <1>9, QueueKept DEF IsExiting
  <1>10. CASE IsExpired
    <2>1. TypeOK'
      BY <1>10, QueueKept DEF IsExpired
    <2>2. SemInv' /\ AloneInv'
      BY <1>10 DEF IsExpired
    <2>3. ThreadInv' /\ RunsInv' /\ OpensAgain'
      BY <1>10 DEF IsExpired
    <2> QED
      BY <2>1, <2>2, <2>3
  <1>11. CASE ThreadTest
    BY <1>11, QueueKept DEF ThreadTest
  <1> QED
    BY <1>1, <1>2, <1>3, <1>4, <1>5, <1>6, <1>7, <1>8, <1>9, <1>10, <1>11

\* So does FE_SET_FRONTEND.
LEMMA SetFront ==
  ASSUME FrontInv,
         \/ SetCall \/ SetDown \/ SetInterrupted \/ SetFrontend \/ AddInterrupted
  PROVE  FrontInv'
  <1> USE BoundAssumption DEF FrontInv, TypeOK, SemInv, AloneInv, ThreadInv, RunsInv, OpensAgain, Held, One, Adding,
        kthread, tasks, device
  <1>1. CASE SetCall
    BY <1>1, QueueKept DEF SetCall, Go, MtxFree
  <1>2. CASE SetDown
    BY <1>2, QueueKept DEF SetDown, Go, MtxFree
  <1>3. CASE SetInterrupted
    BY <1>3, QueueKept DEF SetInterrupted, Go, MtxFree
  <1>4. CASE SetFrontend
    BY <1>4, QueueKept DEF SetFrontend, Go, MtxFree
  <1>5. CASE AddInterrupted
    BY <1>5, QueueKept DEF AddInterrupted, Go, MtxFree
  <1> QED
    BY <1>1, <1>2, <1>3, <1>4, <1>5

\* So does FE_GET_EVENT.
LEMMA GetFront ==
  ASSUME FrontInv,
         \/ GetCall \/ GetDown \/ GetInterrupted \/ GetOverflow \/ GetSome \/ GetWake
         \/ GetSignal \/ GetAgain \/ GetAgainInterrupted \/ GetRead \/ GetReadInterrupted \/ GetDone
  PROVE  FrontInv'
  <1> USE BoundAssumption DEF FrontInv, TypeOK, SemInv, AloneInv, ThreadInv, RunsInv, OpensAgain, Held, One, Adding,
        kthread, tasks, device
  <1>1. CASE GetCall
    BY <1>1, QueueKept DEF GetCall, MtxFree
  <1>2. CASE GetDown
    <2>0. sem' \in 0 .. 2
      BY <1>2 DEF GetDown, MtxFree
    <2>1. TypeOK'
      BY <1>2, <2>0, QueueKept DEF GetDown, MtxFree
    <2>2. SemInv'
      BY <1>2 DEF GetDown, MtxFree
    <2>3. AloneInv' /\ ThreadInv'
      BY <1>2 DEF GetDown, MtxFree
    <2>4. RunsInv' /\ OpensAgain'
      BY <1>2 DEF GetDown, MtxFree
    <2> QED
      BY <2>1, <2>2, <2>3, <2>4
  <1>3. CASE GetInterrupted
    <2>0. sem' \in 0 .. 2
      BY <1>3 DEF GetInterrupted, MtxFree
    <2>1. TypeOK'
      BY <1>3, <2>0, QueueKept DEF GetInterrupted, MtxFree
    <2>2. SemInv'
      BY <1>3 DEF GetInterrupted, MtxFree
    <2>3. AloneInv' /\ ThreadInv'
      BY <1>3 DEF GetInterrupted, MtxFree
    <2>4. RunsInv' /\ OpensAgain'
      BY <1>3 DEF GetInterrupted, MtxFree
    <2> QED
      BY <2>1, <2>2, <2>3, <2>4
  <1>4. CASE GetOverflow
    <2>0. sem' \in 0 .. 2
      BY <1>4 DEF GetOverflow, MtxFree
    <2>5. QueueOK'
      BY <1>4 DEF GetOverflow, QueueOK
    <2>1. TypeOK'
      BY <1>4, <2>0, <2>5 DEF GetOverflow, MtxFree
    <2>2. SemInv'
      BY <1>4 DEF GetOverflow, MtxFree
    <2>3. AloneInv' /\ ThreadInv'
      BY <1>4 DEF GetOverflow, MtxFree
    <2>4. RunsInv' /\ OpensAgain'
      BY <1>4 DEF GetOverflow, MtxFree
    <2> QED
      BY <2>1, <2>2, <2>3, <2>4
  <1>5. CASE GetSome
    BY <1>5, QueueKept DEF GetSome, MtxFree
  <1>6. CASE GetWake
    <2>0. sem' \in 0 .. 2
      BY <1>6 DEF GetWake, MtxFree
    <2>1. TypeOK'
      BY <1>6, <2>0, QueueKept DEF GetWake, MtxFree
    <2>2. SemInv'
      BY <1>6 DEF GetWake, MtxFree
    <2>3. AloneInv' /\ ThreadInv'
      BY <1>6 DEF GetWake, MtxFree
    <2>4. RunsInv' /\ OpensAgain'
      BY <1>6 DEF GetWake, MtxFree
    <2> QED
      BY <2>1, <2>2, <2>3, <2>4
  <1>7. CASE GetSignal
    <2>0. sem' \in 0 .. 2
      BY <1>7 DEF GetSignal, MtxFree
    <2>1. TypeOK'
      BY <1>7, <2>0, QueueKept DEF GetSignal, MtxFree
    <2>2. SemInv'
      BY <1>7 DEF GetSignal, MtxFree
    <2>3. AloneInv' /\ ThreadInv'
      BY <1>7 DEF GetSignal, MtxFree
    <2>4. RunsInv' /\ OpensAgain'
      BY <1>7 DEF GetSignal, MtxFree
    <2> QED
      BY <2>1, <2>2, <2>3, <2>4
  <1>8. CASE GetAgain
    BY <1>8, QueueKept DEF GetAgain, MtxFree
  <1>9. CASE GetAgainInterrupted
    BY <1>9, QueueKept DEF GetAgainInterrupted, MtxFree
  <1>10. CASE GetRead
    <2>0. sem' \in 0 .. 2
      BY <1>10 DEF GetRead, MtxFree
    <2>5. QueueOK'
      BY <1>10, SuccSlot DEF GetRead, QueueOK
    <2>1. TypeOK'
      BY <1>10, <2>0, <2>5 DEF GetRead, MtxFree
    <2>2. SemInv'
      BY <1>10 DEF GetRead, MtxFree
    <2>3. AloneInv' /\ ThreadInv'
      BY <1>10 DEF GetRead, MtxFree
    <2>4. RunsInv' /\ OpensAgain'
      BY <1>10 DEF GetRead, MtxFree
    <2> QED
      BY <2>1, <2>2, <2>3, <2>4
  <1>11. CASE GetReadInterrupted
    BY <1>11, QueueKept DEF GetReadInterrupted, MtxFree
  <1>12. CASE GetDone
    <2>0. sem' \in 0 .. 2
      BY <1>12 DEF GetDone, MtxFree
    <2>1. TypeOK'
      BY <1>12, <2>0, QueueKept DEF GetDone, MtxFree
    <2>2. SemInv'
      BY <1>12 DEF GetDone, MtxFree
    <2>3. AloneInv' /\ ThreadInv'
      BY <1>12 DEF GetDone, MtxFree
    <2>4. RunsInv' /\ OpensAgain'
      BY <1>12 DEF GetDone, MtxFree
    <2> QED
      BY <2>1, <2>2, <2>3, <2>4
  <1> QED
    BY <1>1, <1>2, <1>3, <1>4, <1>5, <1>6, <1>7, <1>8, <1>9, <1>10, <1>11, <1>12

\* So does a turn of the thread, and FE_GET_EVENT on an empty queue.
LEMMA ChoiceFront ==
  ASSUME FrontInv,
         \/ \E changed \in BOOLEAN : ThreadTurn(changed)
         \/ \E nonblock \in BOOLEAN : GetEmpty(nonblock)
  PROVE  FrontInv'
  <1> USE BoundAssumption DEF FrontInv, TypeOK, SemInv, AloneInv, ThreadInv, RunsInv, OpensAgain, Held, One, Adding,
        kthread, tasks, device
  <1>1. ASSUME NEW changed \in BOOLEAN, ThreadTurn(changed) PROVE FrontInv'
    <2>0. sem' \in 0 .. 2
      BY <1>1 DEF ThreadTurn
    <2>1. TypeOK'
      BY ZenonT(60), <1>1, <2>0, QueueKept DEF ThreadTurn
    <2>2. SemInv'
      BY <1>1 DEF ThreadTurn
    <2>3. AloneInv' /\ ThreadInv' /\ RunsInv' /\ OpensAgain'
      BY <1>1 DEF ThreadTurn
    <2> QED
      BY <2>1, <2>2, <2>3
  <1>2. ASSUME NEW nonblock \in BOOLEAN, GetEmpty(nonblock) PROVE FrontInv'
    <2>0. sem' \in 0 .. 2
      BY <1>2 DEF GetEmpty
    <2>1. TypeOK'
      BY <1>2, <2>0, QueueKept DEF GetEmpty
    <2>2. SemInv'
      BY <1>2 DEF GetEmpty
    <2>3. AloneInv' /\ ThreadInv' /\ RunsInv' /\ OpensAgain'
      BY <1>2 DEF GetEmpty
    <2> QED
      BY <2>1, <2>2, <2>3
  <1> QED
    BY <1>1, <1>2

\* So does add_event, whoever calls it.
LEMMA AddFront ==
  ASSUME FrontInv, NEW q \in {"thread", "set"}, AddLock(q) \/ AddStore(q) \/ AddStatus(q)
  PROVE  FrontInv'
  <1> USE BoundAssumption DEF FrontInv, TypeOK, SemInv, AloneInv, ThreadInv, RunsInv, OpensAgain, Held, One, Adding,
        kthread, tasks, device
  <1>1. CASE AddLock(q)
    <2>1. QueueOK'
      <3>1. ev' \in [r : Slots, w : Slots, overflow : BOOLEAN, prm : [Slots -> Nat], status : [Slots -> Nat]]
        BY <1>1, SuccSlot DEF AddLock, QueueOK
      <3>2. e' \in [{"thread", "set"} -> [slot : Slots, num : Nat]]
        BY <1>1 DEF AddLock, QueueOK
      <3> QED
        BY <1>1, <3>1, <3>2 DEF AddLock, QueueOK
    <2>2. TypeOK'
      BY <1>1, <2>1 DEF AddLock, Go
    <2>3. SemInv'
      BY <1>1 DEF AddLock, Go
    <2>4. AloneInv' /\ ThreadInv' /\ RunsInv' /\ OpensAgain'
      BY <1>1 DEF AddLock, Go
    <2> QED
      BY <2>2, <2>3, <2>4
  <1>2. CASE AddStore(q)
    <2>1. QueueOK'
      BY <1>2, SuccSlot DEF AddStore, QueueOK
    <2>2. TypeOK'
      BY <1>2, <2>1 DEF AddStore, Go
    <2>3. SemInv'
      BY <1>2 DEF AddStore, Go
    <2>4. AloneInv' /\ ThreadInv' /\ RunsInv' /\ OpensAgain'
      BY <1>2 DEF AddStore, Go
    <2> QED
      BY <2>2, <2>3, <2>4
  <1>3. CASE AddStatus(q)
    <2>0. sem' \in 0 .. 2
      BY <1>3 DEF AddStatus, Go
    <2>1. QueueOK'
      BY <1>3 DEF AddStatus, QueueOK
    <2>2. TypeOK'
      BY <1>3, <2>0, <2>1 DEF AddStatus, Go
    <2>3. SemInv'
      BY <1>3 DEF AddStatus, Go
    <2>4. AloneInv' /\ ThreadInv' /\ RunsInv' /\ OpensAgain'
      BY <1>3 DEF AddStatus, Go
    <2> QED
      BY <2>2, <2>3, <2>4
  <1> QED
    BY <1>1, <1>2, <1>3

\* FrontInv holds of every reachable state.
THEOREM FrontInvariant == Spec => []FrontInv
  <1>1. Init => FrontInv
    <2> SUFFICES ASSUME Init PROVE FrontInv
      OBVIOUS
    <2>1. QueueOK
      <3>1. 0 \in Slots
        BY EventAssumption DEF Slots
      <3> QED
        BY <3>1 DEF Init, QueueOK
    <2>2. TypeOK
      <3>1. sem \in 0 .. 2 /\ old \in Nat /\ opens \in 0 .. MaxOpens
        BY BoundAssumption DEF Init
      <3>2. /\ writer = FALSE /\ expired = FALSE /\ exit = "no" /\ thread = FALSE /\ retune = FALSE
            /\ opc = "out" /\ tpc = "none" /\ set = "out" /\ get = "out"
            /\ last = "none" /\ should_stop = FALSE /\ faults = {}
        BY DEF Init
      <3> QED
        BY <2>1, <3>1, <3>2 DEF TypeOK
    <2> QED
      BY <2>2 DEF Init, FrontInv, SemInv, AloneInv, ThreadInv, RunsInv, OpensAgain, Held, One
  <1>2. FrontInv /\ [Next]_vars => FrontInv'
    <2> SUFFICES ASSUME FrontInv, [Next]_vars PROVE FrontInv'
      OBVIOUS
    <2>1. CASE UNCHANGED vars
      <3>1. QueueOK'
        BY <2>1, QueueKept DEF FrontInv, TypeOK, vars, queue
      <3>2. TypeOK'
        BY <2>1, <3>1 DEF FrontInv, TypeOK, vars
      <3> QED
        BY <2>1, <3>2 DEF FrontInv, vars, SemInv, AloneInv, ThreadInv, RunsInv, OpensAgain, Held, One
    <2> QED
      BY <2>1, OpenFront, ThreadFront, SetFront, GetFront, ChoiceFront, AddFront DEF Next
  <1> QED
    BY <1>1, <1>2, PTL DEF Spec

-----------------------------------------------------------------------------
\* The semaphore of the frontend is free or exactly one process has it, through any
\* number of threads and of sema_init in dvb_frontend_stop, until a signal interrupts
\* dvb_frontend_get_event.
THEOREM SemCorrect == Spec => []SemBalanced
  <1>1. FrontInv => SemBalanced
    <2> SUFFICES ASSUME FrontInv PROVE SemBalanced
      OBVIOUS
    <2>1. Cardinality(Holders) = Held
      <3> DEFINE a == tpc \in {"start", "turn", "add", "store", "status"}
                 b == set \in {"in", "add", "store", "status"}
                 c == get \in {"in", "read", "done"}
                 d == opc = "run"
      <3>1. /\ a <=> tpc \in {"start", "turn"} \cup Adding
            /\ b <=> set \in {"in"} \cup Adding
        BY DEF Adding
      <3>2. Holders = {x \in {"thread", "set", "get", "open"} :
                         \/ x = "thread" /\ a
                         \/ x = "set" /\ b
                         \/ x = "get" /\ c
                         \/ x = "open" /\ d}
        BY <3>1, Zenon DEF Holders
      <3>3. Held = One(a) + One(b) + One(c) + One(d)
        BY DEF Held
      <3>4. a \in BOOLEAN /\ b \in BOOLEAN /\ c \in BOOLEAN /\ d \in BOOLEAN
        OBVIOUS
      <3> HIDE DEF a, b, c, d
      <3> QED
        BY <3>2, <3>3, <3>4, CountHolders
    <2> QED
      BY <2>1 DEF FrontInv, SemInv, SemBalanced
  <1> QED
    BY <1>1, FrontInvariant, PTL

\* Whoever has the device open has a thread that will not exit, unless one of the
\* known races happened.
THEOREM ThreadCorrect == Spec => []ThreadRuns
  <1>1. FrontInv => ThreadRuns
    BY DEF FrontInv, RunsInv, ThreadRuns
  <1> QED
    BY <1>1, FrontInvariant, PTL

\* A device that was only closed is never taken for one that was removed.
THEOREM OpensCorrect == Spec => []OpensAgain
  <1>1. FrontInv => OpensAgain
    BY DEF FrontInv
  <1> QED
    BY <1>1, FrontInvariant, PTL

-----------------------------------------------------------------------------
(* The queue of events.                                                    *)

\* A step that leaves the queue alone and nobody in the middle of add_event.
LEMMA EventsKept ==
  ASSUME EventsInv, UNCHANGED queue, faults' = {} => faults = {},
         \A at \in {"store", "status"} : (tpc' = at <=> tpc = at) /\ (set' = at <=> set = at),
         faults = {} /\ get' = "read" => ev.r # ev.w,
         faults = {} /\ get' = "again" /\ MtxFree => ev.r # ev.w
  PROVE  EventsInv'
  <1> SUFFICES ASSUME faults' = {}
               PROVE  NumberInv' /\ StatusInv' /\ StoreInv' /\ SeenInv'
    BY DEF EventsInv
  <1>1. NumberInv /\ StatusInv /\ StoreInv /\ SeenInv /\ faults = {}
    BY DEF EventsInv
  <1>2. ev' = ev /\ e' = e /\ added' = added /\ seen' = seen /\ told' = told
    BY DEF queue
  <1>3. /\ MtxFree' <=> MtxFree
        /\ \A q : (AddAt(q, "store")' <=> AddAt(q, "store")) /\ (AddAt(q, "status")' <=> AddAt(q, "status"))
    BY DEF MtxFree, AddAt
  <1>4. Stored' = Stored /\ Queued' = Queued /\ \A s : Dist(s)' = Dist(s)
    BY <1>2, <1>3 DEF Stored, Queued, Dist
  <1>5. NumberInv'
    BY <1>1, <1>2, <1>4 DEF NumberInv
  <1>6. StatusInv'
    BY <1>1, <1>2, <1>3, <1>4 DEF StatusInv
  <1>7. StoreInv'
    BY <1>1, <1>2, <1>3 DEF StoreInv
  <1>8. SeenInv'
    BY <1>1, <1>2, <1>3, <1>4 DEF SeenInv
  <1> QED
    BY <1>5, <1>6, <1>7, <1>8

\* The arithmetic of slots, for every event that is in the queue.
LEMMA SlotFacts ==
  ASSUME QueueOK
  PROVE  /\ MaxEvent \in Nat /\ MaxEvent > 1 /\ added \in Nat /\ seen \in Nat
         /\ ev.r \in 0 .. MaxEvent - 1 /\ ev.w \in 0 .. MaxEvent - 1
         /\ \A s \in Slots : s \in 0 .. MaxEvent - 1 /\ Dist(s) \in 1 .. MaxEvent
         /\ Queued \in 0 .. MaxEvent - 1 /\ Stored \in Int
  <1>1. MaxEvent \in Nat /\ MaxEvent > 1 /\ added \in Nat /\ seen \in Nat /\ ev.r \in Slots /\ ev.w \in Slots
    BY EventAssumption DEF QueueOK
  <1>2. ev.r \in 0 .. MaxEvent - 1 /\ ev.w \in 0 .. MaxEvent - 1
    BY <1>1 DEF Slots
  <1>3. \A s \in Slots : s \in 0 .. MaxEvent - 1 /\ Dist(s) \in 1 .. MaxEvent
    BY <1>1, <1>2 DEF Slots, Dist
  <1>4. Queued \in 0 .. MaxEvent - 1
    BY <1>1, <1>2 DEF Queued, Dist
  <1>5. Stored \in Int
    BY <1>1 DEF Stored
  <1> QED
    BY <1>1, <1>2, <1>3, <1>4, <1>5

\* At most one has the semaphore: nobody else is in add_event.
LEMMA OneHolder ==
  ASSUME FrontInv, faults = {}
  PROVE  /\ sem > 0 \/ get = "read" \/ opc = "run" => tpc \notin Adding /\ set \notin Adding
         /\ tpc \in Adding => set \notin Adding
  BY DEF FrontInv, TypeOK, SemInv, Held, One, Adding

\* The steps that do not touch the queue.
LEMMA QuietEvents ==
  ASSUME FrontInv, EventsInv,
         \/ Open \/ StartLoad \/ StartAlive \/ StartStop \/ StopExit \/ StopTest \/ KthreadLoad \/ KthreadStop
         \/ Join \/ StartNew \/ StartDown \/ StartInterrupted \/ Run \/ RunFails
         \/ Assign \/ Release \/ Expire
         \/ ThreadStart \/ ThreadWake \/ ThreadCheck \/ IsExiting \/ IsExpired \/ ThreadExit
         \/ ThreadClear \/ ThreadTest \/ ThreadLast \/ OldLast \/ ThreadDown
         \/ \E changed \in BOOLEAN : ThreadTurn(changed)
         \/ SetCall \/ SetDown \/ SetInterrupted \/ SetFrontend \/ AddInterrupted
         \/ GetCall \/ GetDown \/ GetInterrupted \/ GetSome \/ GetWake \/ GetSignal
         \/ GetAgain \/ GetAgainInterrupted \/ GetReadInterrupted \/ GetDone
         \/ \E nonblock \in BOOLEAN : GetEmpty(nonblock)
  PROVE  EventsInv'
  <1>1. CASE \/ Open \/ StartLoad \/ StartAlive \/ StartStop \/ StopExit \/ StopTest \/ KthreadLoad \/ KthreadStop
             \/ Join \/ StartNew \/ StartDown \/ StartInterrupted \/ RunFails
             \/ Assign \/ Release \/ Expire
    <2>1. /\ UNCHANGED queue /\ (faults' = {} => faults = {}) /\ UNCHANGED <<tpc, set, get>>
      BY <1>1 DEF Open, StartLoad, StartAlive, StartStop, StopExit, StopTest, KthreadLoad, KthreadStop, Join, StartNew, StartDown,
                  StartInterrupted, RunFails, Assign, Release, Expire, kthread, tasks, device
    <2> QED
      BY <2>1, EventsKept DEF EventsInv, SeenInv
  <1>2. CASE Run
    <2>1. UNCHANGED <<queue, faults, set, get>> /\ tpc = "none" /\ tpc' = "start"
      BY <1>2 DEF Run, tasks, FrontInv, ThreadInv
    <2> QED
      BY <2>1, EventsKept DEF EventsInv, SeenInv
  <1>3. CASE \/ ThreadStart \/ ThreadWake \/ ThreadCheck \/ IsExiting \/ IsExpired \/ ThreadExit
             \/ ThreadClear \/ ThreadTest \/ ThreadLast \/ OldLast \/ ThreadDown \/ \E changed \in BOOLEAN : ThreadTurn(changed)
    <2>1. /\ UNCHANGED <<queue, set, get>> /\ (faults' = {} => faults = {})
          /\ (tpc \notin {"store", "status"} /\ tpc' \notin {"store", "status"}) \/ tpc' = tpc
      BY <1>3 DEF ThreadStart, ThreadWake, ThreadCheck, IsExiting, IsExpired, ThreadExit, ThreadClear,
                  ThreadTest, ThreadLast, OldLast, ThreadDown, ThreadTurn, tasks
    <2> QED
      BY <2>1, EventsKept DEF EventsInv, SeenInv
  <1>4. CASE SetCall \/ SetDown \/ SetInterrupted \/ SetFrontend \/ AddInterrupted
    <2>1. /\ UNCHANGED <<queue, faults, tpc, get>>
          /\ set \notin {"store", "status"} /\ set' \notin {"store", "status"}
      BY <1>4 DEF SetCall, SetDown, SetInterrupted, SetFrontend, AddInterrupted, Go
    <2> QED
      BY <2>1, EventsKept DEF EventsInv, SeenInv
  <1>5. CASE \/ GetCall \/ GetDown \/ GetInterrupted \/ GetSome \/ GetWake \/ GetSignal
             \/ GetReadInterrupted \/ GetDone \/ \E nonblock \in BOOLEAN : GetEmpty(nonblock)
    <2>1. /\ UNCHANGED <<queue, faults, tpc, set>>
          /\ get' \in {"read", "again"} => ev.r # ev.w
      BY <1>5 DEF GetCall, GetDown, GetInterrupted, GetSome, GetWake, GetSignal,
                  GetReadInterrupted, GetDone, GetEmpty
    <2> QED
      BY <2>1, EventsKept
  <1>6. CASE GetAgain
    <2>1. /\ UNCHANGED <<queue, faults, tpc, set>> /\ sem > 0
          /\ get' = IF get = "again" THEN "read" ELSE "done"
      BY <1>6 DEF GetAgain
    <2>2. faults = {} => MtxFree
      BY <2>1, OneHolder DEF MtxFree, Adding
    <2>3. faults = {} /\ get' = "read" => ev.r # ev.w
      BY <2>1, <2>2 DEF EventsInv, SeenInv
    <2> QED
      BY <2>1, <2>3, EventsKept
  <1>7. CASE GetAgainInterrupted
    <2>1. faults' # {}
      BY <1>7 DEF GetAgainInterrupted
    <2> QED
      BY <2>1 DEF EventsInv
  <1> QED
    BY <1>1, <1>2, <1>3, <1>4, <1>5, <1>6, <1>7

\* Emptying the queue: the reader is taken to have seen all events.
LEMMA FlushEvents ==
  ASSUME FrontInv, EventsInv, Flush
  PROVE  EventsInv'
  <1> SUFFICES ASSUME faults' = {}
               PROVE  NumberInv' /\ StatusInv' /\ StoreInv' /\ SeenInv'
    BY DEF EventsInv
  <1>1. /\ QueueOK /\ FrontInv' /\ tpc # "store" /\ set = "out" /\ get = "out"
        /\ tpc' = tpc /\ set' = set /\ get' = get /\ added' = added /\ seen' = added
        /\ ev' = [ev EXCEPT !.r = 0, !.w = 0]
    BY OpenFront DEF Flush, tasks, FrontInv, TypeOK, AloneInv
  <1>2. QueueOK' /\ ev'.r = 0 /\ ev'.w = 0
    BY <1>1 DEF QueueOK, FrontInv, TypeOK
  <1>3. Queued' = 0 /\ Stored' = added
    BY <1>1, <1>2 DEF Queued, Stored, MtxFree
  <1>4. \A s \in Slots : Dist(s)' \in Nat /\ Dist(s)' > 0
    BY <1>2, EventAssumption DEF Dist, Slots
  <1>5. NumberInv'
    BY <1>3, <1>4 DEF NumberInv
  <1>6. StatusInv'
    <2>1. \A q \in {"thread", "set"} : e'[q].slot \in Slots
      BY <1>2 DEF QueueOK
    <2> QED
      BY <1>3, <1>4, <2>1 DEF StatusInv
  <1>7. StoreInv'
    BY <1>1 DEF StoreInv, AddAt
  <1>8. SeenInv'
    BY <1>1, <1>3, SlotFacts DEF SeenInv
  <1> QED
    BY <1>5, <1>6, <1>7, <1>8

\* -EOVERFLOW: the reader is told.
LEMMA OverflowEvents ==
  ASSUME FrontInv, EventsInv, GetOverflow
  PROVE  EventsInv'
  <1> SUFFICES ASSUME faults' = {}
               PROVE  NumberInv' /\ StatusInv' /\ StoreInv' /\ SeenInv'
    BY DEF EventsInv
  <1>1. /\ QueueOK /\ NumberInv /\ StatusInv /\ StoreInv /\ SeenInv
        /\ UNCHANGED <<tpc, set, e, added, seen>> /\ told' /\ get' = "done"
        /\ ev' = [ev EXCEPT !.overflow = FALSE]
    BY DEF GetOverflow, FrontInv, TypeOK, EventsInv
  <1>2. ev'.r = ev.r /\ ev'.w = ev.w /\ ev'.prm = ev.prm /\ ev'.status = ev.status
    BY <1>1 DEF QueueOK
  <1>3. Stored' = Stored /\ Queued' = Queued /\ \A s : Dist(s)' = Dist(s)
    BY <1>1, <1>2 DEF Stored, Queued, Dist, MtxFree
  <1>4. NumberInv'
    BY <1>1, <1>2, <1>3 DEF NumberInv
  <1>5. StatusInv'
    BY <1>1, <1>2, <1>3 DEF StatusInv, AddAt
  <1>6. StoreInv'
    BY <1>1, <1>2 DEF StoreInv, AddAt
  <1>7. SeenInv'
    BY <1>1, <1>3 DEF SeenInv
  <1> QED
    BY <1>4, <1>5, <1>6, <1>7

\* An event is read: the queue begins with the next.
LEMMA ReadEvents ==
  ASSUME FrontInv, EventsInv, GetRead
  PROVE  /\ EventsInv'
         /\ faults = {} => /\ ev.prm[ev.r] = ev.status[ev.r]
                           /\ ev.prm[ev.r] > seen
                           /\ ev.prm[ev.r] = seen + 1 \/ told \/ ev.overflow
  <1> SUFFICES ASSUME faults = {}
               PROVE  /\ NumberInv' /\ StatusInv' /\ StoreInv' /\ SeenInv'
                      /\ ev.prm[ev.r] = ev.status[ev.r]
                      /\ ev.prm[ev.r] > seen
                      /\ ev.prm[ev.r] = seen + 1 \/ told \/ ev.overflow
    BY DEF EventsInv, GetRead
  <1>1. /\ QueueOK /\ NumberInv /\ StatusInv /\ StoreInv /\ SeenInv /\ ev.r # ev.w
        /\ UNCHANGED <<tpc, set, e, added>> /\ get' = "done" /\ seen' = ev.prm[ev.r]
        /\ ev' = [ev EXCEPT !.r = Succ(@)]
    BY DEF GetRead, FrontInv, TypeOK, EventsInv, SeenInv
  <1>2. tpc \notin {"store", "status"} /\ set \notin {"store", "status"}
    BY OneHolder DEF GetRead, Adding
  <1>3. ev'.r = Succ(ev.r) /\ ev'.w = ev.w /\ ev'.prm = ev.prm /\ ev'.status = ev.status /\ ev'.overflow = ev.overflow
    BY <1>1 DEF QueueOK
  <1>4. ev.r \in Slots /\ Succ(ev.r) = IF ev.r + 1 = MaxEvent THEN 0 ELSE ev.r + 1
    BY <1>1, SuccSlot DEF QueueOK
  <1>5. Stored = added /\ Stored' = added /\ \A s : Dist(s)' = Dist(s)
    BY <1>1, <1>2, <1>3 DEF Stored, Dist, MtxFree
  <1>6. Queued' = Queued - 1 /\ Queued = Dist(ev.r)
    BY <1>1, <1>3, <1>4, SlotFacts DEF Queued, Dist
  <1>7. Queued \in Nat /\ added \in Nat /\ seen \in Nat /\ \A s \in Slots : Dist(s) \in Nat
    BY <1>1, SlotFacts
  <1>8. ev.prm[ev.r] = added - Queued + 1
    BY <1>1, <1>4, <1>5, <1>6, <1>7 DEF NumberInv
  <1>9. NumberInv'
    BY <1>1, <1>3, <1>5, <1>6, <1>7 DEF NumberInv
  <1>10. ASSUME NEW s \in Slots, Dist(s) <= Queued PROVE ev.status[s] = ev.prm[s]
    BY <1>1, <1>2, <1>10 DEF StatusInv, AddAt
  <1>11. StatusInv'
    <2>1. \A s \in Slots : Dist(s)' <= Queued' => Dist(s) <= Queued
      BY <1>5, <1>6, <1>7
    <2> QED
      BY <1>1, <1>2, <1>3, <1>10, <2>1 DEF StatusInv, AddAt
  <1>12. StoreInv'
    BY <1>1, <1>2 DEF StoreInv, AddAt
  <1>13. SeenInv'
    BY <1>1, <1>5, <1>6, <1>7, <1>8 DEF SeenInv
  <1>14. ev.prm[ev.r] > seen /\ (ev.prm[ev.r] = seen + 1 \/ told \/ ev.overflow)
    BY <1>1, <1>5, <1>7, <1>8 DEF SeenInv
  <1>15. ev.prm[ev.r] = ev.status[ev.r]
    BY <1>4, <1>6, <1>7, <1>10
  <1> QED
    BY <1>9, <1>11, <1>12, <1>13, <1>14, <1>15

\* add_event begins: the oldest event may make room, and the reader will know.
LEMMA LockEvents ==
  ASSUME FrontInv, EventsInv, NEW q \in {"thread", "set"}, AddLock(q)
  PROVE  EventsInv'
  <1> SUFFICES ASSUME faults = {}
               PROVE  NumberInv' /\ StatusInv' /\ StoreInv' /\ SeenInv'
    BY DEF EventsInv, AddLock
  <1>1. /\ QueueOK /\ NumberInv /\ StatusInv /\ StoreInv /\ SeenInv
        /\ UNCHANGED <<get, seen, told>> /\ added' = added + 1 /\ MtxFree
        /\ ev' = IF Succ(ev.w) = ev.r THEN [ev EXCEPT !.overflow = TRUE, !.r = Succ(@)] ELSE ev
        /\ e' = [e EXCEPT ![q] = [slot |-> ev.w, num |-> added + 1]]
    BY DEF AddLock, FrontInv, TypeOK, EventsInv
  <1>2. /\ ~MtxFree' /\ AddAt(q, "store")' /\ get # "read"
        /\ \A o \in {"thread", "set"} : o # q => ~AddAt(o, "store")'
        /\ \A o \in {"thread", "set"} : ~AddAt(o, "status") /\ ~AddAt(o, "status")'
    BY OneHolder DEF AddLock, Go, MtxFree, AddAt, Adding
  <1>3. /\ ev'.w = ev.w /\ ev'.prm = ev.prm /\ ev'.status = ev.status
        /\ IF Succ(ev.w) = ev.r THEN ev'.r = Succ(ev.r) /\ ev'.overflow ELSE ev'.r = ev.r /\ ev'.overflow = ev.overflow
    BY <1>1 DEF QueueOK
  <1>4. /\ ev.r \in Slots /\ Succ(ev.r) = IF ev.r + 1 = MaxEvent THEN 0 ELSE ev.r + 1
        /\ ev.w \in Slots /\ Succ(ev.w) = IF ev.w + 1 = MaxEvent THEN 0 ELSE ev.w + 1
    BY <1>1, SuccSlot DEF QueueOK
  <1>5. Stored = added /\ Stored' = added /\ \A s : Dist(s)' = Dist(s)
    BY <1>1, <1>2, <1>3, SlotFacts DEF Stored, Dist
  <1>6. Queued' = IF Succ(ev.w) = ev.r THEN Queued - 1 ELSE Queued
    BY SMTT(30), <1>1, <1>3, <1>4, SlotFacts DEF Queued, Dist
  <1>7. Queued \in Nat /\ added \in Nat /\ seen \in Nat /\ \A s \in Slots : Dist(s) \in Nat
    BY <1>1, SlotFacts
  <1>8. \A s \in Slots : Dist(s)' <= Queued' => Dist(s) <= Queued
    BY <1>5, <1>6, <1>7
  <1>9. NumberInv'
    BY <1>1, <1>3, <1>5, <1>8 DEF NumberInv
  <1>10. StatusInv'
    BY <1>1, <1>2, <1>3, <1>8 DEF StatusInv
  <1>11. Succ(ev.w) # ev'.r
    BY <1>1, <1>3, <1>4, SlotFacts
  <1>12. StoreInv'
    <2>1. e'[q].slot = ev.w /\ e'[q].num = added'
      BY <1>1 DEF QueueOK
    <2>2. Succ(ev.w)' = Succ(ev.w)
      BY <1>3 DEF Succ
    <2> QED
      BY <1>2, <1>3, <1>11, <2>1, <2>2 DEF StoreInv
  <1>13. SeenInv'
    BY <1>1, <1>2, <1>3, <1>5, <1>6, <1>7 DEF SeenInv
  <1> QED
    BY <1>9, <1>10, <1>12, <1>13

\* The event is stored: the queue is longer by one.
LEMMA StoreEvents ==
  ASSUME FrontInv, EventsInv, NEW q \in {"thread", "set"}, AddStore(q)
  PROVE  EventsInv'
  <1> SUFFICES ASSUME faults = {}
               PROVE  NumberInv' /\ StatusInv' /\ StoreInv' /\ SeenInv'
    BY DEF EventsInv, AddStore
  <1>1. /\ QueueOK /\ NumberInv /\ StatusInv /\ StoreInv /\ SeenInv
        /\ UNCHANGED <<get, seen, told, e, added>>
        /\ ev' = [ev EXCEPT !.prm[e[q].slot] = e[q].num, !.w = Succ(e[q].slot)]
    BY DEF AddStore, FrontInv, TypeOK, EventsInv
  <1>2. /\ AddAt(q, "store") /\ AddAt(q, "status")' /\ ~MtxFree /\ MtxFree' /\ get # "read"
        /\ \A o \in {"thread", "set"} : ~AddAt(o, "status") /\ ~AddAt(o, "store")'
        /\ \A o \in {"thread", "set"} : AddAt(o, "status")' => o = q
    BY OneHolder DEF AddStore, Go, MtxFree, AddAt, Adding
  <1>3. e[q].slot = ev.w /\ e[q].num = added /\ Succ(ev.w) # ev.r
    BY <1>1, <1>2 DEF StoreInv
  <1>4. /\ ev'.w = Succ(ev.w) /\ ev'.r = ev.r /\ ev'.status = ev.status /\ ev'.overflow = ev.overflow
        /\ ev'.prm = [ev.prm EXCEPT ![ev.w] = added]
    BY <1>1, <1>3 DEF QueueOK
  <1>5. /\ ev.w \in Slots /\ ev.r \in Slots /\ Succ(ev.w) = IF ev.w + 1 = MaxEvent THEN 0 ELSE ev.w + 1
        /\ ev.prm \in [Slots -> Nat]
    BY <1>1, SuccSlot DEF QueueOK
  <1>6. Stored = added - 1 /\ Stored' = added
    BY <1>1, <1>2 DEF Stored
  <1>7. Queued' = Queued + 1
    BY <1>1, <1>3, <1>4, <1>5, SlotFacts DEF Queued, Dist
  <1>8. /\ \A s \in Slots : s # ev.w => Dist(s)' = Dist(s) + 1
        /\ \A s \in Slots : s = ev.w => Dist(s)' = 1
    BY <1>1, <1>4, <1>5, SlotFacts DEF Dist
  <1>9. Queued \in Nat /\ added \in Nat /\ seen \in Nat /\ \A s \in Slots : Dist(s) \in Nat
    BY <1>1, SlotFacts
  <1>10. ASSUME NEW s \in Slots, Dist(s)' <= Queued', s # ev.w PROVE Dist(s) <= Queued
    BY <1>7, <1>8, <1>9, <1>10
  <1>11. NumberInv'
    <2> SUFFICES ASSUME NEW s \in Slots, Dist(s)' <= Queued'
                 PROVE  ev'.prm[s] = Stored' - Dist(s)' + 1
      BY DEF NumberInv
    <2>1. CASE s = ev.w
      BY <1>4, <1>5, <1>6, <1>8, <1>9, <2>1
    <2>2. CASE s # ev.w
      <3>1. ev'.prm[s] = ev.prm[s] /\ ev.prm[s] = Stored - Dist(s) + 1
        BY <1>1, <1>4, <1>5, <1>10, <2>2 DEF NumberInv
      <3> QED
        BY <1>6, <1>8, <1>9, <2>2, <3>1
    <2> QED
      BY <2>1, <2>2
  <1>12. StatusInv'
    <2>1. ASSUME NEW s \in Slots, Dist(s)' <= Queued', s # ev.w PROVE ev'.status[s] = ev'.prm[s]
      BY <1>1, <1>2, <1>4, <1>5, <1>10, <2>1 DEF StatusInv
    <2>2. e' = e /\ ev'.prm[ev.w] = added
      BY <1>1, <1>4, <1>5
    <2> QED
      BY <1>2, <1>3, <2>1, <2>2 DEF StatusInv
  <1>13. StoreInv'
    BY <1>2 DEF StoreInv
  <1>14. SeenInv'
    BY <1>1, <1>2, <1>3, <1>4, <1>6, <1>7, <1>9 DEF SeenInv
  <1> QED
    BY <1>11, <1>12, <1>13, <1>14

\* Its status is stored.
LEMMA StatusEvents ==
  ASSUME FrontInv, EventsInv, NEW q \in {"thread", "set"}, AddStatus(q)
  PROVE  EventsInv'
  <1> SUFFICES ASSUME faults = {}
               PROVE  NumberInv' /\ StatusInv' /\ StoreInv' /\ SeenInv'
    BY DEF EventsInv, AddStatus
  <1>1. /\ QueueOK /\ NumberInv /\ StatusInv /\ StoreInv /\ SeenInv
        /\ UNCHANGED <<get, seen, told, e, added>>
        /\ ev' = [ev EXCEPT !.status[e[q].slot] = e[q].num]
    BY DEF AddStatus, FrontInv, TypeOK, EventsInv
  <1>2. /\ AddAt(q, "status") /\ MtxFree /\ MtxFree'
        /\ \A o \in {"thread", "set"} : ~AddAt(o, "status")' /\ ~AddAt(o, "store")'
        /\ \A o \in {"thread", "set"} : AddAt(o, "status") => o = q
    BY OneHolder DEF AddStatus, Go, MtxFree, AddAt, Adding
  <1>3. /\ ev'.w = ev.w /\ ev'.r = ev.r /\ ev'.prm = ev.prm /\ ev'.overflow = ev.overflow
        /\ ev'.status = [ev.status EXCEPT ![e[q].slot] = e[q].num]
        /\ ev.status \in [Slots -> Nat] /\ e[q].slot \in Slots
    BY <1>1 DEF QueueOK
  <1>4. Stored' = Stored /\ Queued' = Queued /\ \A s : Dist(s)' = Dist(s)
    BY <1>1, <1>2, <1>3 DEF Stored, Queued, Dist
  <1>5. NumberInv'
    BY <1>1, <1>3, <1>4 DEF NumberInv
  <1>6. StatusInv'
    <2>1. ASSUME NEW s \in Slots, Dist(s) <= Queued PROVE ev'.status[s] = ev.prm[s]
      <3>1. CASE s = e[q].slot
        BY <1>1, <1>2, <1>3, <2>1, <3>1 DEF StatusInv
      <3>2. CASE s # e[q].slot
        BY <1>1, <1>2, <1>3, <2>1, <3>2 DEF StatusInv
      <3> QED
        BY <3>1, <3>2
    <2> QED
      BY <1>2, <1>3, <1>4, <2>1 DEF StatusInv
  <1>7. StoreInv'
    BY <1>2 DEF StoreInv
  <1>8. SeenInv'
    BY <1>1, <1>2, <1>3, <1>4 DEF SeenInv
  <1> QED
    BY <1>5, <1>6, <1>7, <1>8

\* The invariant of the queue holds of every reachable state.
THEOREM EventsInvariant == Spec => [](FrontInv /\ EventsInv)
  <1>1. Init => EventsInv
    <2> SUFFICES ASSUME Init PROVE NumberInv /\ StatusInv /\ StoreInv /\ SeenInv
      BY DEF EventsInv
    <2>1. /\ ev.r = 0 /\ ev.w = 0 /\ tpc = "none" /\ set = "out" /\ get = "out" /\ added = 0 /\ seen = 0
      BY DEF Init
    <2>2. Queued = 0 /\ Stored = 0 /\ \A s \in Slots : Dist(s) \in Nat /\ Dist(s) > 0
      BY <2>1, EventAssumption DEF Queued, Stored, MtxFree, Dist, Slots
    <2>3. \A q \in {"thread", "set"} : ~AddAt(q, "store") /\ ~AddAt(q, "status")
      BY <2>1 DEF AddAt
    <2> QED
      BY <2>1, <2>2, <2>3 DEF NumberInv, StatusInv, StoreInv, SeenInv
  <1>2. FrontInv /\ EventsInv /\ [Next]_vars => EventsInv'
    <2> SUFFICES ASSUME FrontInv, EventsInv, [Next]_vars PROVE EventsInv'
      OBVIOUS
    <2>1. CASE UNCHANGED vars
      <3>1. UNCHANGED <<queue, tpc, set, get, faults>>
        BY <2>1 DEF vars, queue
      <3> QED
        BY <3>1, EventsKept DEF EventsInv, SeenInv
    <2> QED
      BY <2>1, QuietEvents, FlushEvents, OverflowEvents, ReadEvents, LockEvents, StoreEvents, StatusEvents DEF Next
  <1> QED
    BY <1>1, <1>2, FrontInvariant, PTL DEF Spec

\* What FE_GET_EVENT returns is an event as it was added, its parameters with its own
\* status, later than the one before; a gap before it has been or will be reported.
THEOREM EventsCorrect == Spec => EventsRead
  <1> DEFINE A == get = "read" /\ ev'.r # ev.r /\ get' = "done" /\ faults = {} =>
                    /\ ev.prm[ev.r] = ev.status[ev.r]
                    /\ ev.prm[ev.r] > seen
                    /\ ev.prm[ev.r] = seen + 1 \/ told \/ ev.overflow
  <1>1. FrontInv /\ EventsInv /\ [Next]_vars => [A]_vars
    <2> SUFFICES ASSUME FrontInv, EventsInv, Next, get = "read", ev'.r # ev.r, get' = "done", faults = {}
                 PROVE  /\ ev.prm[ev.r] = ev.status[ev.r]
                        /\ ev.prm[ev.r] > seen
                        /\ ev.prm[ev.r] = seen + 1 \/ told \/ ev.overflow
      OBVIOUS
    <2>1. GetRead \/ UNCHANGED get \/ UNCHANGED ev \/ get # "read"
      BY DEF Next, Open, StartLoad, StartAlive, StartStop, StopExit, StopTest, KthreadLoad, KthreadStop, Join, StartNew, StartDown,
             StartInterrupted, Run, RunFails, Assign, Flush, Release, Expire, ThreadStart, ThreadWake,
             ThreadCheck, IsExiting, IsExpired, ThreadExit, ThreadClear, ThreadTest, ThreadLast, OldLast,
             ThreadDown, ThreadTurn, AddLock, AddStore,
             AddStatus, AddInterrupted, SetCall, SetDown, SetInterrupted, SetFrontend, GetCall, GetDown,
             GetInterrupted, GetOverflow, GetEmpty, GetSome, GetWake, GetSignal, GetAgain, GetAgainInterrupted,
             GetReadInterrupted, GetDone, tasks, queue
    <2>2. GetRead
      BY <2>1
    <2> QED
      BY <2>2, ReadEvents
  <1> QED
    BY <1>1, EventsInvariant, PTL DEF Spec, EventsRead
=============================================================================
