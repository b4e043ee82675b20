-------------------------- MODULE DvbCaSlotProofs ---------------------------
(***************************************************************************)
(* For any number of slots, CAMs and changes: a slot that runs, runs with  *)
(* the CAM that is in it.                                                  *)
(***************************************************************************)
EXTENDS DvbCaSlot, TLAPS

\* slot_lock is held by the one that is inside: the thread for the slot it looks at,
\* the process for the one it resets or writes to.
LockInv ==
  \A s \in Slots :
    /\ lock[s] = "thread" <=> thread.pc \notin {"sleep", "lock"} /\ thread.slot = s
    /\ lock[s] = "user" <=> user.pc \in {"reset", "type", "inc", "locked"} /\ user.slot = s

\* CA_RESET has yet to report a change of slot s.
Resets(s) == user.pc \in {"lock", "reset", "type", "inc"} /\ user.slot <= s

\* The change that was reported by the driver, is being counted, or will be by CA_RESET.
Coming(s) ==
  (IF report[s] # "nothing" THEN 1 ELSE 0)
    + (IF irq.pc = "inc" /\ irq.slot = s THEN 1 ELSE 0)
    + (IF Resets(s) THEN 1 ELSE 0)

\* The changes to be counted keep camchange_count within its bound, and where the
\* slots are polled none is reported.
BoundInv ==
  /\ \A s \in Slots : count[s] + Coming(s) <= MaxChanges + 2
  /\ ~flags => /\ irq.pc # "inc" /\ user.pc \notin {"type", "inc"}
               /\ \A s \in Slots : report[s] = "nothing" /\ count[s] <= 1

\* A change that the thread handles is counted, and the CAM of before is shut down by
\* the time it is counted off.
HandleInv ==
  /\ thread.pc \in {"shutdown", "insert", "dec"} => count[thread.slot] > 0
  /\ thread.pc \in {"insert", "dec"} => state[thread.slot] # "RUNNING"

\* The link is made with the CAM in the slot, or a change is there to be seen later;
\* where the slots are polled none is put in before the thread has seen it gone.
LinkInv ==
  thread.pc = "link" =>
    IF flags THEN Pending(thread.slot) \/ (Present(thread.slot) /\ thread.id = cam[thread.slot].id)
             ELSE state[thread.slot] # "NONE" /\ thread.id = cam[thread.slot].id

RunInv ==
  \A s \in Slots : state[s] = "RUNNING" =>
    IF flags THEN Pending(s) \/ (Present(s) /\ linked[s] = cam[s].id)
             ELSE linked[s] = cam[s].id

SlotInv == TypeOK /\ LockInv /\ BoundInv /\ HandleInv /\ LinkInv /\ RunInv

-----------------------------------------------------------------------------
(* The parts of the state.                                                 *)

LEMMA SlotFacts ==
  /\ 0 \in Slots
  /\ \A s \in Slots : s \in Int /\ (s + 1 < SlotCount => s + 1 \in Slots)
  BY SlotAssumption DEF Slots

LEMMA Parts ==
  ASSUME TypeOK
  PROVE  /\ thread.slot \in Slots /\ user.slot \in Slots /\ irq.slot \in Slots /\ thread.id \in 0 .. MaxCams
         /\ \A s \in Slots : cam[s] \in Cams /\ cam[s].id \in 0 .. MaxCams
  BY DEF TypeOK, Cams

LEMMA CamFacts ==
  ASSUME TypeOK, NEW s \in Slots
  PROVE  /\ \A ph \in {"absent", "raw", "reset", "ready"} :
              [cam EXCEPT ![s].phase = ph] \in [Slots -> Cams]
         /\ \A good \in BOOLEAN : cam[s].id < MaxCams =>
              [cam EXCEPT ![s] = [id |-> @.id + 1, phase |-> "raw", good |-> good]] \in [Slots -> Cams]
         /\ [cam EXCEPT ![s].phase = @] = cam
  <1>1. cam \in [Slots -> Cams] /\ cam[s] \in Cams
    BY DEF TypeOK
  <1>2. \A ph \in {"absent", "raw", "reset", "ready"} : [cam[s] EXCEPT !.phase = ph] \in Cams
    BY <1>1 DEF Cams
  <1>3. \A good \in BOOLEAN : cam[s].id < MaxCams => [id |-> cam[s].id + 1, phase |-> "raw", good |-> good] \in Cams
    BY <1>1, BoundAssumption DEF Cams
  <1>4. [cam[s] EXCEPT !.phase = @] = cam[s]
    BY <1>1 DEF Cams
  <1> QED
    BY <1>1, <1>2, <1>3, <1>4

\* camchange_count stays within its bounds when it is counted up or down.
LEMMA CountFacts ==
  ASSUME TypeOK, BoundInv, HandleInv
  PROVE  /\ thread.pc \in {"shutdown", "insert", "dec"} => count[thread.slot] - 1 \in 0 .. MaxChanges + 2
         /\ irq.pc = "inc" => count[irq.slot] + 1 \in 0 .. MaxChanges + 2
         /\ user.pc = "inc" => count[user.slot] + 1 \in 0 .. MaxChanges + 2
         /\ 1 \in 0 .. MaxChanges + 2
  <1>1. /\ \A s \in Slots : count[s] \in 0 .. MaxChanges + 2
        /\ MaxChanges \in Nat
    BY BoundAssumption DEF TypeOK
  <1>2. ASSUME NEW s \in Slots, (irq.pc = "inc" /\ irq.slot = s) \/ (user.pc = "inc" /\ user.slot = s)
        PROVE  count[s] + 1 \in 0 .. MaxChanges + 2
    BY <1>1, <1>2, SlotFacts DEF BoundInv, Coming, Resets
  <1> QED
    BY <1>1, <1>2, Parts DEF HandleInv

\* Every step keeps to the types.
LEMMA TypeStep ==
  ASSUME TypeOK, BoundInv, HandleInv, [Next]_vars
  PROVE  TypeOK'
  <1>1. CASE ThreadWake
    BY <1>1, Parts, SlotFacts DEF ThreadWake, At, TypeOK, ca, env, hist, States, Types
  <1>2. CASE ThreadLock
    BY <1>2, Parts DEF ThreadLock, At, Goto, TypeOK, ca, env, hist, States, Types
  <1>3. CASE ThreadCheck
    BY SMTT(30), <1>3, Parts, CountFacts
    DEF ThreadCheck, PollStatus, Changed, Become, At, Goto, TypeOK, ca, env, hist, States, Types
  <1>4. CASE ThreadShutdown
    BY <1>4, Parts DEF ThreadShutdown, Become, Hit, At, Goto, TypeOK, ca, env, hist, States, Types
  <1>5. CASE ThreadInsert
    BY <1>5, Parts DEF ThreadInsert, Become, At, Goto, TypeOK, ca, env, hist, States, Types
  <1>6. CASE ThreadDec
    BY <1>6, Parts, CountFacts DEF ThreadDec, At, Goto, TypeOK, ca, env, hist, States, Types
  <1>7. CASE ThreadSwitch
    <2>1. thread' \in [pc : {"reset", "waitready", "run", "unlock"}, slot : Slots, id : 0 .. MaxCams]
      BY <1>7, Parts DEF ThreadSwitch, Become, At, Goto, TypeOK
    <2>2. state' \in [Slots -> States]
      BY <1>7, Parts DEF ThreadSwitch, Become, TypeOK, States
    <2> QED
      BY <1>7, <2>1, <2>2 DEF ThreadSwitch, TypeOK, env, hist
  <1>8. CASE ThreadReset
    <2>1. cam' \in [Slots -> Cams]
      BY <1>8, Parts, CamFacts DEF ThreadReset, TypeOK
    <2> QED
      BY <1>8, <2>1, Parts DEF ThreadReset, At, Goto, TypeOK, ca, hist
  <1>9. CASE ThreadTimeout
    BY <1>9, Parts DEF ThreadTimeout, Become, At, Goto, TypeOK, ca, env, hist, States, Types
  <1>10. CASE ThreadWaitReady
    BY <1>10, Parts DEF ThreadWaitReady, At, Goto, TypeOK, ca, env, hist, States, Types
  <1>11. CASE ThreadValidate
    BY SMTT(30), <1>11, Parts
    DEF ThreadValidate, GiveUp, Become, At, Goto, TypeOK, ca, env, hist, States, Types
  <1>12. CASE ThreadWaitFr
    BY <1>12, Parts DEF ThreadWaitFr, Become, At, Goto, TypeOK, ca, env, hist, States, Types
  <1>40. CASE ThreadWaitFrOn
    BY <1>40, Parts DEF ThreadWaitFrOn, Become, At, Goto, TypeOK, ca, env, hist, States, Types
  <1>13. CASE ThreadLinkInit
    BY ZenonT(60), <1>13, Parts
    DEF ThreadLinkInit, GiveUp, Become, At, Goto, TypeOK, ca, env, hist, States, Types
  <1>14. CASE ThreadLinked
    <2>1. /\ state' \in [Slots -> States] /\ linked' \in [Slots -> 0 .. MaxCams] /\ hit' \in [Slots -> BOOLEAN]
      BY <1>14, Parts DEF ThreadLinked, Become, TypeOK, States
    <2>2. thread' \in [pc : {"unlock"}, slot : Slots, id : 0 .. MaxCams]
      <3>1. 0 \in 0 .. MaxCams
        BY BoundAssumption
      <3> QED
        BY <1>14, <3>1 DEF ThreadLinked, TypeOK
    <2> QED
      BY <1>14, <2>1, <2>2 DEF ThreadLinked, TypeOK, env
  <1>15. CASE ThreadRun
    BY <1>15, Parts DEF ThreadRun, At, Goto, TypeOK, ca, env, hist, States, Types
  <1>16. CASE ThreadRunError
    BY <1>16, Parts DEF ThreadRunError, Become, At, Goto, TypeOK, ca, env, hist, States, Types
  <1>17. CASE ThreadRunChanged
    BY <1>17, Parts, CountFacts
    DEF ThreadRunChanged, PollStatus, At, Goto, TypeOK, ca, env, hist, States, Types
  <1>18. CASE ThreadUnlock
    BY <1>18, Parts, SlotFacts DEF ThreadUnlock, At, Goto, TypeOK, ca, env, hist, States, Types
  <1>19. CASE IoReset
    BY <1>19, Parts, SlotFacts DEF IoReset, TypeOK, ca, env, hist, States, Types
  <1>20. CASE ResetLock
    BY <1>20, Parts DEF ResetLock, UserGoto, TypeOK, ca, env, hist, States, Types
  <1>21. CASE ResetShutdown
    BY SMTT(30), <1>21, Parts, SlotFacts
    DEF ResetShutdown, ResetNext, Become, Hit, UserGoto, TypeOK, ca, env, hist, States, Types
  <1>22. CASE ResetType
    BY <1>22, Parts DEF ResetType, UserGoto, TypeOK, ca, env, hist, States, Types
  <1>23. CASE ResetInc
    BY <1>23, Parts, SlotFacts, CountFacts
    DEF ResetInc, ResetNext, TypeOK, ca, env, hist, States, Types
  <1>24. CASE \E s \in Slots : IoWrite(s)
    BY <1>24, Parts DEF IoWrite, TypeOK, ca, env, hist, States, Types
  <1>25. CASE WriteLock
    BY <1>25, Parts DEF WriteLock, UserGoto, TypeOK, ca, env, hist, States, Types
  <1>26. CASE WriteData
    BY <1>26, Parts DEF WriteData, UserGoto, TypeOK, ca, env, hist, States, Types
  <1>27. CASE WriteError
    BY <1>27, Parts DEF WriteError, Become, UserGoto, TypeOK, ca, env, hist, States, Types
  <1>28. CASE \E s \in Slots : CamchangeIrq(s)
    BY <1>28, Parts DEF CamchangeIrq, TypeOK, ca, env, hist, States, Types
  <1>29. CASE CamchangeInc
    BY <1>29, Parts, CountFacts DEF CamchangeInc, TypeOK, ca, env, hist, States, Types
  <1>30. CASE \E s \in Slots : CamreadyIrq(s)
    BY <1>30, Parts DEF CamreadyIrq, TypeOK, ca, env, hist, States, Types
  <1>31. CASE CamreadySet
    BY <1>31, Parts DEF CamreadySet, TypeOK, ca, env, hist, States, Types
  <1>32. CASE \E s \in Slots, good \in BOOLEAN : Insert(s, good)
    <2>1. cam' \in [Slots -> Cams]
      <3>1. PICK s \in Slots, good \in BOOLEAN : Insert(s, good)
        BY <1>32
      <3> QED
        BY <3>1, CamFacts DEF Insert
    <2> QED
      BY <1>32, <2>1 DEF Insert, TypeOK, Types, ca
  <1>33. CASE \E s \in Slots : Remove(s)
    <2>1. cam' \in [Slots -> Cams]
      <3>1. PICK s \in Slots : Remove(s)
        BY <1>33
      <3> QED
        BY <3>1, CamFacts DEF Remove
    <2> QED
      BY <1>33, <2>1 DEF Remove, TypeOK, Types, ca, hist
  <1>34. CASE \E s \in Slots : CamReady(s)
    <2>1. cam' \in [Slots -> Cams]
      <3>1. PICK s \in Slots : CamReady(s)
        BY <1>34
      <3> QED
        BY <3>1, CamFacts DEF CamReady
    <2> QED
      BY <1>34, <2>1 DEF CamReady, TypeOK, Types, ca, hist
  <1>35. CASE UNCHANGED vars
    BY <1>35, Parts DEF vars, TypeOK, ca, env, hist, States, Types
  <1> QED
    BY <1>1, <1>2, <1>3, <1>4, <1>5, <1>6, <1>7, <1>8, <1>9, <1>10, <1>11, <1>12, <1>40, <1>13, <1>14, <1>15, <1>16, <1>17, <1>18,
       <1>19, <1>20, <1>21, <1>22, <1>23, <1>24, <1>25, <1>26, <1>27, <1>28, <1>29, <1>30, <1>31, <1>32, <1>33, <1>34, <1>35
    DEF Next, Thread, User, Irq

\* Only the holder of a lock acts inside, and only one that is free is taken.
LEMMA LockStep ==
  ASSUME TypeOK, LockInv, [Next]_vars
  PROVE  LockInv'
  <1>1. CASE ThreadWake
    BY <1>1, Parts DEF ThreadWake, At, TypeOK, LockInv, ca, env, hist
  <1>2. CASE ThreadLock
    BY <1>2, Parts DEF ThreadLock, At, Goto, TypeOK, LockInv, ca, env, hist
  <1>3. CASE ThreadCheck
    BY <1>3, Parts
    DEF ThreadCheck, PollStatus, Changed, Become, At, Goto, TypeOK, LockInv, ca, env, hist
  <1>4. CASE ThreadShutdown
    BY <1>4, Parts DEF ThreadShutdown, Become, Hit, At, Goto, TypeOK, LockInv, ca, env, hist
  <1>5. CASE ThreadInsert
    BY <1>5, Parts DEF ThreadInsert, Become, At, Goto, TypeOK, LockInv, ca, env, hist
  <1>6. CASE ThreadDec
    BY <1>6, Parts DEF ThreadDec, At, Goto, TypeOK, LockInv, ca, env, hist
  <1>7. CASE ThreadSwitch
    BY <1>7, Parts DEF ThreadSwitch, Become, At, Goto, TypeOK, LockInv, ca, env, hist
  <1>8. CASE ThreadReset
    BY <1>8, Parts DEF ThreadReset, Present, At, Goto, TypeOK, LockInv, ca, env, hist
  <1>9. CASE ThreadTimeout
    BY <1>9, Parts DEF ThreadTimeout, Become, At, Goto, TypeOK, LockInv, ca, env, hist
  <1>10. CASE ThreadWaitReady
    BY <1>10, Parts DEF ThreadWaitReady, At, Goto, TypeOK, LockInv, ca, env, hist
  <1>11. CASE ThreadValidate
    BY <1>11, Parts DEF ThreadValidate, GiveUp, Become, At, Goto, TypeOK, LockInv, ca, env, hist
  <1>12. CASE ThreadWaitFr
    BY <1>12, Parts DEF ThreadWaitFr, Become, At, Goto, TypeOK, LockInv, ca, env, hist
  <1>40. CASE ThreadWaitFrOn
    BY <1>40, Parts DEF ThreadWaitFrOn, Become, At, Goto, TypeOK, LockInv, ca, env, hist
  <1>13. CASE ThreadLinkInit
    <2>1. UNCHANGED <<lock, user>> /\ thread.pc = "switch" /\ thread'.pc \in {"link", "unlock"} /\ thread'.slot = thread.slot
      BY <1>13 DEF ThreadLinkInit, At, Goto, TypeOK
    <2> QED
      BY <2>1 DEF LockInv
  <1>14. CASE ThreadLinked
    BY <1>14, Parts DEF ThreadLinked, Become, At, Goto, TypeOK, LockInv, env
  <1>15. CASE ThreadRun
    BY <1>15, Parts DEF ThreadRun, At, Goto, TypeOK, LockInv, ca, env, hist
  <1>16. CASE ThreadRunError
    BY <1>16, Parts DEF ThreadRunError, Become, At, Goto, TypeOK, LockInv, ca, env, hist
  <1>17. CASE ThreadRunChanged
    BY <1>17, Parts DEF ThreadRunChanged, PollStatus, At, Goto, TypeOK, LockInv, ca, env, hist
  <1>18. CASE ThreadUnlock
    BY <1>18, Parts, SlotFacts DEF ThreadUnlock, At, Goto, TypeOK, LockInv, ca, env, hist
  <1>19. CASE IoReset
    BY <1>19, Parts DEF IoReset, TypeOK, LockInv, ca, env, hist
  <1>20. CASE ResetLock
    BY <1>20, Parts DEF ResetLock, UserGoto, TypeOK, LockInv, ca, env, hist
  <1>21. CASE ResetShutdown
    <2>1. CASE user'.pc = "type"
      BY <1>21, <2>1, Parts DEF ResetShutdown, ResetNext, UserGoto, TypeOK, LockInv
    <2>2. CASE user'.pc # "type"
      BY <1>21, <2>2, Parts, SlotFacts DEF ResetShutdown, ResetNext, UserGoto, TypeOK, LockInv
    <2> QED
      BY <2>1, <2>2
  <1>22. CASE ResetType
    BY <1>22, Parts DEF ResetType, UserGoto, TypeOK, LockInv, env, hist
  <1>23. CASE ResetInc
    BY <1>23, Parts, SlotFacts DEF ResetInc, ResetNext, TypeOK, LockInv, ca, env, hist
  <1>24. CASE \E s \in Slots : IoWrite(s)
    BY <1>24, Parts DEF IoWrite, TypeOK, LockInv, ca, env, hist
  <1>25. CASE WriteLock
    BY <1>25, Parts DEF WriteLock, UserGoto, TypeOK, LockInv, ca, env, hist
  <1>26. CASE WriteData
    BY <1>26, Parts DEF WriteData, UserGoto, TypeOK, LockInv, ca, env, hist
  <1>27. CASE WriteError
    BY <1>27, Parts DEF WriteError, Become, UserGoto, TypeOK, LockInv, ca, env, hist
  <1>28. CASE \E s \in Slots : CamchangeIrq(s)
    BY <1>28 DEF CamchangeIrq, LockInv, ca, env, hist
  <1>29. CASE CamchangeInc
    BY <1>29 DEF CamchangeInc, LockInv, ca, env, hist
  <1>30. CASE \E s \in Slots : CamreadyIrq(s)
    BY <1>30 DEF CamreadyIrq, LockInv, ca, env, hist
  <1>31. CASE CamreadySet
    BY <1>31 DEF CamreadySet, LockInv, ca, env, hist
  <1>32. CASE \E s \in Slots, good \in BOOLEAN : Insert(s, good)
    BY <1>32 DEF Insert, Present, LockInv, ca, env, hist
  <1>33. CASE \E s \in Slots : Remove(s)
    BY <1>33 DEF Remove, Present, LockInv, ca, env, hist
  <1>34. CASE \E s \in Slots : CamReady(s)
    BY <1>34 DEF CamReady, LockInv, ca, env, hist
  <1>35. CASE UNCHANGED vars
    BY <1>35 DEF vars, LockInv, ca, env, hist
  <1> QED
    BY <1>1, <1>2, <1>3, <1>4, <1>5, <1>6, <1>7, <1>8, <1>9, <1>10, <1>11, <1>12, <1>40, <1>13, <1>14, <1>15, <1>16, <1>17, <1>18,
       <1>19, <1>20, <1>21, <1>22, <1>23, <1>24, <1>25, <1>26, <1>27, <1>28, <1>29, <1>30, <1>31, <1>32, <1>33, <1>34, <1>35
    DEF Next, Thread, User, Irq

LEMMA ComingFacts ==
  ASSUME NEW s \in Slots
  PROVE  Coming(s) \in 0 .. 3
  BY DEF Coming

\* CA_RESET goes on to the slots behind.
LEMMA NextFacts ==
  ASSUME TypeOK, user.pc \in {"reset", "inc"}, ResetNext(user.slot), NEW s \in Slots
  PROVE  Resets(s)' => Resets(s) /\ s # user.slot
  <1> SUFFICES ASSUME Resets(s)'
               PROVE  Resets(s) /\ s # user.slot
    OBVIOUS
  <1>1. user'.pc = "lock" /\ user'.slot = user.slot + 1
    BY DEF ResetNext, Resets
  <1>2. user'.slot <= s
    BY DEF Resets
  <1>3. s \in Int /\ user.slot \in Int
    BY SlotFacts, Parts
  <1> QED
    BY <1>1, <1>2, <1>3 DEF Resets

\* What is to be counted is counted once, and the driver waits before it reports more.
LEMMA BoundStep ==
  ASSUME TypeOK, LockInv, BoundInv, HandleInv, [Next]_vars
  PROVE  BoundInv'
  <1>1. CASE ThreadWake
    BY <1>1 DEF ThreadWake, At, BoundInv, Coming, Resets, ca, env, hist, TypeOK
  <1>2. CASE ThreadLock
    BY <1>2 DEF ThreadLock, At, Goto, BoundInv, Coming, Resets, ca, env, hist, TypeOK
  <1>3. CASE ThreadCheck
    <2>1. ASSUME NEW s \in Slots
          PROVE  count'[s] + Coming(s)' <= MaxChanges + 2
      <3>1. count[s] \in Nat /\ MaxChanges \in Nat /\ count[s] + Coming(s) <= MaxChanges + 2
        BY BoundAssumption DEF TypeOK, BoundInv
      <3>2. flags => UNCHANGED count
        BY <1>3 DEF ThreadCheck, PollStatus, Changed, Become, At, Goto
      <3>3. ~flags => count'[s] <= 1 /\ count'[s] \in Nat
        BY <1>3, <3>1, Parts
        DEF ThreadCheck, PollStatus, Changed, Become, At, Goto, TypeOK, BoundInv
      <3>4. UNCHANGED <<report, irq, user>>
        BY <1>3 DEF ThreadCheck, PollStatus, Changed, Become, At, Goto, env
      <3>5. Coming(s)' = Coming(s) /\ (~flags => Coming(s) <= 1)
        BY <3>4 DEF Coming, Resets, BoundInv
      <3> QED
        BY <3>1, <3>2, <3>3, <3>5, ComingFacts, BoundAssumption
    <2>2. ~flags' => /\ irq'.pc # "inc" /\ user'.pc \notin {"type", "inc"}
                     /\ \A s \in Slots : report'[s] = "nothing" /\ count'[s] <= 1
      BY <1>3, Parts
      DEF ThreadCheck, PollStatus, Changed, Become, At, Goto, env, hist, TypeOK, BoundInv
    <2> QED
      BY <2>1, <2>2 DEF BoundInv
  <1>4. CASE ThreadShutdown
    BY <1>4
    DEF ThreadShutdown, Become, Hit, At, Goto, BoundInv, Coming, Resets, ca, env, hist, TypeOK
  <1>5. CASE ThreadInsert
    BY <1>5 DEF ThreadInsert, Become, At, Goto, BoundInv, Coming, Resets, ca, env, hist, TypeOK
  <1>6. CASE ThreadDec
    <2>1. ASSUME NEW s \in Slots
          PROVE  count'[s] + Coming(s)' <= MaxChanges + 2
      <3>1. count[s] \in Nat /\ MaxChanges \in Nat /\ count[s] + Coming(s) <= MaxChanges + 2
        BY BoundAssumption DEF TypeOK, BoundInv
      <3> QED
        BY <1>6, <3>1, Parts, SlotFacts DEF ThreadDec, At, Goto, env, hist, TypeOK, Coming, Resets
    <2>2. ~flags' => /\ irq'.pc # "inc" /\ user'.pc \notin {"type", "inc"}
                     /\ \A s \in Slots : report'[s] = "nothing" /\ count'[s] <= 1
      BY <1>6, Parts DEF ThreadDec, At, Goto, ca, env, hist, TypeOK, BoundInv
    <2> QED
      BY <2>1, <2>2 DEF BoundInv
  <1>7. CASE ThreadSwitch
    BY <1>7 DEF ThreadSwitch, Become, At, Goto, BoundInv, Coming, Resets, ca, env, hist, TypeOK
  <1>8. CASE ThreadReset
    BY <1>8 DEF ThreadReset, Present, At, Goto, BoundInv, Coming, Resets, ca, env, hist, TypeOK
  <1>9. CASE ThreadTimeout
    BY <1>9 DEF ThreadTimeout, Become, At, Goto, BoundInv, Coming, Resets, ca, env, hist, TypeOK
  <1>10. CASE ThreadWaitReady
    BY <1>10 DEF ThreadWaitReady, At, Goto, BoundInv, Coming, Resets, ca, env, hist, TypeOK
  <1>11. CASE ThreadValidate
    BY <1>11
    DEF ThreadValidate, GiveUp, Become, At, Goto, BoundInv, Coming, Resets, ca, env, hist, TypeOK
  <1>12. CASE ThreadWaitFr
    BY <1>12 DEF ThreadWaitFr, Become, At, Goto, BoundInv, Coming, Resets, ca, env, hist, TypeOK
  <1>40. CASE ThreadWaitFrOn
    BY <1>40 DEF ThreadWaitFrOn, Become, At, Goto, BoundInv, Coming, Resets, ca, env, hist, TypeOK
  <1>13. CASE ThreadLinkInit
    BY <1>13
    DEF ThreadLinkInit, GiveUp, Become, At, Goto, BoundInv, Coming, Resets, ca, env, hist, TypeOK
  <1>14. CASE ThreadLinked
    BY <1>14 DEF ThreadLinked, Become, At, Goto, BoundInv, Coming, Resets, ca, env, hist, TypeOK
  <1>15. CASE ThreadRun
    BY <1>15 DEF ThreadRun, At, Goto, BoundInv, Coming, Resets, ca, env, hist, TypeOK
  <1>16. CASE ThreadRunError
    BY <1>16 DEF ThreadRunError, Become, At, Goto, BoundInv, Coming, Resets, ca, env, hist, TypeOK
  <1>17. CASE ThreadRunChanged
    <2>1. ASSUME NEW s \in Slots
          PROVE  count'[s] + Coming(s)' <= MaxChanges + 2
      <3>1. count[s] \in Nat /\ MaxChanges \in Nat /\ count[s] + Coming(s) <= MaxChanges + 2
        BY BoundAssumption DEF TypeOK, BoundInv
      <3>2. flags => UNCHANGED count
        BY <1>17 DEF ThreadRunChanged, PollStatus, At, Goto
      <3>3. ~flags => count'[s] <= 1 /\ count'[s] \in Nat
        BY <1>17, <3>1, Parts DEF ThreadRunChanged, PollStatus, At, Goto, TypeOK, BoundInv
      <3>4. UNCHANGED <<report, irq, user>>
        BY <1>17 DEF ThreadRunChanged, PollStatus, At, Goto, env
      <3>5. Coming(s)' = Coming(s) /\ (~flags => Coming(s) <= 1)
        BY <3>4 DEF Coming, Resets, BoundInv
      <3> QED
        BY <3>1, <3>2, <3>3, <3>5, ComingFacts, BoundAssumption
    <2>2. ~flags' => /\ irq'.pc # "inc" /\ user'.pc \notin {"type", "inc"}
                     /\ \A s \in Slots : report'[s] = "nothing" /\ count'[s] <= 1
      BY <1>17, Parts DEF ThreadRunChanged, PollStatus, At, Goto, env, hist, TypeOK, BoundInv
    <2> QED
      BY <2>1, <2>2 DEF BoundInv
  <1>18. CASE ThreadUnlock
    BY <1>18 DEF ThreadUnlock, At, Goto, BoundInv, Coming, Resets, ca, env, hist, TypeOK
  <1>19. CASE IoReset
    <2>1. ASSUME NEW s \in Slots
          PROVE  count'[s] + Coming(s)' <= MaxChanges + 2
      <3>1. count[s] \in Nat /\ MaxChanges \in Nat /\ count[s] + Coming(s) <= MaxChanges + 2
        BY BoundAssumption DEF TypeOK, BoundInv
      <3> QED
        BY <1>19, <3>1, Parts, SlotFacts DEF IoReset, ca, env, hist, TypeOK, Coming, Resets
    <2>2. ~flags' => /\ irq'.pc # "inc" /\ user'.pc \notin {"type", "inc"}
                     /\ \A s \in Slots : report'[s] = "nothing" /\ count'[s] <= 1
      BY <1>19, Parts DEF IoReset, ca, env, hist, TypeOK, BoundInv
    <2> QED
      BY <2>1, <2>2 DEF BoundInv
  <1>20. CASE ResetLock
    BY <1>20 DEF ResetLock, UserGoto, BoundInv, Coming, Resets, ca, env, hist, TypeOK
  <1>21. CASE ResetShutdown
    <2>1. ASSUME NEW s \in Slots
          PROVE  count'[s] + Coming(s)' <= MaxChanges + 2
      <3>1. count[s] \in Nat /\ MaxChanges \in Nat /\ count[s] + Coming(s) <= MaxChanges + 2
        BY BoundAssumption DEF TypeOK, BoundInv
      <3>2. Resets(s)' => Resets(s)
        <4>1. CASE user' = [user EXCEPT !.pc = "type"]
          BY <1>21, <4>1 DEF ResetShutdown, TypeOK, Resets
        <4>2. CASE ResetNext(user.slot)
          BY <1>21, <4>2, NextFacts DEF ResetShutdown
        <4> QED
          BY <1>21, <4>1, <4>2 DEF ResetShutdown, UserGoto
      <3>3. UNCHANGED <<count, report, irq>>
        BY <1>21 DEF ResetShutdown, env
      <3> QED
        BY <3>1, <3>2, <3>3 DEF Coming
    <2>2. ~flags' => /\ irq'.pc # "inc" /\ user'.pc \notin {"type", "inc"}
                     /\ \A s \in Slots : report'[s] = "nothing" /\ count'[s] <= 1
      BY <1>21, Parts DEF ResetShutdown, ResetNext, Become, Hit, UserGoto, env, TypeOK, BoundInv
    <2> QED
      BY <2>1, <2>2 DEF BoundInv
  <1>22. CASE ResetType
    BY <1>22 DEF ResetType, UserGoto, BoundInv, Coming, Resets, ca, env, hist, TypeOK
  <1>23. CASE ResetInc
    <2>1. ASSUME NEW s \in Slots
          PROVE  count'[s] + Coming(s)' <= MaxChanges + 2
      <3>1. count[s] \in Nat /\ MaxChanges \in Nat /\ count[s] + Coming(s) <= MaxChanges + 2
        BY BoundAssumption DEF TypeOK, BoundInv
      <3>2. Resets(s)' => Resets(s) /\ s # user.slot
        BY <1>23, NextFacts DEF ResetInc
      <3>3. s = user.slot => Resets(s)
        BY <1>23, SlotFacts DEF ResetInc, Resets
      <3>4. /\ UNCHANGED <<report, irq>>
            /\ count'[s] = IF s = user.slot THEN count[s] + 1 ELSE count[s]
        BY <1>23, Parts DEF ResetInc, env, TypeOK
      <3> QED
        BY <3>1, <3>2, <3>3, <3>4 DEF Coming
    <2>2. ~flags' => /\ irq'.pc # "inc" /\ user'.pc \notin {"type", "inc"}
                     /\ \A s \in Slots : report'[s] = "nothing" /\ count'[s] <= 1
      BY <1>23, Parts DEF ResetInc, ResetNext, env, hist, TypeOK, BoundInv
    <2> QED
      BY <2>1, <2>2 DEF BoundInv
  <1>24. CASE \E s \in Slots : IoWrite(s)
    BY <1>24 DEF IoWrite, BoundInv, Coming, Resets, ca, env, hist, TypeOK
  <1>25. CASE WriteLock
    BY <1>25 DEF WriteLock, UserGoto, BoundInv, Coming, Resets, ca, env, hist, TypeOK
  <1>26. CASE WriteData
    BY <1>26 DEF WriteData, UserGoto, BoundInv, Coming, Resets, ca, env, hist, TypeOK
  <1>27. CASE WriteError
    BY <1>27 DEF WriteError, Become, UserGoto, BoundInv, Coming, Resets, ca, env, hist, TypeOK
  <1>28. CASE \E s \in Slots : CamchangeIrq(s)
    <2>1. ASSUME NEW s \in Slots
          PROVE  count'[s] + Coming(s)' <= MaxChanges + 2
      <3>1. count[s] \in Nat /\ MaxChanges \in Nat /\ count[s] + Coming(s) <= MaxChanges + 2
        BY BoundAssumption DEF TypeOK, BoundInv
      <3> QED
        BY <1>28, <3>1, Parts, SlotFacts DEF CamchangeIrq, hist, TypeOK, Coming, Resets
    <2>2. ~flags' => /\ irq'.pc # "inc" /\ user'.pc \notin {"type", "inc"}
                     /\ \A s \in Slots : report'[s] = "nothing" /\ count'[s] <= 1
      BY <1>28, Parts DEF CamchangeIrq, ca, env, hist, TypeOK, BoundInv
    <2> QED
      BY <2>1, <2>2 DEF BoundInv
  <1>29. CASE CamchangeInc
    <2>1. ASSUME NEW s \in Slots
          PROVE  count'[s] + Coming(s)' <= MaxChanges + 2
      <3>1. count[s] \in Nat /\ MaxChanges \in Nat /\ count[s] + Coming(s) <= MaxChanges + 2
        BY BoundAssumption DEF TypeOK, BoundInv
      <3> QED
        BY <1>29, <3>1, Parts, SlotFacts DEF CamchangeInc, env, hist, TypeOK, Coming, Resets
    <2>2. ~flags' => /\ irq'.pc # "inc" /\ user'.pc \notin {"type", "inc"}
                     /\ \A s \in Slots : report'[s] = "nothing" /\ count'[s] <= 1
      BY <1>29, Parts DEF CamchangeInc, ca, env, hist, TypeOK, BoundInv
    <2> QED
      BY <2>1, <2>2 DEF BoundInv
  <1>30. CASE \E s \in Slots : CamreadyIrq(s)
    BY <1>30 DEF CamreadyIrq, BoundInv, Coming, Resets, ca, env, hist
  <1>31. CASE CamreadySet
    BY <1>31 DEF CamreadySet, BoundInv, Coming, Resets, ca, env, hist
  <1>32. CASE \E s \in Slots, good \in BOOLEAN : Insert(s, good)
    <2>1. ASSUME NEW s \in Slots
          PROVE  count'[s] + Coming(s)' <= MaxChanges + 2
      <3>1. count[s] \in Nat /\ MaxChanges \in Nat /\ count[s] + Coming(s) <= MaxChanges + 2
        BY BoundAssumption DEF TypeOK, BoundInv
      <3> QED
        BY <1>32, <3>1, Parts, SlotFacts DEF Insert, Present, ca, TypeOK, Coming, Resets
    <2>2. ~flags' => /\ irq'.pc # "inc" /\ user'.pc \notin {"type", "inc"}
                     /\ \A s \in Slots : report'[s] = "nothing" /\ count'[s] <= 1
      BY <1>32, Parts DEF Insert, Present, ca, env, hist, TypeOK, BoundInv
    <2> QED
      BY <2>1, <2>2 DEF BoundInv
  <1>33. CASE \E s \in Slots : Remove(s)
    <2>1. ASSUME NEW s \in Slots
          PROVE  count'[s] + Coming(s)' <= MaxChanges + 2
      <3>1. count[s] \in Nat /\ MaxChanges \in Nat /\ count[s] + Coming(s) <= MaxChanges + 2
        BY BoundAssumption DEF TypeOK, BoundInv
      <3> QED
        BY <1>33, <3>1, Parts, SlotFacts DEF Remove, Present, ca, hist, TypeOK, Coming, Resets
    <2>2. ~flags' => /\ irq'.pc # "inc" /\ user'.pc \notin {"type", "inc"}
                     /\ \A s \in Slots : report'[s] = "nothing" /\ count'[s] <= 1
      BY <1>33, Parts DEF Remove, Present, ca, env, hist, TypeOK, BoundInv
    <2> QED
      BY <2>1, <2>2 DEF BoundInv
  <1>34. CASE \E s \in Slots : CamReady(s)
    BY <1>34 DEF CamReady, BoundInv, Coming, Resets, ca, env, hist
  <1>35. CASE UNCHANGED vars
    BY <1>35 DEF vars, BoundInv, Coming, Resets, ca, env, hist
  <1> QED
    BY <1>1, <1>2, <1>3, <1>4, <1>5, <1>6, <1>7, <1>8, <1>9, <1>10, <1>11, <1>12, <1>40, <1>13, <1>14, <1>15, <1>16, <1>17, <1>18,
       <1>19, <1>20, <1>21, <1>22, <1>23, <1>24, <1>25, <1>26, <1>27, <1>28, <1>29, <1>30, <1>31, <1>32, <1>33, <1>34, <1>35
    DEF Next, Thread, User, Irq

\* The thread handles a change that is counted, with the lock.
LEMMA HandleStep ==
  ASSUME TypeOK, LockInv, BoundInv, HandleInv, [Next]_vars
  PROVE  HandleInv'
  <1>1. CASE ThreadWake
    BY <1>1 DEF ThreadWake, At, TypeOK, LockInv, BoundInv, HandleInv, ca, env, hist
  <1>2. CASE ThreadLock
    BY <1>2 DEF ThreadLock, At, Goto, TypeOK, LockInv, BoundInv, HandleInv, ca, env, hist
  <1>3. CASE ThreadCheck
    BY <1>3, BoundAssumption
    DEF ThreadCheck, PollStatus, Changed, Become, At, Goto, TypeOK, LockInv, BoundInv, HandleInv,
        ca, env, hist
  <1>4. CASE ThreadShutdown
    BY <1>4
    DEF ThreadShutdown, Become, Hit, At, Goto, TypeOK, LockInv, BoundInv, HandleInv, ca, env, hist
  <1>5. CASE ThreadInsert
    BY <1>5 DEF ThreadInsert, Become, At, Goto, TypeOK, LockInv, BoundInv, HandleInv, ca, env, hist
  <1>6. CASE ThreadDec
    BY <1>6 DEF ThreadDec, At, Goto, TypeOK, LockInv, BoundInv, HandleInv, ca, env, hist
  <1>7. CASE ThreadSwitch
    BY <1>7 DEF ThreadSwitch, Become, At, Goto, TypeOK, LockInv, BoundInv, HandleInv, ca, env, hist
  <1>8. CASE ThreadReset
    BY <1>8 DEF ThreadReset, Present, At, Goto, TypeOK, LockInv, BoundInv, HandleInv, ca, env, hist
  <1>9. CASE ThreadTimeout
    BY <1>9 DEF ThreadTimeout, Become, At, Goto, TypeOK, LockInv, BoundInv, HandleInv, ca, env, hist
  <1>10. CASE ThreadWaitReady
    BY <1>10 DEF ThreadWaitReady, At, Goto, TypeOK, LockInv, BoundInv, HandleInv, ca, env, hist
  <1>11. CASE ThreadValidate
    BY <1>11
    DEF ThreadValidate, GiveUp, Become, At, Goto, TypeOK, LockInv, BoundInv, HandleInv, ca, env,
        hist
  <1>12. CASE ThreadWaitFr
    BY <1>12 DEF ThreadWaitFr, Become, At, Goto, TypeOK, LockInv, BoundInv, HandleInv, ca, env, hist
  <1>40. CASE ThreadWaitFrOn
    BY <1>40 DEF ThreadWaitFrOn, Become, At, Goto, TypeOK, LockInv, BoundInv, HandleInv, ca, env, hist
  <1>13. CASE ThreadLinkInit
    <2>1. UNCHANGED count /\ thread.pc = "switch" /\ thread'.pc \in {"link", "unlock"}
      BY <1>13 DEF ThreadLinkInit, At, Goto, TypeOK
    <2> QED
      BY <2>1 DEF HandleInv
  <1>14. CASE ThreadLinked
    BY <1>14 DEF ThreadLinked, Become, At, Goto, TypeOK, LockInv, BoundInv, HandleInv, env
  <1>15. CASE ThreadRun
    BY <1>15 DEF ThreadRun, At, Goto, TypeOK, LockInv, BoundInv, HandleInv, ca, env, hist
  <1>16. CASE ThreadRunError
    BY <1>16
    DEF ThreadRunError, Become, At, Goto, TypeOK, LockInv, BoundInv, HandleInv, ca, env, hist
  <1>17. CASE ThreadRunChanged
    BY <1>17, BoundAssumption
    DEF ThreadRunChanged, PollStatus, At, Goto, TypeOK, LockInv, BoundInv, HandleInv, ca, env, hist
  <1>18. CASE ThreadUnlock
    BY <1>18 DEF ThreadUnlock, At, Goto, TypeOK, LockInv, BoundInv, HandleInv, ca, env, hist
  <1>19. CASE IoReset
    BY <1>19 DEF IoReset, TypeOK, LockInv, BoundInv, HandleInv, ca, env, hist
  <1>20. CASE ResetLock
    BY <1>20 DEF ResetLock, UserGoto, TypeOK, LockInv, BoundInv, HandleInv, ca, env, hist
  <1>21. CASE ResetShutdown
    BY <1>21
    DEF ResetShutdown, ResetNext, Become, Hit, UserGoto, TypeOK, LockInv, BoundInv, HandleInv, ca,
        env, hist
  <1>22. CASE ResetType
    BY <1>22 DEF ResetType, UserGoto, TypeOK, LockInv, BoundInv, HandleInv, ca, env, hist
  <1>23. CASE ResetInc
    BY <1>23 DEF ResetInc, ResetNext, TypeOK, LockInv, BoundInv, HandleInv, ca, env, hist
  <1>24. CASE \E s \in Slots : IoWrite(s)
    BY <1>24 DEF IoWrite, TypeOK, LockInv, BoundInv, HandleInv, ca, env, hist
  <1>25. CASE WriteLock
    BY <1>25 DEF WriteLock, UserGoto, TypeOK, LockInv, BoundInv, HandleInv, ca, env, hist
  <1>26. CASE WriteData
    BY <1>26 DEF WriteData, UserGoto, TypeOK, LockInv, BoundInv, HandleInv, ca, env, hist
  <1>27. CASE WriteError
    BY <1>27 DEF WriteError, Become, UserGoto, TypeOK, LockInv, BoundInv, HandleInv, ca, env, hist
  <1>28. CASE \E s \in Slots : CamchangeIrq(s)
    BY <1>28 DEF CamchangeIrq, TypeOK, LockInv, BoundInv, HandleInv, ca, env, hist
  <1>29. CASE CamchangeInc
    BY <1>29 DEF CamchangeInc, TypeOK, LockInv, BoundInv, HandleInv, ca, env, hist
  <1>30. CASE \E s \in Slots : CamreadyIrq(s)
    BY <1>30 DEF CamreadyIrq, TypeOK, LockInv, BoundInv, HandleInv, ca, env, hist
  <1>31. CASE CamreadySet
    BY <1>31 DEF CamreadySet, TypeOK, LockInv, BoundInv, HandleInv, ca, env, hist
  <1>32. CASE \E s \in Slots, good \in BOOLEAN : Insert(s, good)
    BY <1>32 DEF Insert, Present, TypeOK, LockInv, BoundInv, HandleInv, ca, env, hist
  <1>33. CASE \E s \in Slots : Remove(s)
    BY <1>33 DEF Remove, Present, TypeOK, LockInv, BoundInv, HandleInv, ca, env, hist
  <1>34. CASE \E s \in Slots : CamReady(s)
    BY <1>34 DEF CamReady, TypeOK, LockInv, BoundInv, HandleInv, ca, env, hist
  <1>35. CASE UNCHANGED vars
    BY <1>35 DEF vars, TypeOK, LockInv, BoundInv, HandleInv, ca, env, hist
  <1> QED
    BY <1>1, <1>2, <1>3, <1>4, <1>5, <1>6, <1>7, <1>8, <1>9, <1>10, <1>11, <1>12, <1>40, <1>13, <1>14, <1>15, <1>16, <1>17, <1>18,
       <1>19, <1>20, <1>21, <1>22, <1>23, <1>24, <1>25, <1>26, <1>27, <1>28, <1>29, <1>30, <1>31, <1>32, <1>33, <1>34, <1>35
    DEF Next, Thread, User, Irq

\* The CAM that the link is made with.
LEMMA LinkStep ==
  ASSUME TypeOK, LockInv, LinkInv, [Next]_vars
  PROVE  LinkInv'
  <1>1. CASE ThreadWake
    BY <1>1 DEF ThreadWake, At, TypeOK, LockInv, LinkInv, Pending, Present, Changed, ca, env, hist
  <1>2. CASE ThreadLock
    BY <1>2
    DEF ThreadLock, At, Goto, TypeOK, LockInv, LinkInv, Pending, Present, Changed, ca, env, hist
  <1>3. CASE ThreadCheck
    BY <1>3
    DEF ThreadCheck, PollStatus, Changed, Become, At, Goto, TypeOK, LockInv, LinkInv, Pending,
        Present, ca, env, hist
  <1>4. CASE ThreadShutdown
    BY <1>4
    DEF ThreadShutdown, Become, Hit, At, Goto, TypeOK, LockInv, LinkInv, Pending, Present, Changed,
        ca, env, hist
  <1>5. CASE ThreadInsert
    BY <1>5
    DEF ThreadInsert, Become, At, Goto, TypeOK, LockInv, LinkInv, Pending, Present, Changed, ca,
        env, hist
  <1>6. CASE ThreadDec
    BY <1>6
    DEF ThreadDec, At, Goto, TypeOK, LockInv, LinkInv, Pending, Present, Changed, ca, env, hist
  <1>7. CASE ThreadSwitch
    BY <1>7
    DEF ThreadSwitch, Become, At, Goto, TypeOK, LockInv, LinkInv, Pending, Present, Changed, ca,
        env, hist
  <1>8. CASE ThreadReset
    BY <1>8
    DEF ThreadReset, Present, At, Goto, TypeOK, LockInv, LinkInv, Pending, Changed, ca, env, hist
  <1>9. CASE ThreadTimeout
    BY <1>9
    DEF ThreadTimeout, Become, At, Goto, TypeOK, LockInv, LinkInv, Pending, Present, Changed, ca,
        env, hist
  <1>10. CASE ThreadWaitReady
    BY <1>10
    DEF ThreadWaitReady, At, Goto, TypeOK, LockInv, LinkInv, Pending, Present, Changed, ca, env,
        hist
  <1>11. CASE ThreadValidate
    BY <1>11
    DEF ThreadValidate, GiveUp, Become, At, Goto, TypeOK, LockInv, LinkInv, Pending, Present,
        Changed, ca, env, hist
  <1>12. CASE ThreadWaitFr
    BY <1>12
    DEF ThreadWaitFr, Become, At, Goto, TypeOK, LockInv, LinkInv, Pending, Present, Changed, ca,
        env, hist
  <1>40. CASE ThreadWaitFrOn
    BY <1>40
    DEF ThreadWaitFrOn, Become, At, Goto, TypeOK, LockInv, LinkInv, Pending, Present, Changed, ca,
        env, hist
  <1>13. CASE ThreadLinkInit
    <2>1. CASE thread'.pc = "link"
      <3>1. /\ state[thread.slot] = "LINKINIT" /\ cam[thread.slot].phase \in {"raw", "ready"}
            /\ thread' = [thread EXCEPT !.pc = "link", !.id = cam[thread.slot].id]
            /\ UNCHANGED <<state, flags, cam>>
        BY <1>13, <2>1, Parts DEF ThreadLinkInit, Goto, TypeOK, env
      <3> QED
        BY <3>1, Parts DEF LinkInv, Present, TypeOK
    <2> QED
      BY <2>1 DEF LinkInv
  <1>14. CASE ThreadLinked
    BY <1>14
    DEF ThreadLinked, Become, At, Goto, TypeOK, LockInv, LinkInv, Pending, Present, Changed, env
  <1>15. CASE ThreadRun
    BY <1>15
    DEF ThreadRun, At, Goto, TypeOK, LockInv, LinkInv, Pending, Present, Changed, ca, env, hist
  <1>16. CASE ThreadRunError
    BY <1>16
    DEF ThreadRunError, Become, At, Goto, TypeOK, LockInv, LinkInv, Pending, Present, Changed, ca,
        env, hist
  <1>17. CASE ThreadRunChanged
    BY <1>17
    DEF ThreadRunChanged, PollStatus, At, Goto, TypeOK, LockInv, LinkInv, Pending, Present,
        Changed, ca, env, hist
  <1>18. CASE ThreadUnlock
    BY <1>18
    DEF ThreadUnlock, At, Goto, TypeOK, LockInv, LinkInv, Pending, Present, Changed, ca, env, hist
  <1>19. CASE IoReset
    BY <1>19 DEF IoReset, TypeOK, LockInv, LinkInv, Pending, Present, Changed, ca, env, hist
  <1>20. CASE ResetLock
    BY <1>20
    DEF ResetLock, UserGoto, TypeOK, LockInv, LinkInv, Pending, Present, Changed, ca, env, hist
  <1>21. CASE ResetShutdown
    BY <1>21
    DEF ResetShutdown, ResetNext, Become, Hit, UserGoto, TypeOK, LockInv, LinkInv, Pending,
        Present, Changed, ca, env, hist
  <1>22. CASE ResetType
    BY <1>22
    DEF ResetType, UserGoto, TypeOK, LockInv, LinkInv, Pending, Present, Changed, ca, env, hist
  <1>23. CASE ResetInc
    BY <1>23
    DEF ResetInc, ResetNext, TypeOK, LockInv, LinkInv, Pending, Present, Changed, ca, env, hist
  <1>24. CASE \E s \in Slots : IoWrite(s)
    BY <1>24 DEF IoWrite, TypeOK, LockInv, LinkInv, Pending, Present, Changed, ca, env, hist
  <1>25. CASE WriteLock
    BY <1>25
    DEF WriteLock, UserGoto, TypeOK, LockInv, LinkInv, Pending, Present, Changed, ca, env, hist
  <1>26. CASE WriteData
    BY <1>26
    DEF WriteData, UserGoto, TypeOK, LockInv, LinkInv, Pending, Present, Changed, ca, env, hist
  <1>27. CASE WriteError
    BY <1>27
    DEF WriteError, Become, UserGoto, TypeOK, LockInv, LinkInv, Pending, Present, Changed, ca, env,
        hist
  <1>28. CASE \E s \in Slots : CamchangeIrq(s)
    BY <1>28 DEF CamchangeIrq, TypeOK, LockInv, LinkInv, Pending, Present, Changed, ca, env, hist
  <1>29. CASE CamchangeInc
    BY <1>29 DEF CamchangeInc, TypeOK, LockInv, LinkInv, Pending, Present, Changed, ca, env, hist
  <1>30. CASE \E s \in Slots : CamreadyIrq(s)
    BY <1>30 DEF CamreadyIrq, TypeOK, LockInv, LinkInv, Pending, Present, Changed, ca, env, hist
  <1>31. CASE CamreadySet
    BY <1>31 DEF CamreadySet, TypeOK, LockInv, LinkInv, Pending, Present, Changed, ca, env, hist
  <1>32. CASE \E s \in Slots, good \in BOOLEAN : Insert(s, good)
    BY <1>32 DEF Insert, Present, TypeOK, LockInv, LinkInv, Pending, Changed, ca, env, hist
  <1>33. CASE \E s \in Slots : Remove(s)
    BY <1>33 DEF Remove, Present, TypeOK, LockInv, LinkInv, Pending, Changed, ca, env, hist
  <1>34. CASE \E s \in Slots : CamReady(s)
    BY <1>34 DEF CamReady, TypeOK, LockInv, LinkInv, Pending, Present, Changed, ca, env, hist
  <1>35. CASE UNCHANGED vars
    BY <1>35 DEF vars, TypeOK, LockInv, LinkInv, Pending, Present, Changed, ca, env, hist
  <1> QED
    BY <1>1, <1>2, <1>3, <1>4, <1>5, <1>6, <1>7, <1>8, <1>9, <1>10, <1>11, <1>12, <1>40, <1>13, <1>14, <1>15, <1>16, <1>17, <1>18,
       <1>19, <1>20, <1>21, <1>22, <1>23, <1>24, <1>25, <1>26, <1>27, <1>28, <1>29, <1>30, <1>31, <1>32, <1>33, <1>34, <1>35
    DEF Next, Thread, User, Irq

\* The CAM that a slot runs with.
LEMMA RunStep ==
  ASSUME TypeOK, LockInv, HandleInv, LinkInv, RunInv, [Next]_vars
  PROVE  RunInv'
  <1>1. CASE ThreadWake
    BY <1>1
    DEF ThreadWake, At, TypeOK, LockInv, HandleInv, LinkInv, RunInv, Pending, Present, Changed, ca,
        env, hist
  <1>2. CASE ThreadLock
    BY <1>2
    DEF ThreadLock, At, Goto, TypeOK, LockInv, HandleInv, LinkInv, RunInv, Pending, Present,
        Changed, ca, env, hist
  <1>3. CASE ThreadCheck
    BY <1>3
    DEF ThreadCheck, PollStatus, Changed, Become, At, Goto, TypeOK, LockInv, HandleInv, LinkInv,
        RunInv, Pending, Present, ca, env, hist
  <1>4. CASE ThreadShutdown
    BY <1>4
    DEF ThreadShutdown, Become, Hit, At, Goto, TypeOK, LockInv, HandleInv, LinkInv, RunInv,
        Pending, Present, Changed, ca, env, hist
  <1>5. CASE ThreadInsert
    BY <1>5
    DEF ThreadInsert, Become, At, Goto, TypeOK, LockInv, HandleInv, LinkInv, RunInv, Pending,
        Present, Changed, ca, env, hist
  <1>6. CASE ThreadDec
    BY <1>6
    DEF ThreadDec, At, Goto, TypeOK, LockInv, HandleInv, LinkInv, RunInv, Pending, Present,
        Changed, ca, env, hist
  <1>7. CASE ThreadSwitch
    BY <1>7
    DEF ThreadSwitch, Become, At, Goto, TypeOK, LockInv, HandleInv, LinkInv, RunInv, Pending,
        Present, Changed, ca, env, hist
  <1>8. CASE ThreadReset
    BY <1>8
    DEF ThreadReset, Present, At, Goto, TypeOK, LockInv, HandleInv, LinkInv, RunInv, Pending,
        Changed, ca, env, hist
  <1>9. CASE ThreadTimeout
    BY <1>9
    DEF ThreadTimeout, Become, At, Goto, TypeOK, LockInv, HandleInv, LinkInv, RunInv, Pending,
        Present, Changed, ca, env, hist
  <1>10. CASE ThreadWaitReady
    BY <1>10
    DEF ThreadWaitReady, At, Goto, TypeOK, LockInv, HandleInv, LinkInv, RunInv, Pending, Present,
        Changed, ca, env, hist
  <1>11. CASE ThreadValidate
    BY <1>11
    DEF ThreadValidate, GiveUp, Become, At, Goto, TypeOK, LockInv, HandleInv, LinkInv, RunInv,
        Pending, Present, Changed, ca, env, hist
  <1>12. CASE ThreadWaitFr
    BY <1>12
    DEF ThreadWaitFr, Become, At, Goto, TypeOK, LockInv, HandleInv, LinkInv, RunInv, Pending,
        Present, Changed, ca, env, hist
  <1>40. CASE ThreadWaitFrOn
    BY <1>40
    DEF ThreadWaitFrOn, Become, At, Goto, TypeOK, LockInv, HandleInv, LinkInv, RunInv, Pending,
        Present, Changed, ca, env, hist
  <1>13. CASE ThreadLinkInit
    BY <1>13
    DEF ThreadLinkInit, GiveUp, Become, At, Goto, TypeOK, LockInv, HandleInv, LinkInv, RunInv,
        Pending, Present, Changed, ca, env, hist
  <1>14. CASE ThreadLinked
    BY <1>14
    DEF ThreadLinked, Become, At, Goto, TypeOK, LockInv, HandleInv, LinkInv, RunInv, Pending,
        Present, Changed, ca, env, hist
  <1>15. CASE ThreadRun
    BY <1>15
    DEF ThreadRun, At, Goto, TypeOK, LockInv, HandleInv, LinkInv, RunInv, Pending, Present,
        Changed, ca, env, hist
  <1>16. CASE ThreadRunError
    BY <1>16
    DEF ThreadRunError, Become, At, Goto, TypeOK, LockInv, HandleInv, LinkInv, RunInv, Pending,
        Present, Changed, ca, env, hist
  <1>17. CASE ThreadRunChanged
    BY <1>17
    DEF ThreadRunChanged, PollStatus, At, Goto, TypeOK, LockInv, HandleInv, LinkInv, RunInv,
        Pending, Present, Changed, ca, env, hist
  <1>18. CASE ThreadUnlock
    BY <1>18
    DEF ThreadUnlock, At, Goto, TypeOK, LockInv, HandleInv, LinkInv, RunInv, Pending, Present,
        Changed, ca, env, hist
  <1>19. CASE IoReset
    BY <1>19
    DEF IoReset, TypeOK, LockInv, HandleInv, LinkInv, RunInv, Pending, Present, Changed, ca, env,
        hist
  <1>20. CASE ResetLock
    BY <1>20
    DEF ResetLock, UserGoto, TypeOK, LockInv, HandleInv, LinkInv, RunInv, Pending, Present,
        Changed, ca, env, hist
  <1>21. CASE ResetShutdown
    BY <1>21
    DEF ResetShutdown, ResetNext, Become, Hit, UserGoto, TypeOK, LockInv, HandleInv, LinkInv,
        RunInv, Pending, Present, Changed, ca, env, hist
  <1>22. CASE ResetType
    BY <1>22
    DEF ResetType, UserGoto, TypeOK, LockInv, HandleInv, LinkInv, RunInv, Pending, Present,
        Changed, ca, env, hist
  <1>23. CASE ResetInc
    BY <1>23
    DEF ResetInc, ResetNext, TypeOK, LockInv, HandleInv, LinkInv, RunInv, Pending, Present,
        Changed, ca, env, hist
  <1>24. CASE \E s \in Slots : IoWrite(s)
    BY <1>24
    DEF IoWrite, TypeOK, LockInv, HandleInv, LinkInv, RunInv, Pending, Present, Changed, ca, env,
        hist
  <1>25. CASE WriteLock
    BY <1>25
    DEF WriteLock, UserGoto, TypeOK, LockInv, HandleInv, LinkInv, RunInv, Pending, Present,
        Changed, ca, env, hist
  <1>26. CASE WriteData
    BY <1>26
    DEF WriteData, UserGoto, TypeOK, LockInv, HandleInv, LinkInv, RunInv, Pending, Present,
        Changed, ca, env, hist
  <1>27. CASE WriteError
    BY <1>27
    DEF WriteError, Become, UserGoto, TypeOK, LockInv, HandleInv, LinkInv, RunInv, Pending,
        Present, Changed, ca, env, hist
  <1>28. CASE \E s \in Slots : CamchangeIrq(s)
    BY <1>28
    DEF CamchangeIrq, TypeOK, LockInv, HandleInv, LinkInv, RunInv, Pending, Present, Changed, ca,
        env, hist
  <1>29. CASE CamchangeInc
    BY <1>29
    DEF CamchangeInc, TypeOK, LockInv, HandleInv, LinkInv, RunInv, Pending, Present, Changed, ca,
        env, hist
  <1>30. CASE \E s \in Slots : CamreadyIrq(s)
    BY <1>30
    DEF CamreadyIrq, TypeOK, LockInv, HandleInv, LinkInv, RunInv, Pending, Present, Changed, ca,
        env, hist
  <1>31. CASE CamreadySet
    BY <1>31
    DEF CamreadySet, TypeOK, LockInv, HandleInv, LinkInv, RunInv, Pending, Present, Changed, ca,
        env, hist
  <1>32. CASE \E s \in Slots, good \in BOOLEAN : Insert(s, good)
    BY <1>32
    DEF Insert, Present, TypeOK, LockInv, HandleInv, LinkInv, RunInv, Pending, Changed, ca, env,
        hist
  <1>33. CASE \E s \in Slots : Remove(s)
    BY <1>33
    DEF Remove, Present, TypeOK, LockInv, HandleInv, LinkInv, RunInv, Pending, Changed, ca, env,
        hist
  <1>34. CASE \E s \in Slots : CamReady(s)
    BY <1>34
    DEF CamReady, TypeOK, LockInv, HandleInv, LinkInv, RunInv, Pending, Present, Changed, ca, env,
        hist
  <1>35. CASE UNCHANGED vars
    BY <1>35
    DEF vars, TypeOK, LockInv, HandleInv, LinkInv, RunInv, Pending, Present, Changed, ca, env, hist
  <1> QED
    BY <1>1, <1>2, <1>3, <1>4, <1>5, <1>6, <1>7, <1>8, <1>9, <1>10, <1>11, <1>12, <1>40, <1>13, <1>14, <1>15, <1>16, <1>17, <1>18,
       <1>19, <1>20, <1>21, <1>22, <1>23, <1>24, <1>25, <1>26, <1>27, <1>28, <1>29, <1>30, <1>31, <1>32, <1>33, <1>34, <1>35
    DEF Next, Thread, User, Irq

-----------------------------------------------------------------------------
\* The inductive invariant of the slots.
THEOREM SlotInvariant == Spec => []SlotInv
  <1>1. Init => SlotInv
    <2> SUFFICES ASSUME Init
                 PROVE  SlotInv
      OBVIOUS
    <2>1. TypeOK
      BY SlotFacts, BoundAssumption DEF Init, TypeOK, States, Types, Cams, NoCam
    <2>2. LockInv /\ HandleInv /\ LinkInv /\ RunInv
      BY DEF Init, LockInv, HandleInv, LinkInv, RunInv
    <2>3. BoundInv
      BY BoundAssumption DEF Init, BoundInv, Coming, Resets
    <2> QED
      BY <2>1, <2>2, <2>3 DEF SlotInv
  <1>2. SlotInv /\ [Next]_vars => SlotInv'
    BY TypeStep, LockStep, BoundStep, HandleStep, LinkStep, RunStep DEF SlotInv
  <1> QED
    BY <1>1, <1>2, PTL DEF Spec

\* A slot that runs, with no change left to handle, runs with the CAM that is in it
\* and that the link was made with, and camchange_count never goes below zero.
THEOREM RunningCorrect == Spec => []RunningIsCurrent
  <1>1. SlotInv => RunningIsCurrent
    BY DEF SlotInv, RunningIsCurrent, RunInv, Pending, Changed
  <1> QED
    BY <1>1, SlotInvariant, PTL
=============================================================================
