----------------------------- MODULE DvbCaSlot ------------------------------
(***************************************************************************)
(* The slots of dvb_ca_en50221.c: how a CAM (the module in a slot) is      *)
(* noticed, reset, validated, linked and dropped again.                    *)
(*                                                                         *)
(* Four parties change slot_state.  The thread holds slot_lock while it    *)
(* looks at a slot; CA_RESET and write() take slot_lock too, but write()   *)
(* tests the state before it has it; the interrupt handlers take nothing.  *)
(* A step is one access that another party can see.                        *)
(*                                                                         *)
(* The thread's sleep ends within ca->delay whether it is woken or not, so *)
(* delay, wakeup and da_irq_supported decide how soon it looks, not what   *)
(* it finds; here a sleep may end at any time.                             *)
(***************************************************************************)
EXTENDS Integers

CONSTANTS SlotCount,    \* ca->slot_count
          MaxCams,      \* bound: CAMs put into a slot during a behaviour
          MaxChanges    \* bound: changes of one slot that wait for the thread

ASSUME SlotAssumption == SlotCount \in Nat \ {0}
ASSUME BoundAssumption == MaxCams \in Nat /\ MaxChanges \in Nat \ {0}

VARIABLES
  flags,                \* ca->flags & DVB_CA_EN50221_FLAG_IRQ_CAMCHANGE
  state, count, type,   \* per slot: slot_state, camchange_count, camchange_type
  lock,                 \* per slot: who holds slot_lock
  thread, user, irq,    \* the thread, a process with the device open, the interrupt handler
  cam, report, ready,   \* per slot: the CAM; the change, the end of reset the driver has to report
  linked, hit           \* history: the CAM the link was made with; its initialisation was cut short

ca == <<flags, state, count, type>>
env == <<cam, report, ready>>
hist == <<linked, hit>>
vars == <<ca, lock, thread, user, irq, env, hist>>

Slots == 0 .. SlotCount - 1
States == {"NONE", "UNINITIALISED", "RUNNING", "INVALID", "WAITREADY", "VALIDATE", "WAITFR", "LINKINIT"}
Types == {"REMOVED", "INSERTED"}
NoCam == [id |-> 0, phase |-> "absent", good |-> FALSE]
Cams == [id : 0 .. MaxCams, phase : {"absent", "raw", "reset", "ready"}, good : BOOLEAN]

\* Types.  camchange_count does not go below zero, which the thread would take
\* for a change that never ends.
TypeOK ==
  /\ flags \in BOOLEAN /\ state \in [Slots -> States]
  /\ count \in [Slots -> 0 .. MaxChanges + 2] /\ type \in [Slots -> Types]
  /\ lock \in [Slots -> {"none", "thread", "user"}]
  /\ thread \in [pc : {"sleep", "lock", "check", "shutdown", "insert", "dec", "switch", "reset",
                       "waitready", "link", "run", "unlock"}, slot : Slots, id : 0 .. MaxCams]
  /\ user \in [pc : {"out", "lock", "reset", "type", "inc", "write", "locked"}, slot : Slots]
  /\ irq \in [pc : {"out", "inc", "validate"}, slot : Slots]
  /\ cam \in [Slots -> Cams] /\ report \in [Slots -> Types \cup {"nothing"}]
  /\ ready \in [Slots -> BOOLEAN]
  /\ linked \in [Slots -> 0 .. MaxCams] /\ hit \in [Slots -> BOOLEAN]

Present(s) == cam[s].phase # "absent"

\* dvb_ca_en50221_init.
Init ==
  /\ flags \in BOOLEAN
  /\ state = [s \in Slots |-> "NONE"]
  /\ count = [s \in Slots |-> 0] /\ type = [s \in Slots |-> "REMOVED"]
  /\ lock = [s \in Slots |-> "none"]
  /\ thread = [pc |-> "sleep", slot |-> 0, id |-> 0]
  /\ user = [pc |-> "out", slot |-> 0] /\ irq = [pc |-> "out", slot |-> 0]
  /\ cam = [s \in Slots |-> NoCam] /\ report = [s \in Slots |-> "nothing"]
  /\ ready = [s \in Slots |-> FALSE]
  /\ linked = [s \in Slots |-> 0] /\ hit = [s \in Slots |-> FALSE]

-----------------------------------------------------------------------------
(* The CAM and the driver.  A module is exchanged by hand: the driver has   *)
(* reported one change before the next, where it is polled the thread has   *)
(* seen the empty slot before the next module is in, and no interrupt       *)
(* handler takes that long.                                                 *)

Insert(s, good) ==
  /\ ~Present(s) /\ cam[s].id < MaxCams /\ irq.pc = "out"
  /\ IF flags THEN report[s] = "nothing" /\ count[s] < MaxChanges /\ report' = [report EXCEPT ![s] = "INSERTED"]
              ELSE state[s] = "NONE" /\ UNCHANGED report
  /\ cam' = [cam EXCEPT ![s] = [id |-> @.id + 1, phase |-> "raw", good |-> good]]
  /\ hit' = [hit EXCEPT ![s] = FALSE]
  /\ UNCHANGED <<ca, lock, thread, user, irq, ready, linked>>

Remove(s) ==
  /\ Present(s)
  /\ IF flags THEN report[s] = "nothing" /\ count[s] < MaxChanges /\ report' = [report EXCEPT ![s] = "REMOVED"]
              ELSE UNCHANGED report
  /\ cam' = [cam EXCEPT ![s].phase = "absent"]
  /\ ready' = [ready EXCEPT ![s] = FALSE]
  /\ UNCHANGED <<ca, lock, thread, user, irq, hist>>

\* A CAM comes out of its reset: a good one in time, any other late or never.
CamReady(s) ==
  /\ cam[s].phase = "reset"
  /\ cam' = [cam EXCEPT ![s].phase = "ready"]
  /\ ready' = [ready EXCEPT ![s] = TRUE]
  /\ UNCHANGED <<ca, lock, thread, user, irq, report, hist>>

-----------------------------------------------------------------------------
(* Interrupts, one at a time.                                              *)

\* dvb_ca_en50221_camchange_irq: the type is stored, ...
CamchangeIrq(s) ==
  /\ irq.pc = "out" /\ report[s] # "nothing"
  /\ type' = [type EXCEPT ![s] = report[s]]
  /\ report' = [report EXCEPT ![s] = "nothing"]
  /\ irq' = [pc |-> "inc", slot |-> s]
  /\ UNCHANGED <<flags, state, count, lock, thread, user, cam, ready, hist>>

\* ... then the change is counted.
CamchangeInc ==
  /\ irq.pc = "inc"
  /\ count' = [count EXCEPT ![irq.slot] = @ + 1]
  /\ irq' = [irq EXCEPT !.pc = "out"]
  /\ UNCHANGED <<flags, state, type, lock, thread, user, env, hist>>

\* Mutant: a CAM that is ready before the thread has let go of the slot is ignored.
CamreadyIrqLocked(s) ==
  /\ irq.pc = "out" /\ ready[s]
  /\ ready' = [ready EXCEPT ![s] = FALSE]
  /\ irq' = [pc |-> IF state[s] = "WAITREADY" /\ lock[s] = "none" THEN "validate" ELSE "out", slot |-> s]
  /\ UNCHANGED <<ca, lock, thread, user, cam, report, hist>>

\* dvb_ca_en50221_camready_irq: the state is tested, ...
CamreadyIrq(s) ==
  /\ irq.pc = "out" /\ ready[s]
  /\ ready' = [ready EXCEPT ![s] = FALSE]
  /\ irq' = [pc |-> IF state[s] = "WAITREADY" THEN "validate" ELSE "out", slot |-> s]
  /\ UNCHANGED <<ca, lock, thread, user, cam, report, hist>>

\* ... and set, whatever it has become.  By then the CAM may be in another reset.
CamreadySet ==
  LET s == irq.slot
      early == cam[s].phase # "ready" \/ (thread.pc = "reset" /\ thread.slot = s) IN
  /\ irq.pc = "validate"
  /\ state' = [state EXCEPT ![s] = "VALIDATE"]
  /\ hit' = [hit EXCEPT ![s] = @ \/ early]
  /\ irq' = [irq EXCEPT !.pc = "out"]
  /\ UNCHANGED <<flags, count, type, lock, thread, user, env, linked>>

-----------------------------------------------------------------------------
(* The thread, one round over the slots.                                   *)

At(pc) == thread.pc = pc
Goto(pc) == thread' = [thread EXCEPT !.pc = pc]
Become(s, st) == state' = [state EXCEPT ![s] = st]

Settled == {"NONE", "INVALID", "RUNNING"}

\* History: the CAM in slot s is shut down, if it is this one, half initialised.
Hit(s, this) == hit' = [hit EXCEPT ![s] = @ \/ (this /\ state[s] \notin Settled)]

ThreadWake ==
  /\ At("sleep")
  /\ thread' = [thread EXCEPT !.pc = "lock", !.slot = 0]
  /\ UNCHANGED <<ca, lock, user, irq, env, hist>>

ThreadLock ==
  /\ At("lock") /\ lock[thread.slot] = "none"
  /\ lock' = [lock EXCEPT ![thread.slot] = "thread"]
  /\ Goto("check")
  /\ UNCHANGED <<ca, user, irq, env, hist>>

\* dvb_ca_en50221_check_camstatus: what it stores, for a slot that is polled.
PollStatus(s, changed) ==
  IF changed
    THEN /\ type' = [type EXCEPT ![s] = IF Present(s) THEN "INSERTED" ELSE "REMOVED"]
         /\ count' = [count EXCEPT ![s] = 1]
         /\ UNCHANGED state
    ELSE /\ IF state[s] = "WAITREADY" /\ cam[s].phase = "ready" THEN Become(s, "VALIDATE") ELSE UNCHANGED state
         /\ UNCHANGED <<type, count>>

\* Has the CAM changed?  Where there are interrupts the count says so, where there
\* are none the slot is compared with its state: no driver sets POLL_CAM_CHANGED.
Changed(s) == IF flags THEN count[s] # 0 ELSE Present(s) # (state[s] # "NONE")

ThreadCheck ==
  LET s == thread.slot IN
  /\ At("check")
  /\ IF flags THEN UNCHANGED <<state, type, count>> ELSE PollStatus(s, Changed(s))
  /\ Goto(IF Changed(s) THEN "shutdown" ELSE "switch")
  /\ UNCHANGED <<flags, lock, user, irq, env, hist>>

\* Mutant: an insertion into a slot in use is taken for one that is known.
ThreadShutdownRemoved ==
  LET s == thread.slot
      known == state[s] # "NONE" /\ type[s] = "INSERTED" IN
  /\ At("shutdown")
  /\ IF known THEN UNCHANGED state ELSE Become(s, "NONE")
  /\ Goto(IF known THEN "dec" ELSE "insert")
  /\ UNCHANGED <<flags, count, type, lock, user, irq, env, hist>>

\* dvb_ca_en50221_slot_shutdown of an old CAM.
ThreadShutdown ==
  /\ At("shutdown")
  /\ Become(thread.slot, "NONE")
  /\ Hit(thread.slot, cam[thread.slot].phase # "raw")
  /\ Goto("insert")
  /\ UNCHANGED <<flags, count, type, lock, user, irq, env, linked>>

\* If a CAM is there now, initialise it.
ThreadInsert ==
  /\ At("insert")
  /\ IF type[thread.slot] = "INSERTED" THEN Become(thread.slot, "UNINITIALISED") ELSE UNCHANGED state
  /\ Goto("dec")
  /\ UNCHANGED <<flags, count, type, lock, user, irq, env, hist>>

\* One change has been handled.
ThreadDec ==
  /\ At("dec")
  /\ count' = [count EXCEPT ![thread.slot] = @ - 1]
  /\ Goto("check")
  /\ UNCHANGED <<flags, state, type, lock, user, irq, env, hist>>

\* The state machine: what the state leads to.  Nothing is to be done in NONE and
\* INVALID.  UNINITIALISED becomes WAITREADY before the CAM is reset.
ThreadSwitch ==
  LET s == thread.slot IN
  /\ At("switch")
  /\ CASE state[s] \in {"NONE", "INVALID"} -> Goto("unlock") /\ UNCHANGED state
       [] state[s] = "UNINITIALISED" -> Goto("reset") /\ Become(s, "WAITREADY")
       [] state[s] = "WAITREADY" -> Goto("waitready") /\ UNCHANGED state
       [] state[s] = "RUNNING" -> Goto("run") /\ UNCHANGED state
       [] OTHER -> FALSE
  /\ UNCHANGED <<flags, count, type, lock, user, irq, env, hist>>

\* ca->pub->slot_reset.  What an earlier reset had to report is void.
ThreadReset ==
  LET s == thread.slot IN
  /\ At("reset")
  /\ cam' = [cam EXCEPT ![s].phase = IF Present(s) THEN "reset" ELSE @]
  /\ ready' = [ready EXCEPT ![s] = FALSE]
  /\ Goto("unlock")
  /\ UNCHANGED <<ca, lock, user, irq, report, hist>>

\* A good CAM answers, and is heard, within INIT_TIMEOUT_SECS.
Answers(s) ==
  /\ cam[s].good
  /\ \/ cam[s].phase = "reset"
     \/ ready[s]
     \/ state[s] = "VALIDATE"
     \/ irq.pc = "validate" /\ irq.slot = s

\* Mutant: a CAM that does not answer is waited for.
ThreadTimeoutNever ==
  /\ At("waitready") /\ ~Answers(thread.slot)
  /\ Goto("unlock")
  /\ UNCHANGED <<ca, lock, user, irq, env, hist>>

\* The switch went to WAITREADY; by now an interrupt may have gone on to VALIDATE.
ThreadTimeout ==
  LET s == thread.slot IN
  /\ At("waitready") /\ ~Answers(s)
  /\ Become(s, "INVALID")
  /\ Goto("unlock")
  /\ UNCHANGED <<flags, count, type, lock, user, irq, env, hist>>

ThreadWaitReady ==
  /\ At("waitready")
  /\ Goto("unlock")
  /\ UNCHANGED <<ca, lock, user, irq, env, hist>>

\* What initialisation becomes when it fails: the slot is polled once more.
GiveUp(s) == Become(s, IF ~flags /\ ~Present(s) THEN "NONE" ELSE "INVALID")

\* parse_attributes, set_configoption and the reset of the interface.  A CAM that
\* was not reset may have readable attributes all the same.
ThreadValidate ==
  LET s == thread.slot IN
  /\ At("switch") /\ state[s] = "VALIDATE"
  /\ \/ cam[s].good /\ cam[s].phase \in {"raw", "ready"} /\ Become(s, "WAITFR")
     \/ ~(cam[s].good /\ cam[s].phase = "ready") /\ GiveUp(s)
  /\ Goto("unlock")
  /\ UNCHANGED <<flags, count, type, lock, user, irq, env, hist>>

\* STATUSREG_FR, which a good CAM sets within INIT_TIMEOUT_SECS, or the time is over ...
ThreadWaitFr ==
  LET s == thread.slot IN
  /\ At("switch") /\ state[s] = "WAITFR"
  /\ Become(s, IF cam[s].good /\ cam[s].phase \in {"raw", "ready"} THEN "LINKINIT" ELSE "INVALID")
  /\ Goto("unlock")
  /\ UNCHANGED <<flags, count, type, lock, user, irq, env, hist>>

\* ... or neither yet.
ThreadWaitFrOn ==
  /\ At("switch") /\ state[thread.slot] = "WAITFR"
  /\ Goto("unlock")
  /\ UNCHANGED <<ca, lock, user, irq, env, hist>>

\* dvb_ca_en50221_link_init with the CAM that is there.
ThreadLinkInit ==
  LET s == thread.slot IN
  /\ At("switch") /\ state[s] = "LINKINIT"
  /\ \/ /\ cam[s].good /\ cam[s].phase \in {"raw", "ready"}
        /\ thread' = [thread EXCEPT !.pc = "link", !.id = cam[s].id]
        /\ UNCHANGED state
     \/ /\ ~(cam[s].good /\ cam[s].phase = "ready")
        /\ GiveUp(s) /\ Goto("unlock")
  /\ UNCHANGED <<flags, count, type, lock, user, irq, env, hist>>

\* slot_ts_enable, and the slot runs.
ThreadLinked ==
  LET s == thread.slot IN
  /\ At("link")
  /\ Become(s, "RUNNING")
  /\ linked' = [linked EXCEPT ![s] = thread.id]
  /\ hit' = [hit EXCEPT ![s] = @ /\ cam[s].phase # "ready"]
  /\ thread' = [thread EXCEPT !.pc = "unlock", !.id = 0]
  /\ UNCHANGED <<flags, count, type, lock, user, irq, env>>

\* Poll for data: dvb_ca_en50221_read_data until there is none ...
ThreadRun ==
  /\ At("run")
  /\ Goto("unlock")
  /\ UNCHANGED <<ca, lock, user, irq, env, hist>>

\* ... or the CAM sent a fragment of the wrong size, or with a read error ...
ThreadRunError ==
  /\ At("run")
  /\ Become(thread.slot, "LINKINIT")
  /\ Goto("unlock")
  /\ UNCHANGED <<flags, count, type, lock, user, irq, env, hist>>

\* ... or the CAM changed, which the next round deals with.
ThreadRunChanged ==
  LET s == thread.slot IN
  /\ At("run") /\ Changed(s) /\ ~flags
  /\ PollStatus(s, TRUE)
  /\ Goto("unlock")
  /\ UNCHANGED <<flags, lock, user, irq, env, hist>>

ThreadUnlock ==
  LET s == thread.slot IN
  /\ At("unlock")
  /\ lock' = [lock EXCEPT ![s] = "none"]
  /\ thread' = IF s + 1 < SlotCount THEN [thread EXCEPT !.pc = "lock", !.slot = s + 1]
                                    ELSE [thread EXCEPT !.pc = "sleep", !.slot = 0]
  /\ UNCHANGED <<ca, user, irq, env, hist>>

-----------------------------------------------------------------------------
(* A process: CA_RESET and write().                                        *)

UserGoto(pc) == user' = [user EXCEPT !.pc = pc]

IoReset ==
  /\ user.pc = "out" /\ \A s \in Slots : count[s] < MaxChanges
  /\ user' = [pc |-> "lock", slot |-> 0]
  /\ UNCHANGED <<ca, lock, thread, irq, env, hist>>

ResetLock ==
  /\ user.pc = "lock" /\ lock[user.slot] = "none"
  /\ lock' = [lock EXCEPT ![user.slot] = "user"]
  /\ UserGoto("reset")
  /\ UNCHANGED <<ca, thread, irq, env, hist>>

\* The lock is given back and the next slot is taken.
ResetNext(s) ==
  /\ lock' = [lock EXCEPT ![s] = "none"]
  /\ user' = IF s + 1 < SlotCount THEN [pc |-> "lock", slot |-> s + 1] ELSE [pc |-> "out", slot |-> 0]

\* slot_shutdown, unless there is nothing in the slot; polling will find the CAM.
ResetShutdown ==
  LET s == user.slot IN
  /\ user.pc = "reset"
  /\ Become(s, "NONE")
  /\ Hit(s, TRUE)
  /\ IF flags /\ state[s] # "NONE" THEN UserGoto("type") /\ UNCHANGED lock ELSE ResetNext(s)
  /\ UNCHANGED <<flags, count, type, thread, irq, env, linked>>

\* dvb_ca_en50221_camchange_irq again, this time called by the process.
ResetType ==
  /\ user.pc = "type"
  /\ type' = [type EXCEPT ![user.slot] = "INSERTED"]
  /\ UserGoto("inc")
  /\ UNCHANGED <<flags, state, count, lock, thread, irq, env, hist>>

ResetInc ==
  /\ user.pc = "inc"
  /\ count' = [count EXCEPT ![user.slot] = @ + 1]
  /\ ResetNext(user.slot)
  /\ UNCHANGED <<flags, state, type, thread, irq, env, hist>>

\* dvb_ca_en50221_io_write: the slot is seen running, without the lock ...
IoWrite(s) ==
  /\ user.pc = "out" /\ state[s] = "RUNNING"
  /\ user' = [pc |-> "write", slot |-> s]
  /\ UNCHANGED <<ca, lock, thread, irq, env, hist>>

WriteLock ==
  /\ user.pc = "write" /\ lock[user.slot] = "none"
  /\ lock' = [lock EXCEPT ![user.slot] = "user"]
  /\ UserGoto("locked")
  /\ UNCHANGED <<ca, thread, irq, env, hist>>

\* ... and write_data, with the lock, writes to whatever it is now.
WriteData ==
  /\ user.pc = "locked"
  /\ lock' = [lock EXCEPT ![user.slot] = "none"]
  /\ UserGoto("out")
  /\ UNCHANGED <<ca, thread, irq, env, hist>>

\* STATUSREG_WE: the link is to be made again.
WriteError ==
  LET s == user.slot IN
  /\ user.pc = "locked"
  /\ Become(s, "LINKINIT")
  /\ hit' = [hit EXCEPT ![s] = @ \/ state[s] # "RUNNING"]
  /\ lock' = [lock EXCEPT ![s] = "none"]
  /\ UserGoto("out")
  /\ UNCHANGED <<flags, count, type, thread, irq, env, linked>>

-----------------------------------------------------------------------------
Thread ==
  \/ ThreadWake \/ ThreadLock \/ ThreadCheck \/ ThreadShutdown \/ ThreadInsert \/ ThreadDec
  \/ ThreadSwitch \/ ThreadReset \/ ThreadTimeout \/ ThreadWaitReady \/ ThreadValidate \/ ThreadWaitFr
  \/ ThreadWaitFrOn \/ ThreadLinkInit \/ ThreadLinked \/ ThreadRun \/ ThreadRunError \/ ThreadRunChanged \/ ThreadUnlock

User ==
  \/ ResetLock \/ ResetShutdown \/ ResetType \/ ResetInc
  \/ WriteLock \/ WriteData \/ WriteError

Irq == CamchangeInc \/ CamreadySet \/ \E s \in Slots : CamchangeIrq(s) \/ CamreadyIrq(s)

Next ==
  \/ Thread
  \/ User
  \/ IoReset
  \/ \E s \in Slots : IoWrite(s)
  \/ Irq
  \/ \E s \in Slots : \/ \E good \in BOOLEAN : Insert(s, good)
                      \/ Remove(s)
                      \/ CamReady(s)

Spec == Init /\ [][Next]_vars

\* The thread is scheduled and its time-outs expire, interrupts are delivered, a
\* process inside an ioctl or a write() goes on, a mutex is given to those who
\* queue for it, and a good CAM comes out of its reset.  That anybody inserts a
\* CAM or calls CA_RESET is not assumed.
FairSpec ==
  /\ Spec
  /\ WF_vars(Thread) /\ SF_vars(ThreadLock) /\ SF_vars(ThreadTimeout) /\ SF_vars(ThreadWaitFr)
  /\ WF_vars(User) /\ SF_vars(ResetLock \/ WriteLock)
  /\ WF_vars(Irq) /\ \A s \in Slots : WF_vars(cam[s].good /\ CamReady(s))

-----------------------------------------------------------------------------
\* A change of slot s that the thread has yet to see.
Pending(s) == IF flags THEN \/ report[s] # "nothing" \/ count[s] # 0
                            \/ irq.pc = "inc" /\ irq.slot = s
                       ELSE Changed(s)

\* A slot that runs, with no change left to handle, runs with the CAM that is in
\* it and that the link was made with: no order of insertion, removal, interrupts
\* and resets leaves the data path open to a module that was never initialised, or
\* takes the count of changes below zero (TypeOK).
RunningIsCurrent ==
  /\ TypeOK
  /\ \A s \in Slots : state[s] = "RUNNING" /\ ~Pending(s) =>
                        Present(s) /\ linked[s] = cam[s].id

\* Initialisation ends: whatever a CAM does, its slot keeps coming back to one of
\* the states in which nothing is awaited.
Settles == \A s \in Slots : []<>(state[s] \in Settled)

\* A good CAM that stays in its slot comes up, and comes up again after a CA_RESET
\* or a transfer error, unless one of these hit it in the middle of its
\* initialisation: no interleaving of thread and interrupt loses the insertion or
\* the end of the CAM's reset.
ComesUp ==
  \A s \in Slots :
    <>[](Present(s) /\ cam[s].good /\ ~hit[s] /\ user.pc \in {"out", "write", "locked"})
      => []<>(state[s] = "RUNNING")
=============================================================================
