---------------------------- MODULE DvbFrontend -----------------------------
(***************************************************************************)
(* The frontend device of dvb_frontend.c: the life of its thread, which    *)
(* open() starts and which ends by itself some time after close(); the     *)
(* semaphore that keeps thread and ioctls apart; and the queue of events   *)
(* from the thread to FE_GET_EVENT.  What the thread does in a turn is     *)
(* DvbZigzag: here it takes up a tune request and may report a change of   *)
(* status.                                                                 *)
(*                                                                         *)
(* One process has the device open for writing (no more can); one task of  *)
(* it sets parameters, another reads events.  Known races are recorded in  *)
(* the history variable faults, and the properties show that nothing else  *)
(* goes wrong.  Files opened for reading only, several frontends on one    *)
(* adapter and dvb_unregister_frontend are left out.                       *)
(***************************************************************************)
EXTENDS Integers, FiniteSets

CONSTANTS MaxEvent,   \* MAX_EVENT: one slot always stays empty
          MaxAdds,    \* bound: events
          MaxOpens    \* bound: open()

ASSUME EventAssumption == MaxEvent \in Nat \ {0, 1}
ASSUME BoundAssumption == MaxAdds \in Nat /\ MaxOpens \in Nat

VARIABLES
  writer,       \* dvbdev->writers = 0: the device is open for writing
  expired,      \* dvb_shutdown_timeout has passed since release_jiffies
  exit, thread, \* fepriv->exit; fepriv->thread # NULL
  sem,
  retune,       \* fepriv->state = FESTATE_RETUNE
  ev,           \* fepriv->events; an event's parameters and status are its number
  opc, tpc, set, get,   \* where open(), the thread, the tasks are
  last, old,    \* the thread has cleared fepriv->thread: what it does to fepriv->exit yet;
                \* so many before it have to do so
  should_stop,  \* kthread_should_stop()
  e,            \* local of add_event: the slot and the number of the event
  added, opens, \* number of events and of open()s
  seen, told,   \* history: the last event read; -EOVERFLOW was returned since
  faults        \* history: races that are not handled

vars == <<writer, expired, exit, thread, sem, retune, ev, opc, tpc, set, get, last, old,
          should_stop, e, added, opens, seen, told, faults>>

queue == <<ev, e, added, seen, told>>
tasks == <<set, get>>
device == <<writer, expired, opens>>
kthread == <<exit, thread, last, old, should_stop>>

Slots == 0 .. MaxEvent - 1

\* Where a process is while it has the semaphore.
Adding == {"add", "store", "status"}
Holders == {x \in {"thread", "set", "get", "open"} :
              \/ x = "thread" /\ tpc \in {"start", "turn"} \cup Adding
              \/ x = "set" /\ set \in {"in"} \cup Adding
              \/ x = "get" /\ get \in {"in", "read", "done"}
              \/ x = "open" /\ opc = "run"}

\* Types.
QueueOK ==
  /\ ev \in [r : Slots, w : Slots, overflow : BOOLEAN, prm : [Slots -> Nat], status : [Slots -> Nat]]
  /\ e \in [{"thread", "set"} -> [slot : Slots, num : Nat]]
  /\ added \in Nat /\ seen \in Nat /\ told \in BOOLEAN

TypeOK ==
  /\ writer \in BOOLEAN /\ expired \in BOOLEAN /\ thread \in BOOLEAN
  /\ retune \in BOOLEAN /\ last \in {"none", "test", "no", "removed"} /\ old \in Nat /\ should_stop \in BOOLEAN
  /\ exit \in {"no", "normal", "removed"} /\ sem \in 0 .. 2
  /\ opc \in {"out", "start", "check", "flush", "stop", "test", "load", "kthread_stop", "join",
             "down", "run", "assign", "dead"}
  /\ tpc \in {"none", "start", "wait", "check", "exiting", "closed", "exit", "clear", "down", "turn"} \cup Adding
  /\ set \in {"out", "down", "in"} \cup Adding
  /\ get \in {"out", "down", "in", "wait", "again", "leave", "read", "done"}
  /\ opens \in 0 .. MaxOpens /\ QueueOK
  /\ faults \subseteq {"signal", "late", "gone", "flush", "oops", "eintr"}

Init ==
  /\ writer = FALSE /\ expired = FALSE /\ exit = "no" /\ thread = FALSE  /\ sem = 1
  /\ retune = FALSE
  /\ ev = [r |-> 0, w |-> 0, overflow |-> FALSE, prm |-> [s \in Slots |-> 0], status |-> [s \in Slots |-> 0]]
  /\ opc = "out" /\ tpc = "none" /\ set = "out" /\ get = "out"
  /\ last = "none" /\ old = 0 /\ should_stop = FALSE /\ added = 0 /\ opens = 0
  /\ e = [p \in {"thread", "set"} |-> [slot |-> 0, num |-> 0]]
  /\ seen = 0 /\ told = FALSE /\ faults = {}

-----------------------------------------------------------------------------
(* dvb_frontend_open, dvb_frontend_start, dvb_frontend_stop.               *)

Open ==
  /\ ~writer /\ opc = "out" /\ exit # "removed"
  /\ opens < MaxOpens /\ opens' = opens + 1
  /\ writer' = TRUE /\ opc' = "start"
  /\ UNCHANGED <<kthread, tasks, queue, expired, sem, retune, tpc, faults>>

\* There is a thread already ...
StartLoad ==
  /\ opc = "start" /\ thread
  /\ opc' = "check"
  /\ UNCHANGED <<kthread, device, tasks, queue, sem, retune, tpc, faults>>

\* ... and fepriv->exit does not say that it is exiting.  It may have decided to, and
\* nobody will know: it has not set fepriv->exit yet, or a thread before it has set it
\* back; or it has set it back itself, and there is no thread any more.
StartAlive ==
  /\ opc = "check" /\ exit = "no"
  /\ opc' = "flush"
  /\ faults' = CASE tpc \in {"exit", "clear"} -> faults \cup {"late"}
                 [] tpc = "none" -> faults \cup {"gone"}
                 [] OTHER -> faults
  /\ UNCHANGED <<kthread, device, tasks, queue, sem, retune, tpc>>

\* It is exiting: dvb_frontend_stop.
StartStop ==
  /\ opc = "check" /\ exit # "no"
  /\ opc' = "stop"
  /\ UNCHANGED <<kthread, device, tasks, queue, sem, retune, tpc, faults>>

StopExit ==
  /\ opc = "stop"
  /\ exit' = "normal" /\ opc' = "test"
  /\ UNCHANGED <<device, tasks, queue, thread, sem, retune, tpc, last, old, should_stop, faults>>

StartNew ==
  /\ opc = "start" /\ ~thread
  /\ opc' = "down"
  /\ UNCHANGED <<kthread, device, tasks, queue, sem, retune, tpc, faults>>

StopTest ==
  /\ opc = "test"
  /\ opc' = IF thread THEN "load" ELSE "down"
  /\ UNCHANGED <<kthread, device, tasks, queue, sem, retune, tpc, faults>>

\* fepriv->thread is read again; it may be NULL by now, and the process dies.
KthreadLoad ==
  /\ opc = "load"
  /\ \/ thread /\ opc' = "kthread_stop" /\ UNCHANGED faults
     \/ ~thread /\ faults' = faults \cup {"oops"} /\ opc' = "dead"
  /\ UNCHANGED <<kthread, device, tasks, queue, sem, retune, tpc>>

\* The thread may have ended since: its task is used after it was freed.
KthreadStop ==
  /\ opc = "kthread_stop"
  /\ \/ (tpc # "none" \/ last # "none") /\ should_stop' = TRUE /\ opc' = "join" /\ UNCHANGED faults
     \/ /\ tpc = "none" /\ last = "none"
        /\ faults' = faults \cup {"oops"} /\ opc' \in {"join", "dead"}
        /\ UNCHANGED should_stop
  /\ UNCHANGED <<device, tasks, queue, exit, thread, sem, retune, tpc, last, old>>

Join ==
  /\ opc = "join" /\ tpc = "none" /\ last = "none"
  /\ sem' = 1 /\ retune' = FALSE /\ should_stop' = FALSE
  /\ opc' = "down"
  /\ UNCHANGED <<device, tasks, queue, exit, thread, tpc, last, old, faults>>

StartDown ==
  /\ opc = "down" /\ sem > 0
  /\ sem' = sem - 1
  /\ retune' = FALSE /\ exit' = "no" /\ thread' = FALSE
  /\ opc' = "run"
  /\ UNCHANGED <<device, tasks, queue, tpc, last, old, should_stop, faults>>

\* A signal: -EINTR, the device is released again.  fepriv->exit stays as
\* dvb_frontend_stop and the thread left it.
StartInterrupted ==
  /\ opc = "down"
  /\ opc' = "out" /\ writer' = FALSE
  /\ faults' = IF exit = "removed" THEN faults \cup {"eintr"} ELSE faults
  /\ UNCHANGED <<kthread, tasks, queue, expired, sem, retune, tpc, opens>>

\* kthread_run: the new thread has the semaphore now.
Run ==
  /\ opc = "run"
  /\ tpc' = "start" /\ opc' = "assign"
  /\ last' = "none" /\ old' = IF last # "none" THEN old + 1 ELSE old
  /\ UNCHANGED <<device, tasks, queue, exit, thread, sem, retune, should_stop, faults>>

RunFails ==
  /\ opc = "run"
  /\ sem' = sem + 1 /\ opc' = "out" /\ writer' = FALSE
  /\ UNCHANGED <<kthread, tasks, queue, expired, retune, tpc, opens, faults>>

Assign ==
  /\ opc = "assign"
  /\ thread' = TRUE /\ opc' = "flush"
  /\ UNCHANGED <<device, tasks, queue, exit, sem, retune, tpc, last, old, should_stop, faults>>

\* The queue is emptied without events->mtx, while the thread may be adding to it.
Flush ==
  /\ opc = "flush"
  /\ ev' = [ev EXCEPT !.r = 0, !.w = 0]
  /\ seen' = added /\ told' = FALSE
  /\ faults' = IF tpc = "store" THEN faults \cup {"flush"} ELSE faults
  /\ opc' = "out"
  /\ UNCHANGED <<kthread, device, tasks, sem, retune, tpc, e, added>>

\* dvb_frontend_release: the timeout begins anew.
Release ==
  /\ writer /\ opc = "out" /\ set = "out" /\ get = "out"
  /\ writer' = FALSE /\ expired' = FALSE
  /\ UNCHANGED <<kthread, tasks, queue, sem, retune, opc, tpc, opens, faults>>

Expire ==
  /\ ~expired /\ expired' = TRUE
  /\ UNCHANGED <<kthread, tasks, queue, writer, sem, retune, opc, tpc, opens, faults>>

-----------------------------------------------------------------------------
(* dvb_frontend_thread.                                                    *)

ThreadStart ==
  /\ tpc = "start"
  /\ sem' = sem + 1 /\ tpc' = "wait"
  /\ UNCHANGED <<kthread, device, tasks, queue, retune, opc, faults>>

\* dvb_frontend_should_wakeup, or the delay is over.
ThreadWake ==
  /\ tpc = "wait"
  /\ tpc' = "check"
  /\ UNCHANGED <<kthread, device, tasks, queue, sem, retune, opc, faults>>

ThreadCheck ==
  /\ tpc = "check"
  /\ tpc' = IF should_stop THEN "exit" ELSE "exiting"
  /\ UNCHANGED <<kthread, device, tasks, queue, sem, retune, opc, faults>>

\* Mutant: the timeout counts although the device is open.
IsExitingAlways ==
  /\ tpc = "exiting"
  /\ tpc' = IF exit # "no" THEN "exit" ELSE "closed"
  /\ UNCHANGED <<kthread, device, tasks, queue, sem, retune, opc, faults>>

\* dvb_frontend_is_exiting: fepriv->exit, then writers ...
IsExiting ==
  /\ tpc = "exiting"
  /\ tpc' = CASE exit # "no" -> "exit"
              [] exit = "no" /\ writer -> "down"
              [] exit = "no" /\ ~writer -> "closed"
  /\ UNCHANGED <<kthread, device, tasks, queue, sem, retune, opc, faults>>

\* ... and then the time.  open() may have come between them, and has found the thread
\* running.
IsExpired ==
  /\ tpc = "closed"
  /\ tpc' = IF expired THEN "exit" ELSE "down"
  /\ faults' = IF expired /\ writer /\ opc \in {"flush", "out"} THEN faults \cup {"late"} ELSE faults
  /\ UNCHANGED <<kthread, device, tasks, queue, sem, retune, opc>>

ThreadExit ==
  /\ tpc = "exit"
  /\ exit' = "normal" /\ tpc' = "clear"
  /\ UNCHANGED <<device, tasks, queue, thread, sem, retune, opc, last, old, should_stop, faults>>

\* The hardware is put to sleep, then fepriv->thread is cleared.
ThreadClear ==
  /\ tpc = "clear"
  /\ thread' = FALSE /\ tpc' = "none" /\ last' = "test"
  /\ UNCHANGED <<device, tasks, queue, exit, sem, retune, opc, old, should_stop, faults>>

\* Mutant: kthread_should_stop is not asked.
ThreadTestRemoved ==
  /\ last = "test"
  /\ last' = "removed"
  /\ UNCHANGED <<device, tasks, queue, exit, thread, sem, retune, opc, tpc, old, should_stop, faults>>

ThreadTest ==
  /\ last = "test"
  /\ last' = IF should_stop THEN "removed" ELSE "no"
  /\ UNCHANGED <<device, tasks, queue, exit, thread, sem, retune, opc, tpc, old, should_stop, faults>>

ThreadLast ==
  /\ last \in {"no", "removed"}
  /\ exit' = last /\ last' = "none"
  /\ UNCHANGED <<device, tasks, queue, thread, sem, retune, opc, tpc, old, should_stop, faults>>

\* Another thread was started meanwhile; nobody can have stopped this one.
OldLast ==
  /\ old > 0
  /\ exit' = "no" /\ old' = old - 1
  /\ UNCHANGED <<device, tasks, queue, thread, sem, retune, opc, tpc, last, should_stop, faults>>

\* Mutant: the thread does not wait for the semaphore.
ThreadDownNot ==
  /\ tpc = "down"
  /\ sem' = IF sem > 0 THEN sem - 1 ELSE 0
  /\ tpc' = "turn"
  /\ UNCHANGED <<kthread, device, tasks, queue, retune, opc, faults>>

ThreadDown ==
  /\ tpc = "down" /\ sem > 0
  /\ sem' = sem - 1 /\ tpc' = "turn"
  /\ UNCHANGED <<kthread, device, tasks, queue, retune, opc, faults>>

\* A turn of the tuning loop; the status may have changed.
ThreadTurn(changed) ==
  /\ tpc = "turn"
  /\ retune' = FALSE
  /\ IF changed THEN added < MaxAdds /\ tpc' = "add" /\ UNCHANGED sem
                ELSE tpc' = "wait" /\ sem' = sem + 1
  /\ UNCHANGED <<kthread, device, tasks, queue, opc, faults>>

-----------------------------------------------------------------------------
(* dvb_frontend_add_event, called by the thread and by FE_SET_FRONTEND.    *)

Succ(s) == (s + 1) % MaxEvent

\* Nobody has events->mtx.
MtxFree == tpc # "store" /\ set # "store"

\* Process p, at step `from` of add_event, goes on to step `to`.
Go(p, from, to) ==
  \/ p = "thread" /\ tpc = from /\ tpc' = to /\ UNCHANGED set
  \/ p = "set" /\ set = from /\ set' = to /\ UNCHANGED tpc

\* The oldest event makes room.
AddLock(p) ==
  /\ MtxFree /\ Go(p, "add", "store")
  /\ ev' = IF Succ(ev.w) = ev.r THEN [ev EXCEPT !.overflow = TRUE, !.r = Succ(@)] ELSE ev
  /\ added' = added + 1
  /\ e' = [e EXCEPT ![p] = [slot |-> ev.w, num |-> added']]
  /\ UNCHANGED <<kthread, device, sem, retune, opc, get, seen, told, faults>>

\* mutex_lock_interruptible: a signal, and there is no event.  Only a task has signals.
AddInterrupted ==
  /\ ~MtxFree /\ Go("set", "add", "out")
  /\ sem' = sem + 1
  /\ UNCHANGED <<kthread, device, queue, retune, opc, get, faults>>

AddStore(p) ==
  /\ Go(p, "store", "status")
  /\ ev' = [ev EXCEPT !.prm[e[p].slot] = e[p].num, !.w = Succ(e[p].slot)]
  /\ UNCHANGED <<kthread, device, sem, retune, opc, get, e, added, seen, told, faults>>

\* The status, without events->mtx; then the caller gives the semaphore back.
AddStatus(p) ==
  /\ Go(p, "status", IF p = "thread" THEN "wait" ELSE "out")
  /\ ev' = [ev EXCEPT !.status[e[p].slot] = e[p].num]
  /\ sem' = sem + 1
  /\ UNCHANGED <<kthread, device, retune, opc, get, e, added, seen, told, faults>>

-----------------------------------------------------------------------------
(* dvb_frontend_ioctl: FE_SET_FRONTEND.                                    *)

SetCall ==
  /\ writer /\ opc = "out" /\ exit = "no" /\ set = "out" /\ added < MaxAdds
  /\ set' = "down"
  /\ UNCHANGED <<kthread, device, queue, sem, retune, opc, tpc, get, faults>>

SetDown ==
  /\ set = "down" /\ sem > 0
  /\ sem' = sem - 1 /\ set' = "in"
  /\ UNCHANGED <<kthread, device, queue, retune, opc, tpc, get, faults>>

SetInterrupted ==
  /\ set = "down" /\ set' = "out"
  /\ UNCHANGED <<kthread, device, queue, sem, retune, opc, tpc, get, faults>>

SetFrontend ==
  /\ set = "in"
  /\ retune' = TRUE /\ set' = "add"
  /\ UNCHANGED <<kthread, device, queue, sem, opc, tpc, get, faults>>

-----------------------------------------------------------------------------
(* dvb_frontend_ioctl: FE_GET_EVENT, dvb_frontend_get_event.               *)

GetCall ==
  /\ writer /\ opc = "out" /\ exit = "no" /\ get = "out"
  /\ get' = "down"
  /\ UNCHANGED <<kthread, device, queue, sem, retune, opc, tpc, set, faults>>

GetDown ==
  /\ get = "down" /\ sem > 0
  /\ sem' = sem - 1 /\ get' = "in"
  /\ UNCHANGED <<kthread, device, queue, retune, opc, tpc, set, faults>>

GetInterrupted ==
  /\ get = "down" /\ get' = "out"
  /\ UNCHANGED <<kthread, device, queue, sem, retune, opc, tpc, set, faults>>

GetOverflow ==
  /\ get = "in" /\ ev.overflow
  /\ ev' = [ev EXCEPT !.overflow = FALSE] /\ told' = TRUE /\ get' = "done"
  /\ UNCHANGED <<kthread, device, sem, retune, opc, tpc, set, e, added, seen, faults>>

\* Mutant: get_event sleeps with the semaphore.
GetEmptyHeld(nonblock) ==
  /\ get = "in" /\ ~ev.overflow /\ ev.w = ev.r
  /\ get' = IF nonblock THEN "done" ELSE "wait"
  /\ UNCHANGED <<kthread, device, queue, sem, retune, opc, tpc, set, faults>>

GetEmpty(nonblock) ==
  /\ get = "in" /\ ~ev.overflow /\ ev.w = ev.r
  /\ \/ nonblock /\ get' = "done" /\ UNCHANGED sem
     \/ ~nonblock /\ get' = "wait" /\ sem' = sem + 1
  /\ UNCHANGED <<kthread, device, queue, retune, opc, tpc, set, faults>>

GetSome ==
  /\ get = "in" /\ ~ev.overflow /\ ev.w # ev.r
  /\ get' = "read"
  /\ UNCHANGED <<kthread, device, queue, sem, retune, opc, tpc, set, faults>>

\* wait_event_interruptible
GetWake ==
  /\ get = "wait" /\ ev.w # ev.r /\ get' = "again"
  /\ UNCHANGED <<kthread, device, queue, sem, retune, opc, tpc, set, faults>>

GetSignal ==
  /\ get = "wait" /\ get' = "leave"
  /\ UNCHANGED <<kthread, device, queue, sem, retune, opc, tpc, set, faults>>

\* Mutant: the event is read under events->mtx alone.
GetAgainNoSem ==
  /\ get \in {"again", "leave"}
  /\ sem' = IF sem > 0 THEN sem - 1 ELSE 0
  /\ get' = IF get = "again" THEN "read" ELSE "done"
  /\ UNCHANGED <<kthread, device, queue, retune, opc, tpc, set, faults>>

GetAgain ==
  /\ get \in {"again", "leave"} /\ sem > 0
  /\ sem' = sem - 1
  /\ get' = IF get = "again" THEN "read" ELSE "done"
  /\ UNCHANGED <<kthread, device, queue, retune, opc, tpc, set, faults>>

\* A signal while it waits for the semaphore: dvb_frontend_ioctl gives back what
\* it does not have.  Bound: once.
GetAgainInterrupted ==
  /\ get \in {"again", "leave"} /\ "signal" \notin faults
  /\ get' = "done" /\ faults' = faults \cup {"signal"}
  /\ UNCHANGED <<kthread, device, queue, sem, retune, opc, tpc, set>>

GetRead ==
  /\ get = "read" /\ MtxFree
  /\ ev' = [ev EXCEPT !.r = Succ(@)]
  /\ seen' = ev.prm[ev.r] /\ told' = FALSE
  /\ get' = "done"
  /\ UNCHANGED <<kthread, device, sem, retune, opc, tpc, set, e, added, faults>>

GetReadInterrupted ==
  /\ get = "read" /\ ~MtxFree /\ get' = "done"
  /\ UNCHANGED <<kthread, device, queue, sem, retune, opc, tpc, set, faults>>

GetDone ==
  /\ get = "done"
  /\ sem' = sem + 1 /\ get' = "out"
  /\ UNCHANGED <<kthread, device, queue, retune, opc, tpc, set, faults>>

-----------------------------------------------------------------------------
Next ==
  \/ Open \/ StartLoad \/ StartAlive \/ StartStop \/ StopExit \/ StopTest \/ KthreadLoad \/ KthreadStop
  \/ Join \/ StartNew \/ StartDown \/ StartInterrupted \/ Run \/ RunFails \/ Assign \/ Flush \/ Release \/ Expire
  \/ ThreadStart \/ ThreadWake \/ ThreadCheck \/ IsExiting \/ IsExpired
  \/ ThreadExit \/ ThreadClear \/ ThreadTest \/ ThreadLast \/ OldLast
  \/ ThreadDown \/ \E changed \in BOOLEAN : ThreadTurn(changed)
  \/ \E p \in {"thread", "set"} : AddLock(p) \/ AddStore(p) \/ AddStatus(p)
  \/ AddInterrupted
  \/ SetCall \/ SetDown \/ SetInterrupted \/ SetFrontend
  \/ GetCall \/ GetDown \/ GetInterrupted \/ GetOverflow \/ \E nonblock \in BOOLEAN : GetEmpty(nonblock)
  \/ GetSome \/ GetWake \/ GetSignal \/ GetAgain \/ GetAgainInterrupted \/ GetRead
  \/ GetReadInterrupted \/ GetDone

Spec == Init /\ [][Next]_vars

\* Steps that need no semaphore are taken; who waits for it is not passed over
\* for ever, as struct semaphore queues its waiters.
Fairness ==
  /\ WF_vars(StartLoad \/ StartAlive \/ StartStop \/ StopExit \/ StopTest \/ KthreadLoad \/ KthreadStop
               \/ Join \/ StartNew \/ Run \/ RunFails \/ Assign \/ Flush)
  /\ SF_vars(StartDown)
  /\ WF_vars(ThreadStart \/ ThreadWake \/ ThreadCheck \/ IsExiting \/ IsExpired \/ ThreadExit \/ ThreadClear
               \/ \E changed \in BOOLEAN : ThreadTurn(changed))
  /\ WF_vars(ThreadTest \/ ThreadLast) /\ WF_vars(OldLast)
  /\ SF_vars(ThreadDown)
  /\ \A p \in {"thread", "set"} : WF_vars(AddLock(p) \/ AddStore(p) \/ AddStatus(p))
  /\ WF_vars(SetFrontend)
  /\ WF_vars(GetOverflow \/ \E nonblock \in BOOLEAN : GetEmpty(nonblock))
  /\ WF_vars(GetSome \/ GetRead \/ GetDone)

FairSpec == Spec /\ Fairness

-----------------------------------------------------------------------------
\* The semaphore is neither lost nor given back twice, through the start and
\* the end of threads and the sema_init in dvb_frontend_stop: it is free, or
\* exactly one has it.  Only a signal that interrupts get_event breaks this.
SemBalanced ==
  /\ TypeOK
  /\ "signal" \notin faults => sem + Cardinality(Holders) = 1

\* An open device has a thread, and the thread is not about to exit, although
\* it ends by itself at a time open() does not know: is_exiting counts writers,
\* and dvb_frontend_start waits for a thread that is exiting.
ThreadRuns ==
  writer /\ opc = "out" /\ faults = {} =>
    thread /\ exit = "no" /\ tpc \notin {"none", "exit", "clear"}

\* A device that was only closed is not taken for one that was removed: when
\* the thread finds kthread_should_stop(), open() is still there to undo it.
OpensAgain ==
  exit = "removed" => opc \in {"join", "down"} \/ faults # {}

\* What FE_GET_EVENT returns is an event as it was added, its parameters with
\* its own status, later than the one before; if events between them are
\* missing, -EOVERFLOW was returned or will be.
EventsRead ==
  [][get = "read" /\ ev'.r # ev.r /\ get' = "done" /\ faults = {} =>
       /\ ev.prm[ev.r] = ev.status[ev.r]
       /\ ev.prm[ev.r] > seen
       /\ ev.prm[ev.r] = seen + 1 \/ told \/ ev.overflow]_vars

\* The thread takes up every request to tune, as long as the device is open.
Served == retune /\ writer ~> ~retune \/ ~writer \/ faults # {}
=============================================================================
