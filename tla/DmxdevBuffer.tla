---------------------------- MODULE DmxdevBuffer ----------------------------
(***************************************************************************)
(* dmxdev.c around one ring buffer: the section / TS callback that fills   *)
(* it in softirq context under dmxdev->lock, the section timeout, and the  *)
(* blocking read() that drains it without that lock.                       *)
(*                                                                         *)
(* On overflow the callback flushes the ring itself.  A flush is a read    *)
(* operation (dvb_ringbuffer.h, note 2), and the real reader may be in the *)
(* middle of one.  A step is one access to shared memory; where the code   *)
(* names pread twice with no call in between, the compiler may load it     *)
(* once or twice.  A memcpy is one step, apart from the loads before it    *)
(* and the store after it, which is enough as long as CopyUndisturbed      *)
(* holds.  As in DvbRingBuffer a byte is its position in the stream.       *)
(***************************************************************************)
EXTENDS DvbRing

CONSTANTS MaxBytes,   \* bound on the length of the demultiplexed stream
          OneShot,    \* params.sec.flags & DMX_ONESHOT
          Timeout     \* params.sec.timeout # 0

ASSUME MaxBytesAssumption == MaxBytes \in Nat \ {0}
ASSUME ModeAssumption == OneShot \in BOOLEAN /\ Timeout \in BOOLEAN

VARIABLES
  data, pread, pwrite, error,   \* dmxdevfilter->buffer
  state, timer, tpc,            \* dmxdevfilter->state, ->timer; pc of the timer function
  wpc, wbufs, wpart, wpos,      \* callback: pc, lengths left of buffer1 / buffer2, memcpy; stream position
  rpc, todo, rlen, ruse,        \* read(): pc, todo; read_user: todo, the index loaded last
  rpart, rbase,                 \* read_user: how much the next copy_to_user copies, and from where
  last                          \* history: the last byte copied to the user, 0 at first

ring == <<data, pread, pwrite, error>>
tmr == <<state, timer, tpc>>
cblocal == <<wbufs, wpart, wpos>>
rdlocal == <<todo, rlen, ruse, rpart, rbase, last>>
vars == <<ring, tmr, wpc, cblocal, rpc, rdlocal>>

None == "none"
EOVERFLOW == "EOVERFLOW"
ETIMEDOUT == "ETIMEDOUT"

free == Free(pread, pwrite)
avail == Avail(pread, pwrite)
Empty == pread = pwrite

\* The pcs of a read() inside dvb_ringbuffer_read_user.
Reading == {"split", "base", "copy", "load", "store"}

\* Types; whatever a flush does under it, copy_to_user stays inside the caller's
\* request.
TypeOK ==
  /\ data \in [Index -> 0 .. MaxBytes] /\ pread \in Index /\ pwrite \in Index
  /\ error \in {None, EOVERFLOW, ETIMEDOUT}
  /\ state \in {"GO", "DONE", "TIMEDOUT"}
  /\ timer \in {"off", "armed"} /\ tpc \in {"idle", "state", "wake"}
  /\ wpc \in {"idle", "locked", "memcpy", "flush", "seterror", "unlock", "wake"}
  /\ wbufs \in Seq(0 .. Size) /\ wpart \in 0 .. Size /\ wpos \in 1 .. MaxBytes
  /\ rpc \in {"out", "top", "wait", "asleep", "check", "avail", "len", "flush", "flushed", "clear"} \cup Reading
  /\ todo \in Nat /\ rlen \in 0 .. todo /\ ruse \in Index
  /\ rpart \in 0 .. rlen /\ rbase \in Index
  /\ last \in 0 .. MaxBytes

\* dvb_dmxdev_filter_start has set the state to GO and armed the timer.
Init ==
  /\ data = [i \in Index |-> 0] /\ pread = 0 /\ pwrite = 0 /\ error = None
  /\ state = "GO" /\ timer = (IF Timeout THEN "armed" ELSE "off") /\ tpc = "idle"
  /\ wpc = "idle" /\ wbufs = <<>> /\ wpart = 0 /\ wpos = 1
  /\ rpc = "out" /\ todo = 0 /\ rlen = 0 /\ ruse = 0 /\ rpart = 0 /\ rbase = 0
  /\ last = 0

\* wake_up(&buffer->queue): a sleeper evaluates the condition of wait_event again.
WakeUp == rpc' = IF rpc = "asleep" THEN "wait" ELSE rpc

-----------------------------------------------------------------------------
(* dvb_dmxdev_section_callback / dvb_dmxdev_ts_callback.                   *)

\* The error check and spin_lock.  With an error pending the data is dropped.
CallbackEnter(b1, b2) ==
  /\ wpc = "idle" /\ wpos + b1 + b2 <= MaxBytes
  /\ IF error # None
       THEN wpc' = "wake" /\ UNCHANGED wbufs
       ELSE wpc' = "locked" /\ wbufs' = <<b1, b2>>
  /\ UNCHANGED <<ring, tmr, wpart, wpos, rpc, rdlocal>>

\* dvb_dmxdev_buffer_write: nothing to do, no room, or dvb_ringbuffer_write.
BufferWrite(len) ==
  IF len = 0 THEN wpc' = "unlock" /\ UNCHANGED wpart
  ELSE IF len > free THEN wpc' = "flush" /\ UNCHANGED wpart
  ELSE wpc' = "memcpy" /\ wpart' = FirstPart(pwrite, len)

\* The state check and del_timer, then buffer1.  del_timer does not wait for a
\* timer function that is already running.
CallbackFirst ==
  /\ wpc = "locked" /\ Len(wbufs) = 2
  /\ IF state # "GO"
       THEN wpc' = "idle" /\ UNCHANGED <<timer, wpart>>
       ELSE timer' = "off" /\ BufferWrite(wbufs[1])
  /\ UNCHANGED <<ring, state, tpc, wbufs, wpos, rpc, rdlocal>>

\* buffer2, after buffer1 went in.
CallbackSecond ==
  /\ wpc = "locked" /\ Len(wbufs) = 1
  /\ BufferWrite(wbufs[1])
  /\ UNCHANGED <<ring, tmr, wbufs, wpos, rpc, rdlocal>>

\* One memcpy of dvb_ringbuffer_write and the store to pwrite after it.
CallbackWrite ==
  /\ wpc = "memcpy"
  /\ data' = [i \in Index |-> IF i \in pwrite .. pwrite + wpart - 1
                                THEN wpos + (i - pwrite) ELSE data[i]]
  /\ pwrite' = Advance(pwrite, wpart, wbufs[1])
  /\ wpos' = wpos + wpart
  /\ IF wpart < wbufs[1]
       THEN /\ wpart' = wbufs[1] - wpart /\ wbufs' = [wbufs EXCEPT ![1] = @ - wpart]
            /\ UNCHANGED wpc
       ELSE /\ wpart' = 0 /\ wbufs' = Tail(wbufs)
            /\ wpc' = IF Len(wbufs) = 2 THEN "locked" ELSE "unlock"
  /\ UNCHANGED <<pread, error, tmr, rpc, rdlocal>>

\* Overflow: dvb_ringbuffer_flush, by the writer ...
CallbackFlush ==
  /\ wpc = "flush"
  /\ pread' = pwrite /\ error' = None
  /\ wpc' = "seterror"
  /\ UNCHANGED <<data, pwrite, tmr, cblocal, rpc, rdlocal>>

\* Mutant: the overflow is not recorded.
CallbackForgetError ==
  /\ wpc = "seterror"
  /\ wpc' = "unlock"
  /\ UNCHANGED <<ring, tmr, cblocal, rpc, rdlocal>>

\* ... and only then buffer->error = ret.
CallbackSetError ==
  /\ wpc = "seterror"
  /\ error' = EOVERFLOW
  /\ wpc' = "unlock"
  /\ UNCHANGED <<data, pread, pwrite, tmr, cblocal, rpc, rdlocal>>

\* DMX_ONESHOT and spin_unlock.
CallbackUnlock ==
  /\ wpc = "unlock"
  /\ state' = IF OneShot THEN "DONE" ELSE state
  /\ wpc' = "wake" /\ wbufs' = <<>>
  /\ UNCHANGED <<ring, timer, tpc, wpart, wpos, rpc, rdlocal>>

\* Mutant: the wake-up is dropped.
CallbackNoWake ==
  /\ wpc = "wake"
  /\ wpc' = "idle"
  /\ UNCHANGED <<ring, tmr, cblocal, rpc, rdlocal>>

CallbackWake ==
  /\ wpc = "wake"
  /\ WakeUp
  /\ wpc' = "idle"
  /\ UNCHANGED <<ring, tmr, cblocal, rdlocal>>

-----------------------------------------------------------------------------
(* dvb_dmxdev_filter_timeout: error first, without the lock, then state.   *)

TimerFire ==
  /\ timer = "armed"
  /\ timer' = "off" /\ tpc' = "state"
  /\ error' = ETIMEDOUT
  /\ UNCHANGED <<data, pread, pwrite, state, wpc, cblocal, rpc, rdlocal>>

TimerState ==
  /\ tpc = "state" /\ wpc \in {"idle", "wake"}      \* spin_lock_irq
  /\ state' = "TIMEDOUT" /\ tpc' = "wake"
  /\ UNCHANGED <<ring, timer, wpc, cblocal, rpc, rdlocal>>

\* Mutant: the timer function wakes nobody.
TimerNoWake ==
  /\ tpc = "wake"
  /\ tpc' = "idle"
  /\ UNCHANGED <<ring, state, timer, wpc, cblocal, rpc, rdlocal>>

TimerWake ==
  /\ tpc = "wake"
  /\ WakeUp
  /\ tpc' = "idle"
  /\ UNCHANGED <<ring, state, timer, wpc, cblocal, rdlocal>>

-----------------------------------------------------------------------------
(* dvb_dmxdev_buffer_read.                                                 *)

ReadCall(n) ==
  /\ rpc = "out"
  /\ rpc' = "top" /\ todo' = n
  /\ UNCHANGED <<ring, tmr, wpc, cblocal, rlen, ruse, rpart, rbase, last>>

\* The checks of src->error: at the top, and after wait_event.
ReadError ==
  /\ rpc \in {"top", "check"} /\ error # None
  /\ rpc' = "flush"
  /\ UNCHANGED <<ring, tmr, wpc, cblocal, rdlocal>>

ReadNoError ==
  /\ rpc \in {"top", "check"} /\ error = None
  /\ rpc' = IF rpc = "top" THEN "wait" ELSE "avail"
  /\ UNCHANGED <<ring, tmr, wpc, cblocal, rdlocal>>

\* wait_event_interruptible: the condition is tested with the task on the queue.
ReadWait ==
  /\ rpc = "wait"
  /\ rpc' = IF Empty /\ error = None THEN "asleep" ELSE "check"
  /\ UNCHANGED <<ring, tmr, wpc, cblocal, rdlocal>>

\* The call ends: O_NONBLOCK on an empty ring, or a signal.
ReadGiveUp ==
  /\ \/ rpc = "wait" /\ Empty
     \/ rpc = "asleep"
  /\ rpc' = "out"
  /\ UNCHANGED <<ring, tmr, wpc, cblocal, rdlocal>>

\* dvb_ringbuffer_avail loads pwrite and pread.  This order allows what the other
\* does, where the two come from before a flush.
ReadAvail ==
  /\ rpc = "avail"
  /\ ruse' = pwrite
  /\ rpc' = "len"
  /\ UNCHANGED <<ring, tmr, wpc, cblocal, todo, rlen, rpart, rbase, last>>

\* avail = min(avail, todo), and the call of dvb_ringbuffer_read_user.
ReadLen ==
  /\ rpc = "len"
  /\ rlen' = LET n == Avail(pread, ruse) IN IF n > todo THEN todo ELSE n
  /\ rpc' = "split"
  /\ UNCHANGED <<ring, tmr, wpc, cblocal, todo, ruse, rpart, rbase, last>>

\* read_user loads pread to see whether it has to copy in two parts.
ReadSplit ==
  /\ rpc = "split"
  /\ ruse' = pread /\ rpart' = FirstPart(pread, rlen)
  /\ rpc' = "base"
  /\ UNCHANGED <<ring, tmr, wpc, cblocal, todo, rlen, rbase, last>>

\* data + pread: the index just loaded or stored, or pread loaded again.
ReadBase ==
  /\ rpc = "base"
  /\ rbase' \in {ruse, pread}
  /\ rpc' = "copy"
  /\ UNCHANGED <<ring, tmr, wpc, cblocal, todo, rlen, ruse, rpart, last>>

\* copy_to_user.  What it finds behind the array is no part of the stream.
ReadCopy ==
  /\ rpc = "copy"
  /\ last' = IF rpart = 0 THEN last
             ELSE IF rbase + rpart > Size THEN data[Size - 1] ELSE data[rbase + rpart - 1]
  /\ rpc' = IF rpart < rlen THEN "store" ELSE "load"
  /\ UNCHANGED <<ring, tmr, wpc, cblocal, todo, rlen, ruse, rpart, rbase>>

\* copy_to_user fails: -EFAULT.
ReadFault ==
  /\ rpc = "copy"
  /\ rpc' = "out" /\ rlen' = 0 /\ rpart' = 0
  /\ UNCHANGED <<ring, tmr, wpc, cblocal, todo, ruse, rbase, last>>

\* pread is loaded again after the last copy ...
ReadLoad ==
  /\ rpc = "load"
  /\ ruse' = pread
  /\ rpc' = "store"
  /\ UNCHANGED <<ring, tmr, wpc, cblocal, todo, rlen, rpart, rbase, last>>

\* ... for the store of (pread + todo) % size; the store after a first part is 0.
ReadStore ==
  /\ rpc = "store"
  /\ pread' = Advance(ruse, rpart, rlen)
  /\ todo' = todo - rpart
  /\ rlen' = rlen - rpart /\ rpart' = rlen'
  /\ ruse' = pread'
  /\ rpc' = IF rlen' > 0 THEN "base" ELSE IF todo' > 0 THEN "wait" ELSE "out"
  /\ UNCHANGED <<data, pwrite, error, tmr, wpc, cblocal, rbase, last>>

\* dvb_ringbuffer_flush on the error path: pwrite is loaded ...
ReadFlushLoad ==
  /\ rpc = "flush"
  /\ ruse' = pwrite
  /\ rpc' = "flushed"
  /\ UNCHANGED <<ring, tmr, wpc, cblocal, todo, rlen, rpart, rbase, last>>

\* Mutant: the error is cleared, the stale indices stay.
ReadNoFlush ==
  /\ rpc = "flushed"
  /\ rpc' = "clear"
  /\ UNCHANGED <<ring, tmr, wpc, cblocal, rdlocal>>

\* ... and stored to pread ...
ReadFlushStore ==
  /\ rpc = "flushed"
  /\ pread' = ruse
  /\ rpc' = "clear"
  /\ UNCHANGED <<data, pwrite, error, tmr, wpc, cblocal, rdlocal>>

\* ... then error = 0.
ReadClear ==
  /\ rpc = "clear"
  /\ error' = None /\ rpc' = "out"
  /\ UNCHANGED <<data, pread, pwrite, tmr, wpc, cblocal, rdlocal>>

-----------------------------------------------------------------------------
Callback ==
  \/ CallbackFirst \/ CallbackSecond \/ CallbackWrite \/ CallbackFlush
  \/ CallbackSetError \/ CallbackUnlock \/ CallbackWake
Timer == TimerState \/ TimerWake
Reader ==
  \/ ReadError \/ ReadNoError \/ ReadWait \/ ReadAvail \/ ReadLen
  \/ ReadSplit \/ ReadBase \/ ReadCopy \/ ReadLoad \/ ReadStore \/ ReadFlushLoad \/ ReadFlushStore \/ ReadClear

Next ==
  \/ \E b1 \in 1 .. Size - 1, b2 \in 0 .. 1 : CallbackEnter(b1, b2)
  \/ Callback
  \/ TimerFire
  \/ Timer
  \/ \E n \in 1 .. Size : ReadCall(n)
  \/ Reader
  \/ ReadGiveUp
  \/ ReadFault

Spec == Init /\ [][Next]_vars

\* A callback, a timer function and a runnable task make progress; that data
\* arrives, that a timer expires or that somebody reads is not assumed.
FairSpec ==
  /\ Spec
  /\ WF_vars(Callback) /\ WF_vars(Timer) /\ WF_vars(Reader)

-----------------------------------------------------------------------------
\* The ring holds exactly the newest avail bytes of the stream, and none that the
\* user already has.  Between a copy and its store pread lags behind.
Clean ==
  /\ \A i \in 0 .. avail - 1 : data[Wrap(pread + i)] = wpos - avail + i
  /\ rpc \notin {"load", "store"} => wpos - avail > last

\* The unlocked flush can leave pread past pwrite, so that bytes that were read
\* already, or never written, look available; but only while the overflow is
\* pending, and the read() that collects the error repairs the indices before
\* it clears it.
DirtyOnlyUnderError == ~Clean => error # None \/ wpc = "seterror"

\* The callback's memcpy never hits the bytes a concurrent copy_to_user is
\* reading, not even after it flushed the ring under that reader: the pending
\* error keeps every later callback out until the reader is done.  And whatever
\* loads of pread a flush falls between, copy_to_user goes past the end of the
\* array only while the overflow is pending.
CopyUndisturbed ==
  /\ TypeOK
  /\ rpc = "copy" =>
       /\ rbase + rpart > Size => error # None \/ wpc = "seterror"
       /\ wpc = "memcpy" => (rbase .. rbase + rpart - 1) \cap (pwrite .. pwrite + wpart - 1) = {}

\* A reader asleep in wait_event on a ring with data or an error in it has a
\* wake_up still to come from the callback or the timer that put it there.
NoLostWakeup ==
  rpc = "asleep" /\ (~Empty \/ error # None) => wpc # "idle" \/ tpc # "idle"

\* A blocked read() gets going once there is data or an error for it.
Wakes == (rpc = "asleep" /\ (~Empty \/ error # None)) ~> (rpc # "asleep")
=============================================================================
