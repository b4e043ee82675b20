--------------------------- MODULE DvbCaMessages ----------------------------
(***************************************************************************)
(* Messages from the CAMs to the user in dvb_ca_en50221.c.  A message of a *)
(* connection arrives as link fragments, those of several connections      *)
(* mixed; the thread puts them into the slot's rx_buffer, and read() picks *)
(* the fragments of one message out of it.                                 *)
(*                                                                         *)
(* rx_buffer is the list of packets that DvbPktRing implements; here a     *)
(* fragment keeps its position in everything the slot has received, and    *)
(* gone says which were disposed of.  read() takes no lock: a fragment     *)
(* that goes over the end of the ring is there for it when half of it is   *)
(* (DvbPktRing!Found), with only the first of the two bytes of the link    *)
(* header or with both.  Of the slot's states (DvbCaSlot) only RUNNING     *)
(* matters.                                                                *)
(***************************************************************************)
EXTENDS Integers, Sequences, FiniteSets

CONSTANTS SlotCount,   \* ca->slot_count
          Conns,       \* connection ids
          MaxFrags,    \* bound: fragments that are received
          RxRoom       \* per slot: fragments that rx_buffer has room for (link_buf_size is per CAM)

ASSUME SlotAssumption == SlotCount \in Nat \ {0}
None == "none"
ASSUME ConnAssumption == None \notin Conns

VARIABLES
  running, open,      \* per slot: slot_state = RUNNING; ca->open
  rx, gone,           \* per slot: the fragments received; the positions disposed of
  thread,             \* the slot the thread is reading, or -1
  put,                \* read_data: how much of the latest fragment is stored, "no" if none is
  next_read_slot,
  rd,                 \* the process: io_read or io_poll
  hdr,                \* io_read: the end that the header of rd.idx shows, once read
  reset,              \* CA_RESET: the next slot, or -1
  cut,                \* history, per slot: messages of which a fragment was lost
  moved,              \* history: a slot's state or next_read_slot changed without a wake_up since the reader began to look
  torn                \* history: read() was misled by half a fragment, or open() flushed one that was being stored

ring == <<rx, gone, cut>>
looks == <<next_read_slot, rd, hdr, moved>>
vars == <<running, open, ring, thread, put, looks, reset, torn>>

Slots == 0 .. SlotCount - 1

ASSUME RoomAssumption == MaxFrags \in Nat /\ RxRoom \in [Slots -> Nat \ {0}]

Received == Cardinality({f \in Slots \X (1 .. MaxFrags) : f[2] <= Len(rx[f[1]])})

\* A fragment knows its connection, the position of the first fragment of its
\* message, and the inverse of the more-fragments bit 0x80.
Fragments == [conn : Conns, msg : 1 .. MaxFrags, last : BOOLEAN]
Message(s, m) == {p \in DOMAIN rx[s] : rx[s][p].msg = m}

\* The message of connection c that the CAM in slot s has begun, or 0.
Begun(s, c) ==
  LET ps == {p \in DOMAIN rx[s] : rx[s][p].conn = c} IN
  IF ps = {} THEN 0
  ELSE LET f == rx[s][CHOOSE p \in ps : \A q \in ps : q <= p]
       IN  IF f.last \/ f.msg \in cut[s] THEN 0 ELSE f.msg

AllBegun(s) == {Begun(s, c) : c \in Conns} \ {0}

Out == [pc |-> "out", queued |-> FALSE, woken |-> FALSE,
        slot |-> 0, seen |-> 0, conn |-> None, idx |-> 0, got |-> <<>>]

\* Types; what was disposed of had been received.
TypeOK ==
  /\ running \in [Slots -> BOOLEAN] /\ open \in BOOLEAN
  /\ rx \in [Slots -> Seq(Fragments)]
  /\ gone \in [Slots -> SUBSET (1 .. MaxFrags)] /\ cut \in [Slots -> SUBSET (1 .. MaxFrags)]
  /\ \A s \in Slots : Len(rx[s]) <= MaxFrags /\ gone[s] \subseteq DOMAIN rx[s] /\ cut[s] \subseteq DOMAIN rx[s]
  /\ thread \in Slots \cup {-1} /\ next_read_slot \in Slots
  /\ put \in {"no", "begun", "header", "payload", "whole"} /\ hdr \in {"none", "more", "last"}
  /\ reset \in -1 .. SlotCount /\ torn \in {"no", "read", "open"}
  /\ rd \in [pc : {"out", "scan", "asleep", "first", "loop", "done"},
             queued : BOOLEAN, woken : BOOLEAN, slot : Slots, seen : 0 .. SlotCount,
             conn : Conns \cup {None}, idx : 0 .. MaxFrags, got : Seq(1 .. MaxFrags)]
  /\ moved \in BOOLEAN

Init ==
  /\ running = [s \in Slots |-> FALSE] /\ open = FALSE
  /\ rx = [s \in Slots |-> <<>>] /\ gone = [s \in Slots |-> {}]
  /\ thread = -1 /\ put = "no" /\ next_read_slot = 0
  /\ rd = Out /\ hdr = "none" /\ reset = -1
  /\ cut = [s \in Slots |-> {}] /\ moved = FALSE /\ torn = "no"

WakeUp == rd' = IF rd.queued THEN [rd EXCEPT !.woken = TRUE] ELSE rd

\* dvb_ringbuffer_pkt_next: the first fragment after p that is still there, or 0.
PktNext(s, p) ==
  LET ps == {q \in DOMAIN rx[s] \ gone[s] : q > p}
  IN  IF ps = {} THEN 0 ELSE CHOOSE q \in ps : \A r \in ps : q <= r

\* Space is free again when everything before it is gone.
HasRoom(s) ==
  LET first == PktNext(s, 0)
  IN  first = 0 \/ Len(rx[s]) - first + 1 < RxRoom[s]

\* Fragment p of slot s is the latest, and n of it is stored.
Stored(s, p, n) == thread = s /\ p = Len(rx[s]) /\ put = n
Half(s, p) == Stored(s, p, "header") \/ Stored(s, p, "payload")

-----------------------------------------------------------------------------
(* The thread, in state RUNNING, and the slots.                            *)

\* The slot is found running and the device open; the slot is locked.
PollData(s) ==
  /\ thread = -1 /\ put = "no" /\ running[s] /\ open
  /\ thread' = s
  /\ UNCHANGED <<running, open, ring, put, looks, reset, torn>>

\* dvb_ca_en50221_read_data gets a fragment from the CAM.  In rx_buffer goes first the
\* length and the status of the packet: nothing is there for a reader yet.
ReadDataBegin ==
  /\ thread # -1 /\ put = "no" /\ HasRoom(thread) /\ Received < MaxFrags
  /\ put' = "begun"
  /\ UNCHANGED <<running, open, ring, thread, looks, reset, torn>>

\* Then the fragment, up to the end of the ring or whole.
ReadData(s, c, last) ==
  /\ thread = s /\ put = "begun" /\ Received < MaxFrags
  /\ LET m == IF Begun(s, c) = 0 THEN Len(rx[s]) + 1 ELSE Begun(s, c)
     IN  rx' = [rx EXCEPT ![s] = Append(@, [conn |-> c, msg |-> m, last |-> last])]
  /\ put' \in {"header", "payload", "whole"}
  /\ UNCHANGED <<running, open, gone, cut, thread, looks, reset, torn>>

\* The part behind the end of the ring.
ReadDataRest ==
  /\ put \in {"header", "payload"}
  /\ put' = "whole"
  /\ UNCHANGED <<running, open, ring, thread, looks, reset, torn>>

Latest == rx[thread][Len(rx[thread])]

\* Mutant: readers are woken by the first fragment.
ReadDataWakeFirst ==
  /\ put = "whole"
  /\ IF Latest.msg = Len(rx[thread]) THEN WakeUp ELSE UNCHANGED rd
  /\ thread' = -1 /\ put' = "no"
  /\ UNCHANGED <<running, open, ring, next_read_slot, hdr, moved, reset, torn>>

\* Readers are woken by the last fragment of a message.  Then open and the CAM are
\* looked at again.
ReadDataWake ==
  /\ put = "whole"
  /\ IF Latest.last THEN WakeUp ELSE UNCHANGED rd
  /\ thread' = -1 /\ put' = "no"
  /\ UNCHANGED <<running, open, ring, next_read_slot, hdr, moved, reset, torn>>

\* No data, no room, or the CAM does not answer.
ReadNothing ==
  /\ thread # -1 /\ put = "no"
  /\ thread' = -1
  /\ UNCHANGED <<running, open, ring, put, looks, reset, torn>>

\* The slot stops to run; the messages begun are not continued.
Stop(s) ==
  /\ running' = [running EXCEPT ![s] = FALSE]
  /\ cut' = [cut EXCEPT ![s] = @ \cup AllBegun(s)]
  /\ UNCHANGED <<open, rx, gone, put, next_read_slot, hdr, torn>>

\* A transfer error: back to LINKINIT.
ReadDataError(s) ==
  /\ thread = s /\ put = "no"
  /\ Stop(s)
  /\ thread' = -1 /\ moved' = rd.queued
  /\ UNCHANGED <<rd, reset>>

\* dvb_ca_en50221_slot_shutdown wakes the readers.  rx_buffer stays as it is.
SlotShutdown(s) ==
  /\ running[s] /\ thread # s
  /\ Stop(s)
  /\ WakeUp
  /\ UNCHANGED <<thread, moved, reset>>

\* The slot is RUNNING, again or with another CAM; rx_buffer is not new.
SlotRunning(s) ==
  /\ ~running[s]
  /\ running' = [running EXCEPT ![s] = TRUE]
  /\ moved' = rd.queued
  /\ UNCHANGED <<open, ring, thread, put, next_read_slot, rd, hdr, reset, torn>>

-----------------------------------------------------------------------------
(* open and release.                                                       *)

\* What was received while nobody read is thrown away, in the slots that run.  The thread
\* may still be storing a fragment, of which dvb_ringbuffer_flush then drops the beginning.
IoOpen ==
  /\ ~open /\ rd.pc = "out"
  /\ gone' = [s \in Slots |-> IF running[s] THEN DOMAIN rx[s] ELSE gone[s]]
  /\ cut' = [s \in Slots |-> IF running[s] THEN cut[s] \cup {rx[s][p].msg : p \in DOMAIN rx[s] \ gone[s]} ELSE cut[s]]
  /\ open' = TRUE
  /\ torn' = IF put \in {"begun", "header", "payload"} THEN "open" ELSE torn
  /\ UNCHANGED <<running, rx, thread, put, looks, reset>>

IoRelease ==
  /\ open /\ rd.pc = "out" /\ reset = -1
  /\ open' = FALSE
  /\ UNCHANGED <<running, ring, thread, put, looks, reset, torn>>

\* CA_RESET shuts the slots down one after the other, those without a CAM excepted, with
\* each one's slot_lock held, while others read.
IoReset ==
  /\ open /\ reset = -1
  /\ reset' = 0
  /\ UNCHANGED <<running, open, ring, thread, put, looks, torn>>

ResetSlot ==
  /\ reset \in Slots /\ thread # reset
  /\ \/ /\ running[reset]
        /\ Stop(reset) /\ WakeUp
     \/ /\ ~running[reset]
        /\ WakeUp \/ UNCHANGED rd
        /\ UNCHANGED <<running, open, ring, put, next_read_slot, hdr, torn>>
  /\ reset' = reset + 1
  /\ UNCHANGED <<thread, moved>>

\* Then the next look begins at slot 0.
ResetEnd ==
  /\ reset = SlotCount
  /\ next_read_slot' = 0 /\ moved' = rd.queued
  /\ reset' = -1
  /\ UNCHANGED <<running, open, ring, thread, put, rd, hdr, torn>>

-----------------------------------------------------------------------------
(* dvb_ca_en50221_io_read_condition: the slots in turn, from next_read_slot.*)
(* The first fragment found anywhere decides which connection is looked    *)
(* for, in its slot and in those after it.                                 *)

Connection(s, c) == IF c = None /\ PktNext(s, 0) # 0 THEN rx[s][PktNext(s, 0)].conn ELSE c

Complete(s, c) == \E p \in DOMAIN rx[s] \ gone[s] : rx[s][p].conn = c /\ rx[s][p].last

\* Mutant: the last fragment of any connection will do.
FindsAny(s, c, end) == \E p \in DOMAIN rx[s] \ gone[s] : c # None /\ rx[s][p].last

\* The same as the reader sees it: of a fragment of which only the first byte is stored,
\* the second byte of the link header is what was there before (end).
Finds(s, c, end) ==
  \E p \in DOMAIN rx[s] \ gone[s] :
    rx[s][p].conn = c /\ (IF Stored(s, p, "header") THEN end ELSE rx[s][p].last)

Misled(s, end) == Stored(s, Len(rx[s]), "header") /\ Latest.last # end

\* A new call, or another turn of wait_event.
Scan(r) == [r EXCEPT !.pc = "scan", !.slot = next_read_slot, !.seen = 0, !.conn = None, !.woken = FALSE]

Call ==
  /\ open /\ rd.pc = "out"
  /\ rd' = Scan(Out)
  /\ UNCHANGED <<running, open, ring, thread, put, next_read_slot, hdr, reset, moved, torn>>

\* A slot that does not run is skipped.  When a message is found, poll() returns and
\* read() goes on.
ScanSlot ==
  \E end \in BOOLEAN :
    LET s == rd.slot
        c == IF running[s] THEN Connection(s, rd.conn) ELSE rd.conn
        found == running[s] /\ Finds(s, c, end)
        following == (s + 1) % SlotCount IN
    /\ rd.pc = "scan" /\ rd.seen < SlotCount
    /\ IF found
         THEN /\ next_read_slot' = following /\ moved' = FALSE
              /\ rd' \in {Out, [Out EXCEPT !.pc = "first", !.slot = s]}
              /\ torn' = IF Misled(s, end) /\ ~Complete(s, c) THEN "read" ELSE torn
         ELSE /\ UNCHANGED <<next_read_slot, moved, torn>>
              /\ rd' = [rd EXCEPT !.slot = following, !.seen = @ + 1, !.conn = c]
    /\ UNCHANGED <<running, open, ring, thread, put, hdr, reset>>

\* Nothing found.  The process is on the wait queue from now on and looks again, then
\* sleeps, in read() or in the poll() system call; a wake-up between keeps it from sleeping.
ScanEnd ==
  /\ rd.pc = "scan" /\ rd.seen = SlotCount
  /\ next_read_slot' = rd.slot
  /\ IF rd.queued /\ ~rd.woken
       THEN rd' = [rd EXCEPT !.pc = "asleep", !.conn = None, !.seen = 0] /\ UNCHANGED moved
       ELSE rd' = [Scan(rd) EXCEPT !.slot = rd.slot, !.queued = TRUE] /\ moved' = FALSE
  /\ UNCHANGED <<running, open, ring, thread, put, hdr, reset, torn>>

Wake ==
  /\ rd.pc = "asleep" /\ rd.woken
  /\ rd' = Scan(rd)
  /\ moved' = FALSE
  /\ UNCHANGED <<running, open, ring, thread, put, next_read_slot, hdr, reset, torn>>

\* O_NONBLOCK after the first look, a signal, or poll's timeout.
GiveUp ==
  /\ \/ rd.pc = "scan" /\ rd.seen = SlotCount /\ ~rd.queued
     \/ rd.pc = "asleep"
  /\ next_read_slot' = IF rd.pc = "scan" THEN rd.slot ELSE next_read_slot
  /\ rd' = Out /\ moved' = FALSE
  /\ UNCHANGED <<running, open, ring, thread, put, hdr, reset, torn>>

-----------------------------------------------------------------------------
(* dvb_ca_en50221_io_read, once it has a slot.  It looks for the connection *)
(* of the first fragment in the slot, which it determines anew.             *)

ReadFirst ==
  /\ rd.pc = "first"
  /\ rd' = [rd EXCEPT !.pc = "loop", !.idx = PktNext(rd.slot, 0), !.conn = Connection(rd.slot, None)]
  /\ UNCHANGED <<running, open, ring, thread, put, next_read_slot, hdr, reset, moved, torn>>

Mine == rd.idx # 0 /\ rx[rd.slot][rd.idx].conn = rd.conn

\* A fragment of another connection stays where it is.
ReadSkip ==
  /\ rd.pc = "loop" /\ rd.idx # 0 /\ ~Mine
  /\ rd' = [rd EXCEPT !.idx = PktNext(rd.slot, rd.idx)]
  /\ UNCHANGED <<running, open, ring, thread, put, next_read_slot, hdr, reset, moved, torn>>

\* One of ours: its link header, the second byte of which may not be there yet.
ReadHdr ==
  LET s == rd.slot
      p == rd.idx
      end == IF rx[s][p].last THEN "last" ELSE "more" IN
  /\ rd.pc = "loop" /\ Mine /\ hdr = "none"
  /\ hdr' \in IF Stored(s, p, "header") THEN {"more", "last"} ELSE {end}
  /\ torn' = IF hdr' = end THEN torn ELSE "read"
  /\ UNCHANGED <<running, open, ring, thread, put, next_read_slot, rd, reset, moved>>

\* Mutant: copying stops at a fragment of another connection.
ReadFragmentStop ==
  LET s == rd.slot
      p == rd.idx IN
  /\ rd.pc = "loop" /\ Mine /\ hdr # "none"
  /\ gone' = [gone EXCEPT ![s] = @ \cup {p}]
  /\ rd' = [rd EXCEPT !.got = Append(@, p), !.idx = PktNext(s, p),
                      !.pc = IF hdr = "last" \/ (PktNext(s, p) # 0 /\ rx[s][PktNext(s, p)].conn # rd.conn) THEN "done" ELSE "loop"]
  /\ hdr' = "none"
  /\ torn' = IF Half(s, p) THEN "read" ELSE torn
  /\ UNCHANGED <<running, open, rx, cut, thread, put, next_read_slot, reset, moved>>

\* It is copied to the user, with what was in the ring where it is not stored yet, and
\* disposed of.
ReadFragment ==
  LET s == rd.slot
      p == rd.idx IN
  /\ rd.pc = "loop" /\ Mine /\ hdr # "none"
  /\ gone' = [gone EXCEPT ![s] = @ \cup {p}]
  /\ rd' = [rd EXCEPT !.got = Append(@, p), !.idx = PktNext(s, p),
                      !.pc = IF hdr = "last" THEN "done" ELSE "loop"]
  /\ hdr' = "none"
  /\ torn' = IF Half(s, p) THEN "read" ELSE torn
  /\ UNCHANGED <<running, open, rx, cut, thread, put, next_read_slot, reset, moved>>

\* The messages that read() has taken fragments of are lost.
Lose == cut' = [cut EXCEPT ![rd.slot] = @ \cup {rx[rd.slot][rd.got[i]].msg : i \in DOMAIN rd.got}]

\* "BUG: read packet ended before last_fragment encountered": -EIO.
ReadBug ==
  /\ rd.pc = "loop" /\ rd.idx = 0
  /\ Lose
  /\ rd' = Out
  /\ UNCHANGED <<running, open, rx, gone, thread, put, next_read_slot, hdr, reset, moved, torn>>

\* copy_to_user fails on a fragment, which stays, or on the header: -EFAULT.
ReadFault ==
  /\ rd.pc = "done" \/ (rd.pc = "loop" /\ hdr # "none")
  /\ Lose
  /\ rd' = Out /\ hdr' = "none"
  /\ UNCHANGED <<running, open, rx, gone, thread, put, next_read_slot, reset, moved, torn>>

ReadReturn ==
  /\ rd.pc = "done"
  /\ rd' = Out
  /\ UNCHANGED <<running, open, ring, thread, put, next_read_slot, hdr, reset, moved, torn>>

-----------------------------------------------------------------------------
Next ==
  \/ \E s \in Slots : \/ PollData(s)
                      \/ \E c \in Conns, last \in BOOLEAN : ReadData(s, c, last)
                      \/ ReadDataError(s)
                      \/ SlotShutdown(s)
                      \/ SlotRunning(s)
  \/ ReadDataBegin \/ ReadDataRest \/ ReadDataWake \/ ReadNothing
  \/ IoOpen
  \/ IoRelease
  \/ IoReset \/ ResetSlot \/ ResetEnd
  \/ Call
  \/ ScanSlot \/ ScanEnd \/ Wake \/ GiveUp
  \/ ReadFirst \/ ReadSkip \/ ReadHdr \/ ReadFragment \/ ReadBug \/ ReadFault \/ ReadReturn

Spec == Init /\ [][Next]_vars

-----------------------------------------------------------------------------
Got == {rd.got[i] : i \in DOMAIN rd.got}

\* What read() returns is one message: all its fragments and no other, in order,
\* however the connections mix.  Only a message that lost a fragment (to a flush,
\* a failed read(), a link error or the removal of its CAM) comes out in part, or
\* in front of the next one of its connection.  Messages of a connection are read in
\* the order in which they were sent, none left out: every fragment of the connection
\* that came before is gone.  Until read() meets half a fragment: nothing keeps it from
\* that, and then nothing is promised.
MessagesWhole ==
  torn = "no" =>
    /\ TypeOK
    /\ rd.pc = "done" =>
         LET s == rd.slot
             msgs == {rx[s][p].msg : p \in Got}
         IN  /\ \A p \in Got : rx[s][p].conn = rd.conn
             /\ \A i \in 1 .. Len(rd.got) - 1 : rd.got[i] < rd.got[i + 1]
             /\ msgs \cap cut[s] = {} => \E m \in msgs : Got = Message(s, m)
             /\ \A p \in DOMAIN rx[s] :
                  rx[s][p].conn = rd.conn /\ (\E q \in Got : p < q) => p \in gone[s]

\* The "BUG" branch is reached only when read() was misled by half a fragment, or when
\* the id that a reader looked for came from another slot than the one it reads: with
\* one slot, or ids that no two slots share, a read() that has begun and meets only whole
\* fragments finds the end of its message.
BugNeedsSharedId ==
  torn = "no" /\ rd.pc = "loop" /\ rd.idx = 0 =>
    \E s \in Slots \ {rd.slot} : \E p \in DOMAIN rx[s], q \in DOMAIN rx[rd.slot] :
      rx[s][p].conn = rx[rd.slot][q].conn

\* The thread is about to wake the readers.
WakePending == put \in {"header", "payload", "whole"} /\ Latest.last

\* No reader sleeps through a message: as long as no slot came or went unannounced
\* since it last looked, nobody woke it, and the thread is not about to, the first message
\* of the first slot that has any, from next_read_slot on, is not complete.  Waking readers
\* for last fragments only is enough, and waking them after the store.  (The slots behind
\* that one may hold complete messages: their first fragment does not count, see Connection.)
NoLostWakeup ==
  LET At(n) == (next_read_slot + n) % SlotCount
      holds == {n \in Slots : running[At(n)] /\ PktNext(At(n), 0) # 0}
  IN  torn = "no" /\ rd.pc = "asleep" /\ ~rd.woken /\ ~moved /\ ~WakePending =>
        \A n \in holds : (\A k \in holds : n <= k) => ~Complete(At(n), Connection(At(n), None))

\* What the model says once half a fragment was read or flushed is not of interest.
Untorn == torn = "no"
=============================================================================
