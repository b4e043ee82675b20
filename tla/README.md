# A TLA+ model of the DVB core

The repository is a Linux media tree: a DVB core (`linux/drivers/media/dvb/dvb-core`)
and some two thousand files of drivers for bridges, demodulators, tuners and
remote controls around it. The drivers move register values; the core is where
the logic is: it takes a transport stream (TS) that arrives in interrupt context,
splits it into sections and PES streams, queues these in ring buffers, and hands
them to processes that open, configure, read and close devices at any time. This
directory models the core. File names below are relative to `dvb-core`.

## Contents

| module | models | run in |
| --- | --- | --- |
| `DvbRing` | index arithmetic of `dvb_ringbuffer.c` | (shared) |
| `DvbRingBuffer` | the byte ring, one writer and one reader, no lock | `ring` |
| `DvbFifo` | abstract: bounded queue | refined by `DvbRingBuffer` |
| `DvbRingBufferProofs` | theorems about `DvbRingBuffer` | (tlapm) |
| `DvbPktRing` | the packet layer of the ring as the CA interface uses it | `pkt_ring` |
| `DvbPktList` | abstract: list of packets with holes | refined by `DvbPktRing` |
| `DmxdevBuffer` | callback, section timeout and blocking `read()` on one ring | `dmxdev_buffer` |
| `DmxdevBufferProofs` | theorems about `DmxdevBuffer` | (tlapm) |
| `DvbSection` | section reassembly in `dvb_demux.c`, with multiplexer and losses | `section`, `section_restart` |
| `DvbDemux` | feeds and filters of `dvb_demux.c` | (used by `Dmxdev`) |
| `Dmxdev` | the demux device: open, ioctls, release, shared feeds, timer | `dmxdev_sections`, `dmxdev_pes` |
| `DmxdevProofs` | theorems about `Dmxdev` | (tlapm) |
| `DvbTsSync` | finding TS packets in what a driver passes to `dvb_dmx_swfilter` | `ts_sync` |
| `DvbTsSyncProofs` | theorems about `DvbTsSync` | (tlapm) |
| `DvbCaSlot` | the slots of `dvb_ca_en50221.c`: thread, IRQs, `CA_RESET`, write errors | `ca_slot` |
| `DvbCaSlotProofs` | theorems about `DvbCaSlot` | (tlapm) |
| `DvbCaMessages` | fragments from the CAMs to `read()` | `ca_messages` |
| `DvbCaMessagesProofs` | theorems about `DvbCaMessages` | (tlapm) |
| `DvbZigzag` | the software zigzag of `dvb_frontend.c` and the ioctls that steer it | `zigzag` |
| `DvbZigzagProofs` | theorems about `DvbZigzag` | (tlapm) |
| `DvbFrontend` | the frontend device: thread, semaphore, event queue, open and close | `frontend` |
| `DvbFrontendProofs` | theorems about `DvbFrontend` | (tlapm) |
| `MC*` | constants for the runs | |

`PROJECT.json` has the components, runs, mutants, hazards and findings, and maps
every definition to the lines of code it stands for.

## Inventory

**Ring buffer** (`dvb_ringbuffer.c`). State: `data`, `size`, `pread`, `pwrite`,
`error`, a wait queue and a lock that only some callers take. Operations: `free`,
`avail`, `empty`, `write`, `read`, `read_user`, `flush`, `reset`; and a packet
layer on top, `pkt_write`, `pkt_next`, `pkt_read(_user)`, `pkt_dispose`. Hard:
writer in softirq, reader in a process, no lock; transfers split at the end of
the array; unsigned arithmetic modulo a size that is no power of two. Correct
when it is a queue: nothing lost, repeated, reordered or exposed half written.

**Demux device** (`dmxdev.c`). State: a table of filters, each with a state
(FREE, ALLOCATED, SET, GO, DONE, TIMEDOUT), a type, parameters, a ring, a timer,
and the feeds it got from the demux; a dvr device with a ring of its own.
Operations: open, the DMX ioctls, read, poll, release; callbacks from the demux;
the section timeout. Section filters on one PID share a feed: starting or
stopping one stops the feed, changes the filter chain and starts the feed again
for the rest. Hard: that protocol under every order of calls and every refusal;
the timer function, for which `del_timer` does not wait; the flush that the
callback does under a reader. Correct when every running filter is served, no
slot leaks, no pointer is stale, and a blocked reader wakes up.

**Demux, feeds and filters** (`dvb_demux.c`, second half). State: arrays of feeds
and filters from `vmalloc`, the list of feeds, one feed per decoder. Operations:
allocate, set, start, stop, release, for TS and section feeds; section filters.
Everything under `demux->mutex`. Hard: slots keep what they held before.

**Demux, software filter** (`dvb_demux.c`, first half). State per feed: `cc`,
`pusi_seen`, the section buffer with `tsfeedp`, `secbufp`, `seclen`; per demux a
buffer for a packet cut in two. Operations: `dvb_dmx_swfilter` (resynchronise),
`_packets`, per feed type the delivery. Hard: packet loss, headers cut by a
packet boundary, several sections in a packet, stuffing, packets without payload.
Correct when only whole sections come out, all that arrived whole, in order.

**CA interface** (`dvb_ca_en50221.c`). State: per slot a state machine (none,
uninitialised, running, valid, wait-ready, wait-FR, link-init), an IRQ count and
a packet ring; one thread. Operations: the IRQs, the thread's polling, `read()`
and `write()` that fragment and reassemble by connection id. Hard: IRQs against
the thread, thread against `read()` on the packet ring without a lock. Correct
when a running slot has the CAM it was set up with, initialisation always ends and
a good CAM comes up, and messages come out whole and in order.

**Frontend** (`dvb_frontend.c`). State: tuning state and parameters, a queue of
events, a semaphore, the thread, the exit flag. Operations: open, ioctls, release,
the thread's loop, unregister. Hard: thread start and stop against open and
release, the event that is completed after it is published, the tuning zigzag.
Correct when an open device has a live thread, events are whole, in order and lost
only with notice, the search tries every setting and finds a signal that stays.

**dvbdev** (`dvbdev.c`). State: minors, user counts, adapters. Operations:
register, unregister, open, release. Hard: unregister while files are open.

**dvb_net** (`dvb_net.c`). State: interfaces, per interface a ULE reassembly
state over TS packets. Hard: the ULE state machine under loss.

**dvb_filter, dvb_math**: pure data conversion. **Drivers**: see "Not modelled".

How they meet: a bridge driver calls the software filter from an interrupt or a
tasklet; the software filter calls dmxdev's or dvb_net's callback with
`demux->lock` held; dmxdev's callback takes `dmxdev->lock` and writes a ring; the
ring's reader sleeps on the ring's queue. Downwards, ioctls hold `dmxdev->mutex`
and then the filter's mutex, and call into the demux, which takes `demux->mutex`.
The CA thread writes its slot's packet ring, which `read()` walks.

The hazards in `PROJECT.json` are what of this is hard to test, each at its line.

## Modules and code

### DvbRingBuffer: the ring, access by access

`dvb_ringbuffer.h` allows one reader and one writer to work without locks. A step
is one access that the other side can see: the copy of one byte, a store to
`pread` or `pwrite`, the load and the store of a flush. `WriteBegin` and
`ReadBegin` are the checks of `free` and `avail` that note (1) asks of callers,
and the computation of the split; `*Copy` copies a byte; `*Publish` stores the
index after a memcpy. Bytes are numbered by their position in the stream, so that
the history variables `rpos` and `wpos` say which byte belongs where.

Memory order: steps take effect in program order. On the architectures with
total store order this is what the code gets; on weaker ones the code has no
barriers, and nothing is claimed.

`DvbFifo` is what a user of the ring may assume: `Put`, `Get`, `Drop`.
`ImplementsFifo` maps the bytes between the indices to the queue.

### DvbPktRing: packets in the ring

A packet is two length bytes, a status byte and its payload; `pkt_write` stores
to `pwrite` up to five times per packet, and `PktWriteStep` is one of those.
`PktNext` and `PktClean` are the loops of `pkt_next` and `pkt_dispose`, as
recursive functions. `Word` stands for 2^64: the distance of an index from
`pread` is computed in unsigned arithmetic and then taken modulo `size`, which
differs from the distance when `size` does not divide 2^64. The CA thread writes with
`slot_lock` held, `read()` does not take it, so a step of the reader may fall between
any two stores of the writer. `torn` records the two results of `pkt_next` that cannot
be trusted: the packet being written, after the first memcpy of a payload that goes
round the end of the array (`half`), and the one behind the last packet of a ring that
is full to the last byte (`full`). `NextIsPacket` is exact: in these cases, which the run
reaches, what `pkt_next` returns is no packet that is in the ring, and in all others it is.

### DmxdevBuffer: callback, timeout, read()

The same ring with the three actors that dmxdev adds. On overflow the callback
flushes the ring, that is, stores `pread`, which is the reader's. The callback
runs under `dmxdev->lock`, the timer function takes the lock for the state only
and stores `error` before, `read()` takes no lock at all. A memcpy is one step
here: `CopyUndisturbed` says that this loses nothing. Every load of `pread` on the way
through `read()` is a step of its own: for the condition, for the error (`ReadNoError`),
for `avail` (`ReadAvail`) and the length (`ReadLen`), for the split of `read_user`
(`ReadSplit`), for the address of a copy (`ReadBase`), and, after the copy (`ReadCopy`),
for the new index (`ReadLoad`), which is then stored (`ReadStore`); and so are the load,
the store and the reset of `error` in the reader's flush. A flush of the callback may
fall between any two. Then the length belongs to one `pread` and the address to another,
and `copy_to_user` can go past the end of the array; `CopyUndisturbed` says that this
happens only while the overflow is pending. When a timeout and an
overflow coincide, the reader's flush can undo the callback's and clear its error,
so that bytes which the callback dropped are read without an error. What remains
true is `DirtyOnlyUnderError`: nothing that was read before, and nothing that was
never written, becomes available without a pending error.

The section callback and the TS callback differ in that the latter looks neither
at the state nor at a timer; with `Timeout = FALSE` and `OneShot = FALSE` the
steps of the model are those of the TS callback.

### DvbSection: from packets to sections

The module has the code's side (`SectionPacket` with `CopyDump`, `Dump`, `New`)
and an environment: a multiplexer that packs sections into packets (with a
pointer field, short sections, stuffing), and losses. Bytes carry their section
and offset; `section_length()` returns the section's length where a header is,
and any of `GarbageLens` where none is. CRC check and filter match only reject
sections and are left out; a section is delivered when
`dvb_dmx_swfilter_section_feed` is called on it.

### DvbDemux and Dmxdev: who gets what

`DvbDemux` has one operator per function, from a state of the demux to the next
with the return value in `ret`, so that `Dmxdev` can compose them the way
`dmxdev.c` does: `FilterStart` calls `FilterStop`, `SecFilterStart`,
`FeedRestart`, with all failure paths. An ioctl is one action because it holds
`dmxdev->mutex` throughout. What does not hold it are the callback, which changes
`state` and timer under the spinlock, and the timer function, which runs in one
step (`TimerFire`) or is overtaken between its two stores (`TimerEnter`,
`TimerState`). `overtaken` records that its filter was stopped meanwhile. From then
on the properties are void, because the code does not survive it: the stopped
filter counts as running, and `dvb_dmxdev_feed_restart` follows its NULL feed. The
run shows that a timer function that is overtaken by anything else does no harm.

`halfway` does the same for calls that fail and do not undo what they did. There are
four, each an operator that says when: `DMX_ADD_PID` on a running filter finds no feed, or
the driver refuses it, and the PID stays in the list (`AddedOnly`); a start of
several PIDs fails at a later one, and `filter_stop` returns at once because the state is
still SET (`StartedPart`); the driver does not start, or not restart, a section feed
(`LeftIdle`); `DMX_REMOVE_PID` meets a PID whose `feed->ts` was never cleared after a
refusal and may be somebody else's by now (`Dangling`). After a refusal `feed->ts` does
point to a slot: `dvbdmx_allocate_ts_feed` has stored the pointer when it finds no demux
filter (`StartFeed`). The properties are void after such a call and say that every other
refusal is undone. `DMX_SET_PES_FILTER` with an unknown `pes_type`, which stops and
resets the filter first, is `SetPesInvalid`.

`oops` is set where the code would follow a NULL pointer, run off a list, or
take `demux->mutex` a second time. `Forget` erases, between calls, what free
slots hold and nobody reads again; `decoder` and `pes` stay, because
`dvbdmx_release_ts_feed` does read them.

### DvbTsSync: packets in bytes

A driver passes the stream in pieces cut anywhere (`Filter`). A packet that was
begun before is continued in `tsbuf` (`FillTsbuf`, `FinishTsbuf`); then the loop
looks for packets (`Packet`), and what is left goes to `tsbuf` (`Rest`).
`FindNextPacket` is `find_next_packet` with its way back: when bytes had to be
skipped, they may be the tail of a packet whose beginning was taken for a part of
something else. A byte is a sync byte, an inverted one (`_204` only) or another;
a stream also says where its packets really are, which the code does not know and
the properties use: with sync bytes nowhere else nothing else is delivered
(`OnceInOrder`), with sync bytes inside packets all packets are delivered
(`AllDelivered`), with sync bytes before them at most the first is lost, and only if
it does not come in the first piece or no packet follows it (`Relocks`); in every
case positions increase and the loop advances.

### DvbCaSlot: a CAM comes and goes

A step is one access that another party can see: the thread is cut before and
after `check_camstatus`, shutdown, the store of UNINITIALISED and the decrement;
the camchange IRQ between its store of the type and the increment, the camready
IRQ between its test and its store. With `flags` changes are reported by IRQ,
without they are polled. CAMs are numbered, `good` ones answer; `linked`
remembers which one the link was made with. `hit` records that a ready IRQ of an
earlier reset, a `CA_RESET`, or a write error fell on a CAM in the middle of its
initialisation: it can then end as INVALID, and `ComesUp` does not apply.
In WAITFR the thread stays until FR is set or the timeout has passed
(`ThreadWaitFrOn`). A CAM is exchanged slowly enough for the driver to report that it is
gone before the next is in: for a faster exchange there is DVB_CA_EN50221_POLL_CAM_CHANGED,
which no driver in the repository returns from `poll_slot_status`. Delays and `da_irq_supported` decide how soon the thread looks and
are left out.

### DvbCaMessages: fragments to messages

On top of the packet list that `DvbPktRing` implements, with its one flaw: the fragment
that is being stored. `read_data` goes through `ReadDataBegin` (the packet header, which
nobody sees), `ReadData` (the payload, whole or up to the end of the ring, with one byte
of the link header before it or with both), `ReadDataRest` and `ReadDataWake`, which wakes
readers for last fragments; `put` says how far it is. `read()` takes no lock. It evaluates
its condition slot by slot (`ScanSlot`), sleeps, and collects fragment by fragment, while
more arrive; it reads the link header of a fragment (`hdr`) before it copies it, and where
the second byte of the header is not there yet it sees what was in the ring before. `torn`
records that a `read()` was misled by such a byte or copied half a fragment, and that
open() flushed a ring which the thread was writing to; the properties end there.
`CA_RESET` is `IoReset`, `ResetSlot` for
one slot after the other, and `ResetEnd` with `next_read_slot = 0`.

`io_read_condition` keeps the first connection id it meets for
all slots it looks at, and `read()` takes the first id of the slot it was given:
`BugNeedsSharedId` says when the two differ, which ends in the branch that the code
calls a BUG. `cut` marks messages that lost a fragment to a flush, a fault, a link
error or a shutdown.

### DvbZigzag: the search

`Ready`, `NextSetting` and `Wrapped` are the loop of `swzigzag_autotune`, from the
setting where the search stands to the next one it may tune; each branch of
`dvb_frontend_swzigzag` is an action. `auto_step` is unsigned and wraps at
`UIntMod`. A frontend state is a set of flags, as in the code, because the groups
(SEARCHING_SLOW, LOSTLOCK) are used both as values and as masks. The environment
changes the signal; the hardware may keep an old lock (`stale`) until it is tuned. A
`set_frontend` that fails may have tuned the hardware or left it as it was, with its lock
(drivers refuse parameters before they touch it). After that the state is ERROR, where
`swzigzag` still adds an event with the status of the hardware: there `StatusCurrent`
grants the earlier lock.
`asked` numbers the requests, so that `StatusCurrent` can say what the comment at
`FE_READ_STATUS` says. `dropped` and `failed` are set where the code loses a
request or leaves drifted parameters behind. `FindsSignal` counts turns instead of
using fairness: a lock within one round of the settings. `FastEnds` has one exception:
after a loss of lock the search starts at `auto_step`, which a tuning in ONESHOT mode or
with a dropped RETUNE leaves as it was. If that step is not one of the present tuning, the
fast search never meets it again and goes round until it finds a signal.

### DvbFrontend: thread, semaphore, events

The opener is cut at every access of `exit` and `thread`: `StartLoad` and `StartAlive` or
`StartStop` for the test in `dvb_frontend_start`, `StopTest`, `KthreadLoad` and
`KthreadStop` for `dvb_frontend_stop`, which reads `thread` twice and uses it later. The
thread is cut likewise, also between the tests of writers and time in
`dvb_frontend_is_exiting` (`IsExiting`, `IsExpired`) and between its last stores
(`ThreadClear`, `ThreadTest`, `ThreadLast`).
`add_event` is three steps, because it stores the status after it gave up the
mutex; `FE_GET_EVENT` is cut at the semaphore and at the mutex. An event is its
number, stored twice (parameters, status), so that a torn one shows. What a turn of
the thread does is `DvbZigzag`; here it clears a request and may report a status.
`faults` records six races that the code does not handle: a signal in
`get_event` while it waits for the semaphore (`signal`); open() finding a thread
that has decided to exit, or that decides so because open() came between its tests of
writers and time (`late`); open() finding `thread` set and then, after the thread's last
stores, `exit` clear, so that it takes a thread for granted that is gone (`gone`); the
queue emptied while an event is stored (`flush`); `kthread_stop` on NULL or on a thread
that is gone (`oops`); and an open() that is interrupted after it stopped a thread
(`eintr`). The properties say that nothing else goes wrong.

A thread that ends clears `fepriv->thread` and stores `exit` after that. If it is
delayed between the two, a new open() starts another thread, and the store still
comes: `last` becomes one of the `old` threads, and `OldLast` is its store. It is
harmless, unless a later thread has by then decided to exit: then it takes back that
thread's `exit`, and the next open() takes the thread for a live one (`late` again).
That takes three open()s.

## Runs

| run | bounds | shows |
| --- | --- | --- |
| `ring` | 4 slots, 12 bytes | queue; bytes, counts and splits exact |
| `dmxdev_buffer` | 4 slots, 9 bytes, timer, signals, faults | the damage of the unlocked flush stays behind a pending error; no lost wake-up |
| `pkt_ring` | 22 slots, radix 4, fragments of 2 and 4 bytes, 7 of them | list of packets, across the wrap, without a lock; where it is none |
| `section` | 5 bytes of payload, sections of 3, 4, 9, five of them, gaps of up to 3 packets, counter modulo 4 | whole, lossless, in order |
| `section_restart` | the same, two starts | **violated**: end of a section delivered as a section |
| `dmxdev_sections` | 3 filters, 2 PIDs, 2 feeds, 2 demux filters, one timer function at a time | served, nothing leaks, no oops |
| `dmxdev_pes` | 2 filters, section or PES with up to 2 PIDs, 2 feeds, 2 demux filters, 1 decoder; `start_feed` fails on any feeds | the same for PES, until something is left halfway |
| `ts_sync` | packets of 3 bytes, every cut of the streams in `MCDvbTsSync` | packets found, once, in order |
| `ca_slot` | 1 slot, 3 CAMs, 2 changes waiting | running means initialised; settles; comes up |
| `ca_messages` | 2 slots with room for 3 and 2 fragments, 2 connections, 3 fragments in all | messages whole, in order; no lost wake-up |
| `zigzag` | steps and drifts of `MCDvbZigzag`, 2 commands, 3 changes of signal, 1 error, counters modulo 4 | within drift; everything tried; signal found |
| `frontend` | 2 event slots, 2 events, 3 opens | semaphore, thread, events, requests |

Every module has a type invariant `TypeOK`; the runs check it as a part of the
property that depends on it most (`RingInv`, `CopyUndisturbed`, `NextIsPacket`,
`Lossless`, `SlotsOwned`, `RunningIsCurrent`, `MessagesWhole`, `BufferHolds`,
`WithinDrift`, `SemBalanced`).

Why the bounds are enough. A ring of 4 holds 3 bytes: transfers of every length,
split at every place, and 12 bytes go round it several times. In `dmxdev_buffer`
a callback brings up to 4 bytes for 3 places, so overflow is frequent, and two
overflows with a read between them fit into 9 bytes. In `pkt_ring` a ring of 22 takes
three packets and wraps inside a header and inside a payload; 7 packets reuse the whole array, lengths use both digits.
`Word` leaves a remainder of 1 modulo the ring size, as 2^64 does modulo 65535, and
three packets of 7 bytes fill the 21 usable bytes exactly. States in which `torn` is set
are checked and not continued (`Untorn`, in `ca_messages` as well). In
`section` the sizes make a section span three packets, end exactly at a packet's
end, have its header cut after one or two bytes, and share a packet with two
others; gaps stay below the period of the counter, since a gap of exactly one
period cannot be noticed by any receiver. In `dmxdev_sections` two PIDs and three
filters give sharing and competition, and two slots make each allocation fail on
some path; states in which a timer function was overtaken by a stop are checked but
not continued, and likewise those after a call that failed halfway (`Undisturbed`),
since the properties are void there. In `dmxdev_pes` two feeds for up to four PIDs, one
decoder for two filters and a driver that fails make starts be refused at every place; an
instance with a PID beyond the demux's, and a driver that does not fail, has been checked
as well. In `ts_sync`
three bytes are the least with an inside; streams have three packets, or one with
nothing after it that helps to find it. All its properties are proved for every packet
size and stream. In `ca_slot` one slot is enough, since slots
share only the thread; three CAMs allow one to go while another is
being set up. In `ca_messages` three fragments make two messages of which one is in
two parts with the other between; more are left to the theorems. In `zigzag` two commands are a request and what
overtakes it, and counters modulo 4 overflow where `step_size` is 0. In `frontend`
three opens are one whose thread is delayed at its end, one whose thread exits, and
one that meets that thread alive, exiting or gone; two slots hold one event, so that
the second overflows. For longer queues and more opens there are the theorems, which
leave only `Served` to the run.

What the constants leave out: `start_feed` does not fail in `dmxdev_sections`, where the
sharing of feeds is the point; `dmxdev_pes` has it. Memory
from `vmalloc` that is not zero (`Stale`) is left to the theorems about `Dmxdev`.

Deadlock is checked in all runs but `section` and `section_restart` (the broadcast
may end after `MaxSections` with the feed stopped for good), `ts_sync` (the stream
ends), `zigzag` and `frontend` (the bounds end them: no commands or opens left and
nothing to do).

Fairness. `dmxdev_buffer`, for `Wakes`: weak fairness of the callback once it runs
(a softirq completes), of the timer function once it runs, and of the reader's steps
while it is runnable (the scheduler runs it). That data arrives, that a timer
expires, that anybody calls `read()` is not assumed. `ca_slot`, for `Settles` and
`ComesUp`: weak fairness of thread, handlers and of a process inside a call; strong
fairness of taking the slot mutex, which queues its waiters, and of the timeouts of
WAITREADY and WAITFR,
which pass in the end however often the thread looks too early; and that a good
CAM comes out of its reset. That anybody inserts a CAM is not assumed. `frontend`,
for `Served`: weak fairness of the thread, of open() and of ioctls that have the
semaphore; strong fairness of taking it, since `struct semaphore` is first come,
first served. That anybody opens, closes or calls is not assumed.

## Findings

* `section_restart`: a comment says that starting clears `pusi_seen`; it does not.
  A feed that is stopped and started again delivers the rest of the section in
  progress as a section.
Other places where the code does not keep what it should are described in the
hazards of `PROJECT.json`, with a note on the properties that grant them. The ones
that matter most:

* `dvb_ringbuffer.h` counts a flush as a read and wants readers locked
  against each other. The callback flushes on overflow while `read()`, without
  `dmxdev->lock`, is between two accesses of `pread` (in `DmxdevBuffer`, `wpc = "flush"`
  with `rpc` in `Reading`): it can copy from behind the end of
  the array, and can get bytes twice. The pending error repairs the indices afterwards
  (`DirtyOnlyUnderError`).
* `dvb_ringbuffer.h` promises that one reader and one writer need no lock;
  with `pkt_write` a reader finds a packet of which half is written (`torn = "half"` in
  `DvbPktRing`).
* `pkt_next` computes a distance modulo a size that does not divide 2^64: when the packets
  fill the ring to the last byte it returns an index that is no packet (`torn = "full"`).
* Half a fragment shows the CA's `read()` an old byte as the flag of
  the last fragment; with a single slot it then runs out of fragments, in the branch marked
  BUG (`torn = "read"` in `DvbCaMessages`).
* A comment says that the CA's open() needs no lock for its flush because no data is
  read while the device is closed; the thread may have begun to before it was closed
  (`torn = "open"`).
* A timer function that is overtaken by a stop of its filter revives it for
  `dvb_dmxdev_feed_restart` (`overtaken` in `Dmxdev`).
* A TS feed whose `set()` was refused is released as if it had been listed, with the
  `pes_type` of the slot's earlier life.
* A refused `DMX_ADD_PID`, a start that fails at a later PID, and a driver that does not
  start a section feed again are not undone (`halfway` in `Dmxdev`).
* A connection id from one slot decides about the messages of another (`ReadBug` in
  `DvbCaMessages`).
* After a `set_frontend` that was refused, the event of the ERROR state shows the lock of
  the request before (`StatusCurrent` in `DvbZigzag`).
* A DISEQC, voltage or tone ioctl right after `FE_SET_FRONTEND` drops the request
  (`dropped` in `DvbZigzag`); a refused `DTV_TUNE` overwrites the parameters of the
  search in progress.
* A fast search that starts, after a loss of lock, at an `auto_step` left from a tuning
  with more steps does not end (the exception in `FastEnds`).
* The six races of `DvbFrontend`, see above.

## Proofs

Eight modules hold theorems. Each proves, for every value of the constants that
satisfies the component's named assumptions, what the component's run checks on one
instance. The assumptions: sizes and numbers of slots are not 0, a packet and the
event queue are at least 2 long, bounds are natural numbers; the packets that a stream
(`IsStream`) was sent with begin with a sync byte and do not overlap; and the steps of a
search reach `max_drift` before their unsigned counter wraps, or the step size is 0
(`TuningAssumption`). The theorems about `Dmxdev` have a hypothesis besides, see there.
The bounds (`MaxBytes`, `MaxFrags`, `MaxOpens`, ...) are constants like the others: the
theorems hold for all of them. Each inductive invariant was checked with TLC on the
run's instance before it was proved; a proof has one lemma for each action, or for a
group of actions that touch the same variables, and one step for each part of the
invariant that it can disturb.

**`DvbRingBufferProofs`**, for every `Size` and `MaxBytes`:
`RingInvariant` (`[]RingInv`), its parts `TypeCorrect` and `ContentsCorrect`,
and `RingImplementsFifo`, the refinement of `DvbFifo`.
That the reader sees the stream (`ReadsStream`)
follows from what is in the ring (`ContentsExact`), which a writer's copy
preserves only if it hits free slots (`NoOverrun`), which says something only if
`free` and `avail` agree with the real distance (`CountsExact`), which a store to
an index preserves only if a first part ends exactly at the end of the array
(`PartsInside`). `NoOverrun` also carries the flush: the `pwrite` it loaded lies
between `pread` and the present `pwrite`, so storing it later is safe.
`AdvanceIsWrap` turns the code's `(ptr + todo) % size`, and the reset to 0 after a
first part, into one step round the ring; `ConsumePrefix` says once what reads and
flushes have in common. For the refinement, `InFlightIsRun` says that the queue is an
interval of the stream, and `Put`, `Get` and `Drop` follow from lemmas about such
intervals.

**`DmxdevBufferProofs`**, for every `Size`, `MaxBytes`, one-shot or not, with or
without a timeout: `DirtyCorrect` (`DirtyOnlyUnderError`), `CopyCorrect`
(`CopyUndisturbed`), `WakeupCorrect` (`NoLostWakeup`). `BufInv` rests on a fact that
does not mention the reader at all: the array holds the last `Size` bytes written
(`DataInv`). Whether an index is good is then a matter of how far it is behind
`pwrite`; `ReaderInv` says that it is, and that all the loads of `pread` on the reader's way
agree, as long as nobody has flushed under the reader
(`Sound`), and `CollectInv` that the `read()` that collects the error has made the
indices good before it clears it. `WakeInv` adds to `NoLostWakeup` the steps from
which the callback is certain to come to its wake-up.

**`DmxdevProofs`**, for any number of filters, PIDs, feeds and demux filters, any
decoders, and whatever the arrays of the demux held before their first use:
`DevInvariant`, and from it `DmxdevNoOops` (`NoOops`), `DmxdevSectionsServed`
(`SectionsServed`), `DmxdevNoLeak` (`NoLeak`) and
`DmxdevSlotsOwned` (`SlotsOwned`). `DmxdevNothingHalfway` says that `halfway` stays FALSE
in the theorems' setting, so that it is no exception there. They assume `SinglePids`: the driver's `start_feed`
does not fail, and nobody calls `DMX_ADD_PID` or `DMX_REMOVE_PID`. Without the first the
properties are false (see the hazards); without the second a filter has a list of feeds,
and what a loop over it does takes an induction.
`DevInv` describes the links between the filters of the device and the slots of the demux
from both ends. A filter that runs has its slots (`SecInv`, `PesInv`), filters on one PID
have the same feed (`ShareInv`), since `feed_restart` decides by the PID who goes on; what
is in the chain of a feed is in use (`ChainInv`) and belongs to a filter that runs
(`OwnerInv`), or a release would take away what somebody else has; the list of feeds
and the decoders name feeds in use (`ListInv`); only a running section filter has a timer
(`StatesInv`). From when a stop overtakes a timer function only the types are left, as in
the properties. The operations of the demux are described first, each by what it returns;
then every handler of the device, failing allocations included, is shown to do one of five
things to the links: nothing (`Quiet`), to take the last filter of a feed away with the
feed (`Gone`) or one of several (`Shrunk`), to add a filter with a feed of its own (`Born`)
or to a feed that runs (`Grown`). Each of these preserves the invariant. A stop within a
start is two of them in a row. The invariant was checked on the instance of
`dmxdev_sections`, and on one with two PES or section filters, a decoder and memory that
is not zero.

**`DvbTsSyncProofs`**, for every packet size, every stream and every way to cut it:
`BufferCorrect`, `DeliveredCorrect` (`OnceInOrder`), `LoopCorrect` (`LoopAdvances`),
`AllDeliveredCorrect`, `RelocksCorrect`. The argument is about the `Frontier`, the
place up to which the search has come, in the piece or in `tsbuf`: whatever was
delivered lies before it (`DeliveredInv`), and every packet before it was delivered
(`CleanInv`, `RelockInv`). The step that needs work is the way back of
`find_next_packet`, which must not pass the beginning of a packet, and must not go
behind what was delivered.

**`DvbCaSlotProofs`**, for any number of slots, CAMs and waiting changes:
`RunningCorrect` (`RunningIsCurrent`). `SlotInv` says who is inside when a slot's
mutex is held (`LockInv`), that a change the thread handles is counted until the old
CAM is shut down (`HandleInv`), and that a link in the making is with the CAM in the
slot or a change is waiting (`LinkInv`). `BoundInv` keeps the count within the bound of
the model's environment.

**`DvbCaMessagesProofs`**, for any number of slots, connections and fragments, and
any room in the rings: `MessagesCorrect` (`MessagesWhole`), `BugCorrect`
(`BugNeedsSharedId`), `WakeupCorrect` (`NoLostWakeup`), with fragments stored part by part.
Both invariants hold as long as `torn = "no"`, and so do the properties: up to then, and
nothing comes back from there (`TornStep`), every step of `read()` has met whole fragments
or was not misled by half of one. `FragmentsInv` describes what
is received (`FragInv`, `OrderInv`: of a connection, message follows message), what is
disposed of (`WholeInv`: whole messages), and what the `read()` in progress has taken
(`TakenInv`, `LoopInv`, `DoneInv`, `HdrInv`). `LookInv` describes a process that looks for a
message: which slots it has looked at (`ScanInv`), that the end of the message it was
promised is ahead of it (`AheadInv`), and that the first slot that holds something,
when it is behind it, holds no whole message (`WakeInv`), although the thread
adds fragments behind its back and wakes it for last fragments only.

**`DvbZigzagProofs`**, for all tunings, and any width of `unsigned int`:
`DriftCorrect` (`WithinDrift`), `StatusCorrect` (`StatusCurrent`). `ZigzagInv` says
that `parameters_in` is what was asked for between the turns of the thread, though a
turn overwrites it while it tunes (`DriftInv`), and that the hardware has the present
request as soon as the state is neither RETUNE nor ERROR (`StatusInv`). `SearchInvariant` adds the
bookkeeping of a fast search, for `FastEndsCorrect` (`FastEnds`) and
`FastTriesAllCorrect` (`FastTriesAll`), checked with four commands before: the step where
the search stands is one of the tuning (`StandInv`), everything tried is a setting that
was passed, at this step or at one behind it, and nothing was tried twice (`NewInv`), and
nothing was left out of the steps behind (`AllInv`). The steps behind are those
from the step where the search began, round over `max_drift`, to the present one. That
this is a round is where `TuningAssumption` comes in: the step that follows the last one
is 0, before the counter wraps, and different steps have different frequencies. A
search that tries nothing twice has tried at most as many settings as there are.

**`DvbFrontendProofs`**, for every length of the event queue and any number of events
and open()s: `SemCorrect` (`SemBalanced`), `ThreadCorrect` (`ThreadRuns`),
`OpensCorrect` (`OpensAgain`), `EventsCorrect` (`EventsRead`). `FrontInv` says that
open() is alone with the thread (`AloneInv`), when `fepriv->thread`
stands for a thread that lives (`ThreadInv`), and that it does when open() has found or
made one (`RunsInv`); `EventsInv`, that the queue holds the
newest events in order (`NumberInv`), each with its status or with somebody about to
store it (`StatusInv`), and that it begins after the event read last unless the reader
is to be told (`SeenInv`). The attempt to prove `ThreadRuns` is what showed the
delayed store of `OldLast`.

Only model-checked:

* liveness (`Wakes`, `Settles`, `ComesUp`, `Served`), which the prover cannot handle;
* `DvbPktRing` and `DvbSection`: what the loops over packets in the ring and over
  sections in a packet compute is a recursive function, and would need an
  induction that the prover cannot do;
* `FindsSignal` of `DvbZigzag`, which counts the turns of the thread through fast and
  slow search from wherever it stands; the bound is exact, so that no weaker count of
  settings gives it;
* `PesServed`, and `Dmxdev` with `DMX_ADD_PID`, `DMX_REMOVE_PID` and a
  failing `start_feed` (`dmxdev_pes`): what a loop over the list of feeds does takes an
  induction.

## Plan

1. The dvr device and `dvb_dmxdev_read_sec`; the mutexes, with the question who waits
   for a reader that sleeps with `filter->mutex` held.
2. `DvbCaMessages` with the bytes of `DvbPktRing` in the place of its list, the full ring
   included; fragmentation in `write()`.
3. `dvb_unregister_frontend` and the reference counts of `dvbdev`; the ULE state
   machine of `dvb_net`.

## Not modelled

* The rest of `dvb_ringbuffer.c`: `reset`, which callers run under a lock on an
  idle ring, and `flush_spinlock_wakeup`, which the core does not call.
* In dmxdev: the dvr device (where `DMX_SET_BUFFER_SIZE` exchanges the buffer under
  `dmxdev->lock` while `dvr_read` copies from it), `read_sec`, buffer sizes, poll; a `kzalloc` that fails in `dvb_dmxdev_add_pid`, which
  leaves a PES filter without PIDs, a state that `DMX_REMOVE_PID` and `DMX_STOP` also
  leave. `DMX_GET_*` and
  `DMX_SET_SOURCE` pass straight through.
* In dvb_demux: users, frontends, `dvbdmx_write`, delivery to the feeds of a PID, the
  filter match, the TEI and continuity statistics, CRC.
* In dvb_ca_en50221: parsing of the CIS (a CAM is good or not), fragmentation in
  `write()`, `frda_irq` and the thread's delays (they decide when, not what), release;
  the one-bit fields `open` and `wakeup`, which share a word and have no lock; rings that
  are full to the last byte (see `DvbPktRing`) under `read()`; DVB_CA_EN50221_POLL_CAM_CHANGED,
  which no driver in the repository uses.
* In dvb_frontend: hardware and custom algorithms (drivers decide), the property
  cache, readers of the device, a second task in `FE_GET_EVENT` (which would not test
  again for an empty queue), several frontends on one adapter, unregistering (which
  frees `fepriv` while `release()` may look at it).
* In dvbdev: minors, register and unregister. `dvb_net`: all of it.
* `dvb_filter`, `dvb_math`: conversions of data without state that matters.
* Bridge, demodulator, tuner, USB and V4L drivers: what they do is defined by
  devices whose behaviour the repository does not contain. Remote control: key
  repeat timers and decoders, independent of the DVB path.
