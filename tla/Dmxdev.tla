------------------------------- MODULE Dmxdev -------------------------------
(***************************************************************************)
(* dmxdev.c: the life of the filters behind /dev/dvb/adapterN/demuxM, on   *)
(* top of the feeds and filters of DvbDemux.  Section filters on the same  *)
(* PID share one section feed; a PES filter has a TS feed per PID.         *)
(*                                                                         *)
(* open, the ioctls and release hold dmxdev->mutex from start to end, so   *)
(* each is one step.  The section callback and the timer function run      *)
(* between them, the latter in two parts: it waits for dmxdev->lock in the *)
(* middle, and del_timer() does not wait for it.                           *)
(*                                                                         *)
(* The ring buffer of a filter is DmxdevBuffer's.  feed.sec and feed.ts    *)
(* are a union in the code and two fields here: every path that changes    *)
(* the type initialises the member that it uses next.                      *)
(***************************************************************************)
EXTENDS DvbDemux

CONSTANTS NFilters,    \* dmxdev->filternum
          SecParams,   \* struct dmx_sct_filter_params: [pid, oneshot, timed]
          PesParams,   \* struct dmx_pes_filter_params: [pes, multi]
          PesPids,     \* PIDs for DMX_SET_PES_FILTER
          AddPids,     \* PIDs for DMX_ADD_PID and DMX_REMOVE_PID
          MaxPids,     \* bound on the PIDs of one PES filter
          StartFails   \* TRUE: the driver's start_feed can fail

ASSUME DmxdevAssumption ==
  /\ NFilters \in Nat \ {0} /\ MaxPids \in Nat \ {0}
  /\ SecParams \subseteq [pid : Nat, oneshot : BOOLEAN, timed : BOOLEAN]
  /\ PesParams \subseteq [pes : PesTypes \cup {Other}, multi : BOOLEAN]
  /\ PesPids \subseteq Nat /\ AddPids \subseteq Nat /\ StartFails \in BOOLEAN

\* enum dmxdev_state
FREE == 0
ALLOCATED == 1
SET == 2
GO == 3
DONE == 4
TIMEDOUT == 5

Devs == 1 .. NFilters

VARIABLES dmx,    \* struct dvb_demux
          flt,    \* dmxdev->filter
          open,   \* filters that are some open file's private_data
          overtaken,  \* history: a filter was stopped while its timer function ran
          halfway     \* history: a call that failed halfway left things as they were

vars == <<dmx, flt, open, overtaken, halfway>>

\* feed, sec: the slots that feed.sec and filter.sec point to; ts: the list
\* feed.ts; late: the timer function has stored the error, but not the state.
NoParams == [pid |-> NoPid, oneshot |-> FALSE, timed |-> FALSE, pes |-> Other, multi |-> FALSE]
FilterRec == [state |-> FREE, type |-> "NONE", params |-> NoParams,
              feed |-> Null, sec |-> Null, ts |-> <<>>, timer |-> "off", late |-> FALSE]

Init ==
  /\ dmx \in DemuxInit
  /\ flt = [i \in Devs |-> FilterRec]
  /\ open = {} /\ overtaken = FALSE /\ halfway = FALSE

-----------------------------------------------------------------------------
(* The functions of dmxdev.c, on a state s = [dmx, flt]; the return value  *)
(* is s.dmx.ret.  bad: the feeds whose start_feed fails.                   *)

Fail(s) == [s EXCEPT !.dmx = Err(@)]

\* stop_filtering and release_ts_feed for one feed of a list after the other, and
\* the list with feed->ts = NULL.
StopTsFeeds(d, list) == FoldLeft(LAMBDA d1, e : TsFeedStop(d1, e.ts), d, list)
ReleaseTsFeeds(d, list) == FoldLeft(LAMBDA d1, e : ReleaseTsFeed(d1, e.ts), d, list)
ClearTsFeeds(list) == FoldLeft(LAMBDA l, e : Append(l, [e EXCEPT !.ts = Null]), <<>>, list)

\* Mutant: the timer is left running.
FeedStopNoDelTimer(s, i) ==
  LET f == s.flt[i]
      s1 == [s EXCEPT !.flt[i].state = SET]
  IN  CASE f.type = "SEC" -> [s1 EXCEPT !.dmx = SectionFeedStop(@, f.feed)]
        [] f.type = "PES" -> [s1 EXCEPT !.dmx = StopTsFeeds(@, f.ts)]
        [] OTHER -> Fail(s1)

\* Mutant: the filter is marked as stopped, the feed goes on.
FeedStopMarkOnly(s, i) == [s EXCEPT !.flt[i].state = SET, !.flt[i].timer = "off"]

\* dvb_dmxdev_feed_stop
FeedStop(s, i) ==
  LET f == s.flt[i]
      s1 == [s EXCEPT !.flt[i].state = SET]
  IN  CASE f.type = "SEC" -> [s1 EXCEPT !.flt[i].timer = "off",
                                        !.dmx = SectionFeedStop(@, f.feed)]
        [] f.type = "PES" -> [s1 EXCEPT !.dmx = StopTsFeeds(@, f.ts)]
        [] OTHER -> Fail(s1)

\* dvb_dmxdev_feed_start; only ever called for section filters.
FeedStart(s, i, bad) ==
  [s EXCEPT !.flt[i].state = GO, !.dmx = SectionFeedStart(@, s.flt[i].feed, bad)]

\* The running section filters on a PID.
Running(s, pid) == {n \in Devs : /\ s.flt[n].state >= GO /\ s.flt[n].type = "SEC"
                                 /\ s.flt[n].params.pid = pid}

\* Mutant: the feed is released although others use it.
FeedRestartNever(s, i, bad) == [s EXCEPT !.dmx = ReleaseSectionFeed(@, s.flt[i].feed)]

\* dvb_dmxdev_feed_restart
FeedRestart(s, i, bad) ==
  LET left == Running(s, s.flt[i].params.pid)
  IN  IF left # {} THEN FeedStart(s, Min(left), bad)
      ELSE [s EXCEPT !.dmx = ReleaseSectionFeed(@, s.flt[i].feed)]

\* dvb_dmxdev_filter_stop
FilterStop(s, i, bad) ==
  LET f == s.flt[i]
      s1 == FeedStop(s, i)
      s2 == IF f.sec = Null THEN s1
            ELSE [s1 EXCEPT !.dmx = ReleaseFilter(@, f.feed, f.sec)]
      s3 == FeedRestart(s2, i, bad)
  IN  CASE f.state < GO -> s
        [] f.state >= GO /\ f.type = "SEC" ->
             IF f.feed = Null THEN s ELSE [s3 EXCEPT !.flt[i].feed = Null]
        [] f.state >= GO /\ f.type = "PES" ->
             [s1 EXCEPT !.dmx = ReleaseTsFeeds(@, f.ts),
                        !.flt[i].ts = ClearTsFeeds(f.ts)]
        [] OTHER -> Fail(s)

\* dvb_dmxdev_filter_reset
FilterReset(s, i) ==
  LET f == s.flt[i]
  IN  IF f.state < SET THEN s
      ELSE [s EXCEPT !.flt[i] = [f EXCEPT !.ts = IF f.type = "PES" THEN <<>> ELSE f.ts,
                                          !.type = "NONE", !.state = ALLOCATED]]

\* Mutant: a feed that is refused is not released.
StartFeedNoRelease(s, i, n, bad) ==
  LET f == s.flt[i]
      d1 == AllocateTsFeed(s.dmx, i)
      k == d1.ret
      d2 == TsFeedSet(d1, k, f.ts[n].pid, f.params.pes)
      d3 == IF d2.ret < 0 THEN d2 ELSE TsFeedStart(d2, k, bad)
  IN  IF k < 0 THEN [s EXCEPT !.dmx = d1, !.flt[i].ts[n].ts = FirstFree(s.dmx.feed)]
      ELSE [s EXCEPT !.dmx = d3, !.flt[i].ts[n].ts = k]

\* dvb_dmxdev_start_feed for the n-th PID of filter i.  After a failure, feed->ts
\* points to a feed that is free again; it is NULL only if no feed was free.
StartFeed(s, i, n, bad) ==
  LET f == s.flt[i]
      d1 == AllocateTsFeed(s.dmx, i)
      k == d1.ret
      d2 == TsFeedSet(d1, k, f.ts[n].pid, f.params.pes)
      d3 == IF d2.ret < 0 THEN d2 ELSE TsFeedStart(d2, k, bad)
  IN  CASE k < 0 -> [s EXCEPT !.dmx = d1, !.flt[i].ts[n].ts = FirstFree(s.dmx.feed)]
        [] k >= 0 /\ d3.ret < 0 -> [s EXCEPT !.dmx = Err(ReleaseTsFeed(d3, k)),
                                            !.flt[i].ts[n].ts = k]
        [] OTHER -> [s EXCEPT !.dmx = d3, !.flt[i].ts[n].ts = k]

\* The feeds of filter i one after the other, until one fails.
StartFeeds(s, i, bad) ==
  LET start(s1, n) == IF s1.dmx.ret < 0 THEN s1 ELSE StartFeed(s1, i, n, bad)
  IN  FoldLeft(start, [s EXCEPT !.dmx = Ok(@)], [n \in DOMAIN s.flt[i].ts |-> n])

\* The PES case of dvb_dmxdev_filter_start.  When a feed fails, filter_stop finds
\* the state still below GO.
PesFilterStart(s, i, bad) ==
  LET s1 == StartFeeds(s, i, bad)
  IN  IF s1.dmx.ret < 0 THEN Fail(FilterStop(s1, i, bad))
      ELSE [s1 EXCEPT !.flt[i].state = GO]

\* The section case: find the feed of a running filter with the same PID, or
\* allocate one; add a filter to it; start it again.
SecFilterStart(s, i, bad) ==
  LET pid == s.flt[i].params.pid
      same == Running(s, pid)
      shared == IF same = {} THEN Null ELSE s.flt[Min(same)].feed
      s1 == [s EXCEPT !.flt[i].sec = Null, !.flt[i].feed = shared]
      d1 == AllocateSectionFeed(s.dmx)
      k == IF shared = Null THEN d1.ret ELSE shared
      d2 == SectionFeedSet(d1, k, pid)
      sFeed == IF shared = Null THEN [s1 EXCEPT !.dmx = d2, !.flt[i].feed = k]
               ELSE FeedStop(s1, i)
      d3 == AllocateFilter(sFeed.dmx, k, i)
      d4 == SectionFeedStart(d3, k, bad)
      sRestart == FeedRestart([sFeed EXCEPT !.dmx = d3], i, bad)
      s4 == [sFeed EXCEPT !.dmx = d4, !.flt[i].sec = d3.ret]
  IN  IF k < 0 THEN Fail(s1)
      ELSE IF shared = Null /\ d2.ret < 0 THEN Fail(FeedRestart(sFeed, i, bad))
      ELSE IF d3.ret < 0 THEN Fail([sRestart EXCEPT !.dmx = SectionFeedStart(@, k, bad)])
      ELSE IF d4.ret < 0 THEN s4
      ELSE [s4 EXCEPT !.flt[i].timer = IF s.flt[i].params.timed THEN "armed" ELSE "off",
                      !.flt[i].state = GO]

\* dvb_dmxdev_filter_start
FilterStart(s, i, bad) ==
  LET s1 == IF s.flt[i].state >= GO THEN FilterStop(s, i, bad) ELSE s
  IN  CASE s.flt[i].state < SET -> Fail(s)
        [] s.flt[i].state >= SET /\ s1.flt[i].type = "SEC" -> SecFilterStart(s1, i, bad)
        [] s.flt[i].state >= SET /\ s1.flt[i].type = "PES" -> PesFilterStart(s1, i, bad)
        [] OTHER -> Fail(s1)

\* Mutant: a PID added to a running filter waits for the next start.
AddPidNoStart(s, i, pid, bad) ==
  LET f == s.flt[i]
  IN  IF f.type # "PES" \/ f.state < SET \/ (~f.params.multi /\ f.ts # <<>>) THEN Fail(s)
      ELSE [s EXCEPT !.flt[i].ts = <<[pid |-> pid, ts |-> Null]>> \o @]

\* dvb_dmxdev_add_pid
AddPid(s, i, pid, bad) ==
  LET f == s.flt[i]
      s1 == [s EXCEPT !.flt[i].ts = <<[pid |-> pid, ts |-> Null]>> \o @]
  IN  IF f.type # "PES" \/ f.state < SET \/ (~f.params.multi /\ f.ts # <<>>) THEN Fail(s)
      ELSE IF f.state >= GO THEN StartFeed(s1, i, 1, bad)
      ELSE s1

\* dvb_dmxdev_remove_pid
RemovePid(s, i, pid) ==
  LET f == s.flt[i]
      gone(e) == e.pid = pid /\ e.ts # Null
      kept(e) == ~gone(e)
      drop(d, e) == IF gone(e) THEN ReleaseTsFeed(TsFeedStop(d, e.ts), e.ts) ELSE d
  IN  IF f.type # "PES" \/ f.state < SET THEN Fail(s)
      ELSE [s EXCEPT !.dmx = FoldLeft(drop, @, f.ts), !.flt[i].ts = SelectSeq(@, kept)]

\* dvb_dmxdev_filter_set
FilterSet(s, i, params, bad) ==
  [FilterStop(s, i, bad) EXCEPT
     !.flt[i] = [@ EXCEPT !.type = "SEC", !.state = SET,
                          !.params = [pid |-> params.pid, oneshot |-> params.oneshot,
                                      timed |-> params.timed, pes |-> Other, multi |-> FALSE]]]

\* dvb_dmxdev_pes_filter_set
PesFilterSet(s, i, params, pid, bad) ==
  LET s1 == FilterReset(FilterStop(s, i, bad), i)
  IN  AddPid([s1 EXCEPT !.flt[i] = [@ EXCEPT !.type = "PES", !.state = SET, !.ts = <<>>,
                                             !.params = [NoParams EXCEPT !.pes = params.pes,
                                                                         !.multi = params.multi]]],
             i, pid, bad)

-----------------------------------------------------------------------------
(* Actions.                                                                *)

now == [dmx |-> dmx, flt |-> flt]

\* A handler ran, and left the state s.  The parameters of a filter without a
\* type are not read again.
Becomes(s) ==
  /\ dmx' = Forget(s.dmx)
  /\ flt' = [i \in Devs |-> IF s.flt[i].type # "NONE" THEN s.flt[i]
                             ELSE [s.flt[i] EXCEPT !.params = NoParams, !.sec = Null]]

\* What a handler that failed does not undo.  Of several feeds that dvb_dmxdev_filter_start
\* was to start, the first was, and a later one was refused.
StartedPart(s, i) ==
  /\ s.dmx.ret < 0 /\ s.flt[i].type = "PES" /\ Len(s.flt[i].ts) > 1
  /\ Head(s.flt[i].ts).ts \in s.dmx.feed_list

\* The driver refused to start a section feed, and the feed stays.
LeftIdle(s, bad) ==
  \E k \in bad : /\ s.dmx.feed[k].type = "SEC" /\ s.dmx.feed[k].state # DMX_FREE
                 /\ ~s.dmx.feed[k].is_filtering

\* dvb_dmxdev_add_pid put the PID in the list of a running filter, and found no feed.
AddedOnly(s) == s.dmx.ret < 0 /\ s.flt # flt

\* A filter that does not run still has the feed that its last start was refused.
Dangling(i, pid) ==
  /\ flt[i].type = "PES" /\ flt[i].state < GO
  /\ \E n \in DOMAIN flt[i].ts : flt[i].ts[n].pid = pid /\ flt[i].ts[n].ts # Null

Leaves(s, part) == Becomes(s) /\ halfway' = (halfway \/ part)

\* The driver's start_feed fails throughout a call, or not at all.  (A call that starts
\* one feed and is refused another does what two calls do, or ends halfway.)
Bad == IF StartFails THEN {{}, Feeds} ELSE {{}}

\* dvb_demux_open: the first free filter; init_timer.
Open ==
  LET i == FirstFree(flt)
  IN  /\ i # Null
      /\ flt' = [flt EXCEPT ![i] = [@ EXCEPT !.state = ALLOCATED, !.type = "NONE",
                                             !.timer = "off"]]
      /\ open' = open \cup {i}
      /\ UNCHANGED <<dmx, overtaken, halfway>>

\* DMX_START, DMX_STOP
StartFilter(i) ==
  /\ i \in open
  /\ \E bad \in Bad :
       LET s == FilterStart(now, i, bad)
       IN  Leaves(s, StartedPart(s, i) \/ LeftIdle(s, bad))
  /\ UNCHANGED <<open, overtaken>>

StopFilter(i) ==
  /\ i \in open
  /\ \E bad \in Bad :
       LET s == FilterStop(now, i, bad)
       IN  Leaves(s, LeftIdle(s, bad))
  /\ UNCHANGED <<open, overtaken>>

\* DMX_SET_FILTER, with DMX_IMMEDIATE_START or without.
SetFilter(i, params, immediate) ==
  /\ i \in open
  /\ \E bad \in Bad :
       LET set == FilterSet(now, i, params, bad)
           s == IF immediate THEN FilterStart(set, i, bad) ELSE set
       IN  Leaves(s, LeftIdle(s, bad))
  /\ UNCHANGED <<open, overtaken>>

\* DMX_SET_PES_FILTER
SetPesFilter(i, params, pid, immediate) ==
  /\ i \in open
  /\ \E bad \in Bad :
       LET set == PesFilterSet(now, i, params, pid, bad)
           s == IF immediate THEN FilterStart(set, i, bad) ELSE set
       IN  Leaves(s, LeftIdle(s, bad))
  /\ UNCHANGED <<open, overtaken>>

\* DMX_SET_PES_FILTER with a pes_type out of range, found after the stop and reset.
SetPesInvalid(i) ==
  /\ i \in open
  /\ \E bad \in Bad :
       LET s == Fail(FilterReset(FilterStop(now, i, bad), i))
       IN  Leaves(s, LeftIdle(s, bad))
  /\ UNCHANGED <<open, overtaken>>

\* DMX_ADD_PID, DMX_REMOVE_PID
AddPidTo(i, pid) ==
  /\ i \in open /\ Len(flt[i].ts) < MaxPids
  /\ \E bad \in Bad : LET s == AddPid(now, i, pid, bad) IN Leaves(s, AddedOnly(s))
  /\ UNCHANGED <<open, overtaken>>

RemovePidFrom(i, pid) ==
  /\ i \in open
  /\ Leaves(RemovePid(now, i, pid), Dangling(i, pid))
  /\ UNCHANGED <<open, overtaken>>

\* dvb_demux_release / dvb_dmxdev_filter_free
Release(i) ==
  /\ i \in open
  /\ \E bad \in Bad :
       LET s == FilterReset(FilterStop(now, i, bad), i)
       IN  Leaves([s EXCEPT !.flt[i].state = FREE], LeftIdle(s, bad))
  /\ open' = open \ {i} /\ UNCHANGED overtaken

\* dvb_dmxdev_section_callback on a section that matches the demux filter j.
SectionCallback(j) ==
  LET k == dmx.filter[j].feed
      i == dmx.filter[j].priv
  IN  /\ k \in dmx.feed_list /\ dmx.feed[k].type = "SEC" /\ dmx.feed[k].is_filtering
      /\ \E n \in DOMAIN dmx.feed[k].filter : dmx.feed[k].filter[n] = j
      /\ flt[i].state = GO
      /\ flt' = [flt EXCEPT ![i].timer = "off",
                            ![i].state = IF flt[i].params.oneshot THEN DONE ELSE @]
      /\ UNCHANGED <<dmx, open, overtaken, halfway>>

\* dvb_dmxdev_filter_timeout, with nothing in between.
TimerFire(i) ==
  /\ flt[i].timer = "armed"
  /\ flt' = [flt EXCEPT ![i].timer = "off", ![i].state = TIMEDOUT]
  /\ UNCHANGED <<dmx, open, overtaken, halfway>>

\* The same up to spin_lock_irq ...  Bound: one timer function at a time.
TimerEnter(i) ==
  /\ flt[i].timer = "armed" /\ \A n \in Devs : ~flt[n].late
  /\ flt' = [flt EXCEPT ![i].timer = "off", ![i].late = TRUE]
  /\ UNCHANGED <<dmx, open, overtaken, halfway>>

\* ... and from there on, whatever happened to the filter meanwhile.
TimerState(i) ==
  /\ flt[i].late
  /\ flt' = [flt EXCEPT ![i].late = FALSE, ![i].state = TIMEDOUT]
  /\ overtaken' = (overtaken \/ flt[i].state < GO)
  /\ UNCHANGED <<dmx, open, halfway>>

Next ==
  \/ Open
  \/ \E i \in Devs :
       \/ StartFilter(i)
       \/ StopFilter(i)
       \/ \E p \in SecParams, immediate \in BOOLEAN : SetFilter(i, p, immediate)
       \/ \E p \in PesParams, pid \in PesPids, immediate \in BOOLEAN :
            SetPesFilter(i, p, pid, immediate)
       \/ SetPesInvalid(i)
       \/ \E pid \in AddPids : AddPidTo(i, pid)
       \/ \E pid \in AddPids : RemovePidFrom(i, pid)
       \/ Release(i)
       \/ TimerFire(i) \/ TimerEnter(i) \/ TimerState(i)
  \/ \E j \in Filters : SectionCallback(j)

Spec == Init /\ [][Next]_vars

-----------------------------------------------------------------------------
\* The fields of the two tables hold what the code can store in them; no slot
\* number comes from an allocation that failed.
TypeOK ==
  /\ \A k \in Feeds :
       /\ dmx.feed[k].state \in {DMX_FREE, DMX_ALLOCATED, DMX_READY, DMX_GO}
       /\ dmx.feed[k].type \in {"TS", "SEC"} /\ dmx.feed[k].pid \in Nat \cup {NoPid}
       /\ dmx.feed[k].filter \in Seq(Filters)
  /\ \A j \in Filters : dmx.filter[j].state \in {DMX_FREE, DMX_READY}
  /\ dmx.feed_list \subseteq Feeds /\ dmx.pesfilter \in [PesTypes -> Feeds \cup {Null}]
  /\ \A i \in Devs :
       /\ flt[i].state \in FREE .. TIMEDOUT /\ flt[i].type \in {"NONE", "SEC", "PES"}
       /\ flt[i].feed \in Feeds \cup {Null} /\ flt[i].sec \in Filters \cup {Null}
       /\ flt[i].ts \in Seq([pid : PesPids \cup AddPids, ts : Feeds \cup {Null}])
       /\ flt[i].timer \in {"off", "armed"} /\ flt[i].late \in BOOLEAN
  /\ open \subseteq Devs

\* A filter slot is in use exactly as long as an open file has it: no timer that
\* fires after release() takes the slot from dvb_demux_open for good.  Only a
\* timer function that del_timer did not wait for can do so.  No slot, of the
\* filters or of the demux, comes from an allocation that failed (TypeOK).
SlotsOwned ==
  /\ TypeOK
  /\ overtaken \/ open = {i \in Devs : flt[i].state # FREE}

\* No call goes through a NULL feed pointer, stops a feed that is filtering
\* inside release_filter (which would take demux->mutex twice) or walks off
\* the end of a filter chain; unless a timer function, overtaken by the stop,
\* marked a stopped filter as TIMEDOUT, which dvb_dmxdev_feed_restart then takes
\* for one with a feed, or a call failed halfway: a PID that DMX_ADD_PID found no
\* feed for stays in the list of the running filter with feed->ts NULL, and one
\* whose start was refused with the feed of somebody else.
NoOops == overtaken \/ halfway \/ ~dmx.oops

\* A section filter that is running, or done, or timed out, sits in the chain of
\* a feed that filters its PID, and so do all the others on that PID, in the
\* same chain: starting and stopping one leaves the others served, as long as the
\* driver starts the feed that they share again.
SectionsServed ==
  ~overtaken /\ ~halfway => \A i \in Devs : flt[i].type = "SEC" /\ flt[i].state >= GO =>
    LET k == flt[i].feed
    IN  /\ k \in dmx.feed_list
        /\ dmx.feed[k].type = "SEC" /\ dmx.feed[k].state = DMX_GO /\ dmx.feed[k].is_filtering
        /\ dmx.feed[k].pid = flt[i].params.pid
        /\ \E n \in DOMAIN dmx.feed[k].filter : dmx.feed[k].filter[n] = flt[i].sec
        /\ dmx.filter[flt[i].sec].priv = i
        /\ \A n \in Running(now, flt[i].params.pid) : flt[n].feed = k

\* Each PID of a running PES filter has a TS feed of its own that filters it, also
\* after starts of this and of other filters that were refused; until one of the
\* calls that leave a PID behind (see halfway).
PesServed ==
  ~overtaken /\ ~halfway => \A i \in Devs : flt[i].type = "PES" /\ flt[i].state >= GO =>
    \A n \in DOMAIN flt[i].ts :
      LET k == flt[i].ts[n].ts
      IN  /\ k \in dmx.feed_list
          /\ dmx.feed[k].type = "TS" /\ dmx.feed[k].state = DMX_GO
          /\ dmx.feed[k].pid = flt[i].ts[n].pid
          /\ dmx.filter[Head(dmx.feed[k].filter)].priv = i
          /\ \A m \in DOMAIN flt[i].ts : m # n => flt[i].ts[m].ts # k

\* What the running filters account for.
UsedFeeds == ({flt[i].feed : i \in {n \in Devs : flt[n].type = "SEC" /\ flt[n].state >= GO}}
             \cup UNION {{flt[i].ts[n].ts : n \in DOMAIN flt[i].ts} :
                         i \in {n \in Devs : flt[n].type = "PES" /\ flt[n].state >= GO}})
             \ {Null}

\* Nothing leaks: a slot of the demux that is not free belongs to a running
\* filter, so closing every file gives all feeds, filters and decoders back,
\* whatever was refused on the way for lack of slots, for a decoder that is taken
\* or by the driver; but for the refusals that leave feeds behind (see halfway): of
\* a later one of several PIDs, and of the driver for a section feed.
NoLeak == ~overtaken /\ ~halfway =>
  /\ {k \in Feeds : dmx.feed[k].state # DMX_FREE} = UsedFeeds
  /\ dmx.feed_list = UsedFeeds
  /\ \A j \in Filters : dmx.filter[j].state # DMX_FREE =>
       /\ dmx.filter[j].feed \in UsedFeeds
       /\ \E n \in DOMAIN dmx.feed[dmx.filter[j].feed].filter :
            dmx.feed[dmx.filter[j].feed].filter[n] = j
  /\ \A p \in PesTypes : dmx.pesfilter[p] \in UsedFeeds \cup {Null}
=============================================================================
