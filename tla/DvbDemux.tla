------------------------------ MODULE DvbDemux ------------------------------
(***************************************************************************)
(* The feeds and filters of dvb_demux.c: the functions behind struct       *)
(* dmx_demux, dmx_ts_feed and dmx_section_feed.  Each of them runs under   *)
(* demux->mutex and is an operator from a state d of the demux to the      *)
(* state it leaves behind, with the return value in d.ret: negative for an *)
(* error, the slot for an allocation.                                      *)
(*                                                                         *)
(* A slot that is released keeps what it held, as the array does, until    *)
(* the call that released it is over; see Forget.                          *)
(***************************************************************************)
EXTENDS Integers, Sequences, FiniteSets, FiniteSetsExt, SequencesExt

CONSTANTS FeedNum,    \* demux->feednum
          FilterNum,  \* demux->filternum
          MaxPid,     \* 0x1fff; one more asks a TS feed for the whole stream
          PesTypes,   \* dmx_ts_pes below DMX_TS_PES_OTHER
          Stale       \* TRUE: the slots hold anything before their first use

ASSUME DemuxAssumption ==
  /\ FeedNum \in Nat /\ FilterNum \in Nat /\ MaxPid \in Nat /\ Stale \in BOOLEAN
  /\ IsFiniteSet(PesTypes)

Feeds == 1 .. FeedNum
Filters == 1 .. FilterNum
Other == "other"       \* DMX_TS_PES_OTHER
NoPid == -1            \* 0xffff
Null == 0

\* enum dmx_state
DMX_FREE == 0
DMX_ALLOCATED == 1
DMX_READY == 3
DMX_GO == 4

\* feed: filter is the chain of filters from feed->filter on, decoder says
\* whether TS_DECODER is in ts_type.  filter: priv is the client's cookie; for
\* a TS feed it is kept here, in the one filter that the feed has.
FeedRec(decoder, pes) ==
  [state |-> DMX_FREE, type |-> "TS", pid |-> NoPid, filter |-> <<>>,
   is_filtering |-> FALSE, decoder |-> decoder, pes |-> pes]

\* dvb_dmx_init: the arrays come from vmalloc, only the state is set.
DemuxInit ==
  {[feed |-> [k \in Feeds |-> FeedRec(old[k] # Other, old[k])],
    filter |-> [j \in Filters |-> [state |-> DMX_FREE, feed |-> Null, priv |-> Null]],
    feed_list |-> {}, pesfilter |-> [p \in PesTypes |-> Null],
    ret |-> 0, oops |-> FALSE] :
   old \in [Feeds -> IF Stale THEN PesTypes \cup {Other} ELSE {Other}]}

Ok(d) == [d EXCEPT !.ret = 0]
Err(d) == [d EXCEPT !.ret = -1]
Oops(d) == [d EXCEPT !.ret = -1, !.oops = TRUE]

\* Between calls, what a free slot holds no longer matters, but for decoder and
\* pes: the rest is overwritten by the next allocation before it is read.
Forget(d) ==
  [d EXCEPT !.ret = 0,
            !.feed = [k \in Feeds |-> IF d.feed[k].state = DMX_FREE
                                        THEN FeedRec(d.feed[k].decoder, d.feed[k].pes)
                                        ELSE d.feed[k]],
            !.filter = [j \in Filters |-> IF d.filter[j].state = DMX_FREE
                                            THEN [state |-> DMX_FREE, feed |-> Null, priv |-> Null]
                                            ELSE d.filter[j]]]

\* dvb_dmx_feed_alloc, dvb_dmx_filter_alloc: the first free slot, or Null.
FirstFree(tab) == LET free == {k \in DOMAIN tab : tab[k].state = DMX_FREE}
                  IN  IF free = {} THEN Null ELSE Min(free)

\* dvb_demux_feed_add, _del; a feed that is not in the list is only reported.
FeedAdd(d, k) == [d EXCEPT !.feed_list = @ \cup {k}]
FeedDel(d, k) == [d EXCEPT !.feed_list = @ \ {k}]

-----------------------------------------------------------------------------
(* TS feeds.                                                               *)

\* dvbdmx_allocate_ts_feed, and the client's store to ts_feed->priv.
AllocateTsFeed(d, priv) ==
  LET k == FirstFree(d.feed)
      j == FirstFree(d.filter)
      fresh == [d.feed[k] EXCEPT !.type = "TS", !.pid = NoPid, !.is_filtering = FALSE]
  IN  CASE k = Null -> Err(d)
        [] k # Null /\ j = Null -> Err([d EXCEPT !.feed[k] = [fresh EXCEPT !.filter = <<>>]])
        [] OTHER -> [d EXCEPT !.feed[k] = [fresh EXCEPT !.state = DMX_ALLOCATED, !.filter = <<j>>],
                              !.filter[j] = [state |-> DMX_READY, feed |-> k, priv |-> priv],
                              !.ret = k]

\* dmx_ts_feed_set; TS_DECODER is in ts_type just for pes_type < DMX_TS_PES_OTHER.
TsFeedSet(d, k, pid, pes) ==
  IF pid > MaxPid + 1 \/ (pes \in PesTypes /\ d.pesfilter[pes] \notin {Null, k})
    THEN Err(d)
    ELSE LET d1 == IF pes \in PesTypes THEN [d EXCEPT !.pesfilter[pes] = k] ELSE d
         IN  Ok([FeedAdd(d1, k) EXCEPT
                   !.feed[k] = [@ EXCEPT !.pid = pid, !.decoder = pes \in PesTypes,
                                         !.pes = pes, !.state = DMX_READY]])

\* dmx_ts_feed_start_filtering; the driver's start_feed fails on the feeds in bad.
TsFeedStart(d, k, bad) ==
  IF d.feed[k].state # DMX_READY \/ d.feed[k].type # "TS" \/ k \in bad
    THEN Err(d)
    ELSE Ok([d EXCEPT !.feed[k].is_filtering = TRUE, !.feed[k].state = DMX_GO])

\* dmx_ts_feed_stop_filtering
TsFeedStop(d, k) ==
  CASE k = Null -> Oops(d)
    [] k # Null /\ d.feed[k].state < DMX_GO -> Err(d)
    [] OTHER -> Ok([d EXCEPT !.feed[k].is_filtering = FALSE, !.feed[k].state = DMX_ALLOCATED])

\* dvbdmx_release_ts_feed; decoder and pes are what the last set() stored.
ReleaseTsFeed(d, k) ==
  IF k = Null THEN Oops(d)
  ELSE IF d.feed[k].state = DMX_FREE THEN Err(d)
  ELSE IF d.feed[k].filter = <<>> THEN Oops(d)
  ELSE LET f == d.feed[k]
           d1 == [d EXCEPT !.feed[k].state = DMX_FREE, !.feed[k].pid = NoPid,
                           !.filter[Head(f.filter)].state = DMX_FREE]
           d2 == FeedDel(d1, k)
       IN  Ok(IF f.decoder THEN [d2 EXCEPT !.pesfilter[f.pes] = Null] ELSE d2)

-----------------------------------------------------------------------------
(* Section feeds.                                                          *)

\* dvbdmx_allocate_section_feed
AllocateSectionFeed(d) ==
  LET k == FirstFree(d.feed)
  IN  IF k = Null THEN Err(d)
      ELSE [d EXCEPT !.feed[k] = [@ EXCEPT !.state = DMX_ALLOCATED, !.type = "SEC", !.pid = NoPid,
                                           !.filter = <<>>, !.is_filtering = FALSE],
                     !.ret = k]

\* dmx_section_feed_set
SectionFeedSet(d, k, pid) ==
  IF pid > MaxPid THEN Err(d)
  ELSE Ok([FeedAdd(d, k) EXCEPT !.feed[k].pid = pid, !.feed[k].state = DMX_READY])

\* dmx_section_feed_allocate_filter, and the client's store to filter->priv.
AllocateFilter(d, k, priv) ==
  LET j == FirstFree(d.filter)
  IN  IF j = Null THEN Err(d)
      ELSE [d EXCEPT !.filter[j] = [state |-> DMX_READY, feed |-> k, priv |-> priv],
                     !.feed[k].filter = <<j>> \o @,
                     !.ret = j]

\* dmx_section_feed_start_filtering
SectionFeedStart(d, k, bad) ==
  CASE k = Null -> Oops(d)
    [] k # Null /\ (d.feed[k].is_filtering \/ d.feed[k].filter = <<>> \/ k \in bad) -> Err(d)
    [] OTHER -> Ok([d EXCEPT !.feed[k].is_filtering = TRUE, !.feed[k].state = DMX_GO])

\* dmx_section_feed_stop_filtering
SectionFeedStop(d, k) ==
  IF k = Null THEN Oops(d)
  ELSE Ok([d EXCEPT !.feed[k].is_filtering = FALSE, !.feed[k].state = DMX_READY])

\* Mutant: the first filter of the chain goes, whichever was meant.
ReleaseFilterHead(d, k, j) ==
  IF d.filter[j].feed # k THEN Err(d)
  ELSE Ok([d EXCEPT !.feed[k].filter = Tail(@), !.filter[j].state = DMX_FREE])

\* dmx_section_feed_release_filter: called while filtering it would take
\* demux->mutex twice, and it runs off the end of a chain without j.
ReleaseFilter(d, k, j) ==
  IF d.filter[j].feed # k THEN Err(d)
  ELSE LET chain == d.feed[k].filter
           at == {n \in DOMAIN chain : chain[n] = j}
       IN  IF d.feed[k].is_filtering \/ at = {} THEN Oops(d)
           ELSE Ok([d EXCEPT !.feed[k].filter = RemoveAt(chain, Min(at)),
                             !.filter[j].state = DMX_FREE])

\* dvbdmx_release_section_feed
ReleaseSectionFeed(d, k) ==
  IF d.feed[k].state = DMX_FREE THEN Err(d)
  ELSE Ok(FeedDel([d EXCEPT !.feed[k].state = DMX_FREE, !.feed[k].pid = NoPid], k))
=============================================================================
