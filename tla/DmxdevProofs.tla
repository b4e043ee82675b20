----------------------------- MODULE DmxdevProofs -----------------------------
(***************************************************************************)
(* The demux device for any number of filters, PIDs, feeds and demux       *)
(* filters, any decoders, and whatever the arrays of the demux held before *)
(* their first use: which slots of the demux the filters of the device     *)
(* have, and that no other slot is in use.                                 *)
(*                                                                         *)
(* The hypothesis is SinglePids: the driver's start_feed does not fail,    *)
(* and DMX_ADD_PID and DMX_REMOVE_PID are not used.                        *)
(***************************************************************************)
EXTENDS Dmxdev, WellFoundedInduction, TLAPS

SinglePids == ~StartFails /\ AddPids = {}

FeedSet == [state : {DMX_FREE, DMX_ALLOCATED, DMX_READY, DMX_GO}, type : {"TS", "SEC"},
            pid : Nat \cup {NoPid}, filter : Seq(Filters), is_filtering : BOOLEAN,
            decoder : BOOLEAN, pes : PesTypes \cup {Other}]
SlotSet == [state : {DMX_FREE, DMX_READY}, feed : Feeds \cup {Null}, priv : Devs \cup {Null}]
DemuxSet == [feed : [Feeds -> FeedSet], filter : [Filters -> SlotSet], feed_list : SUBSET Feeds,
             pesfilter : [PesTypes -> Feeds \cup {Null}], ret : Int, oops : BOOLEAN]

ParamSet == [pid : Nat \cup {NoPid}, oneshot : BOOLEAN, timed : BOOLEAN,
             pes : PesTypes \cup {Other}, multi : BOOLEAN]
EntrySet == [pid : PesPids \cup AddPids, ts : Feeds \cup {Null}]
DevSet == [state : FREE .. TIMEDOUT, type : {"NONE", "SEC", "PES"}, params : ParamSet,
           feed : Feeds \cup {Null}, sec : Filters \cup {Null}, ts : Seq(EntrySet),
           timer : {"off", "armed"}, late : BOOLEAN]

\* A PES filter has one PID.
Typed(s) ==
  /\ s \in [dmx : DemuxSet, flt : [Devs -> DevSet]]
  /\ \A i \in Devs : s.flt[i].type = "PES" => Len(s.flt[i].ts) = 1

Sec(s, i) == s.flt[i].type = "SEC" /\ s.flt[i].state >= GO
Pes(s, i) == s.flt[i].type = "PES" /\ s.flt[i].state >= GO

\* Filter j is in the chain of feed k.
InChain(d, k, j) == \E n \in DOMAIN d.feed[k].filter : d.feed[k].filter[n] = j

\* A filter has a type from DMX_SET_FILTER or DMX_SET_PES_FILTER on until it is closed;
\* only that of a running section filter has a timer.
StatesInv(s) == \A i \in Devs : /\ s.flt[i].type = "NONE" <=> s.flt[i].state < SET
                                /\ s.flt[i].timer = "armed" => Sec(s, i)

\* Demux filter j of filter i is in the chain of a feed k that filters the PID.
SecLink(d, i, pid, k, j) ==
  /\ k \in Feeds /\ j \in Filters
  /\ d.feed[k].state = DMX_GO /\ d.feed[k].type = "SEC" /\ d.feed[k].is_filtering
  /\ d.feed[k].pid = pid
  /\ d.filter[j] = [state |-> DMX_READY, feed |-> k, priv |-> i]
  /\ InChain(d, k, j)

\* Feed k filters the PID, for filter i alone.
PesLink(d, i, pid, k) ==
  /\ k \in Feeds
  /\ d.feed[k].state = DMX_GO /\ d.feed[k].type = "TS" /\ d.feed[k].pid = pid
  /\ \E j \in Filters : /\ d.feed[k].filter = <<j>>
                        /\ d.filter[j] = [state |-> DMX_READY, feed |-> k, priv |-> i]

\* A running filter has what it needs of the demux.
SecInv(s) == \A i \in Devs :
  Sec(s, i) => SecLink(s.dmx, i, s.flt[i].params.pid, s.flt[i].feed, s.flt[i].sec)
PesInv(s) == \A i \in Devs :
  Pes(s, i) => PesLink(s.dmx, i, s.flt[i].ts[1].pid, s.flt[i].ts[1].ts)

\* Section filters on the same PID have the same feed.
ShareInv(s) ==
  \A i, n \in Devs : Sec(s, i) /\ Sec(s, n) /\ s.flt[i].params.pid = s.flt[n].params.pid =>
    s.flt[i].feed = s.flt[n].feed

\* The other way round: what is in a chain is in use, ...
ChainInv(s) ==
  \A k \in Feeds : s.dmx.feed[k].state # DMX_FREE =>
    /\ s.dmx.feed[k].filter # <<>>
    /\ \A m, n \in DOMAIN s.dmx.feed[k].filter : s.dmx.feed[k].filter[m] = s.dmx.feed[k].filter[n] => m = n
    /\ \A j \in Filters : InChain(s.dmx, k, j) =>
         s.dmx.filter[j].state # DMX_FREE /\ s.dmx.filter[j].feed = k

\* ... and a demux filter in use belongs to a filter that runs.
OwnerInv(s) ==
  \A j \in Filters : s.dmx.filter[j].state # DMX_FREE =>
    LET i == s.dmx.filter[j].priv
        k == s.dmx.filter[j].feed
    IN  /\ i \in Devs /\ k \in Feeds
        /\ \/ Sec(s, i) /\ s.flt[i].sec = j /\ s.flt[i].feed = k
           \/ Pes(s, i) /\ s.flt[i].ts[1].ts = k /\ s.dmx.feed[k].filter = <<j>>

\* The feeds in use are those of the list; a decoder that is taken is the one of a feed.
ListInv(s) ==
  /\ s.dmx.feed_list = {k \in Feeds : s.dmx.feed[k].state # DMX_FREE}
  /\ \A p \in PesTypes : s.dmx.pesfilter[p] # Null =>
       LET k == s.dmx.pesfilter[p]
       IN  /\ k \in s.dmx.feed_list /\ s.dmx.feed[k].type = "TS"
           /\ s.dmx.feed[k].decoder /\ s.dmx.feed[k].pes = p

Linked(s) == /\ StatesInv(s) /\ SecInv(s) /\ ShareInv(s) /\ PesInv(s)
             /\ ChainInv(s) /\ OwnerInv(s) /\ ListInv(s) /\ ~s.dmx.oops

DevInv == /\ Typed(now) /\ open \subseteq Devs /\ overtaken \in BOOLEAN
          /\ ~overtaken => Linked(now) /\ open = {i \in Devs : flt[i].state # FREE}

-----------------------------------------------------------------------------
(* Slots and lists.                                                        *)

LEMMA Constants ==
  /\ Feeds \subseteq Nat /\ Filters \subseteq Nat /\ Devs \subseteq Nat
  /\ Null \notin Feeds /\ Null \notin Filters /\ Null \notin Devs
  /\ \A k \in Feeds \cup Filters : k > 0
  /\ FeedNum \in Nat /\ FilterNum \in Nat /\ NFilters \in Nat
  BY DemuxAssumption, DmxdevAssumption DEF Feeds, Filters, Devs, Null

\* A set of natural numbers has a least element, which Min returns.
LEMMA MinFacts ==
  ASSUME NEW S, S \subseteq Nat, S # {}
  PROVE  Min(S) \in S
  <1>1. PICK i \in S : \A j \in S : ~(<<j, i>> \in OpToRel(<, Nat))
    BY NatLessThanWellFounded, WFMin
  <1>2. ASSUME NEW j \in S PROVE i =< j
    <2>1. j \in Nat /\ i \in Nat
      OBVIOUS
    <2>2. j < i => <<j, i>> \in OpToRel(<, Nat)
      BY <2>1 DEF OpToRel
    <2>3. ~(j < i)
      BY <1>1, <2>2
    <2> QED
      BY <2>1, <2>3
  <1> QED
    BY <1>2 DEF Min

\* dvb_dmx_feed_alloc and its like return a free slot, or there is none.
LEMMA FirstFreeFacts ==
  ASSUME NEW n \in Nat, NEW tab, DOMAIN tab = 1 .. n
  PROVE  \/ FirstFree(tab) = Null /\ \A k \in 1 .. n : tab[k].state # DMX_FREE
         \/ FirstFree(tab) \in 1 .. n /\ tab[FirstFree(tab)].state = DMX_FREE
  <1> DEFINE free == {k \in DOMAIN tab : tab[k].state = DMX_FREE}
  <1>1. FirstFree(tab) = IF free = {} THEN Null ELSE Min(free)
    BY DEF FirstFree
  <1>2. free # {} => Min(free) \in free
    BY MinFacts
  <1> QED
    BY <1>1, <1>2

\* What is left of a list without the element at n.
LEMMA RemoveFacts ==
  ASSUME NEW S, NEW l \in Seq(S), NEW n \in 1 .. Len(l)
  PROVE  /\ RemoveAt(l, n) \in Seq(S) /\ Len(RemoveAt(l, n)) = Len(l) - 1
         /\ \A m \in 1 .. Len(l) - 1 : RemoveAt(l, n)[m] = IF m < n THEN l[m] ELSE l[m + 1]
  <1> DEFINE a == SubSeq(l, 1, n - 1)
             b == SubSeq(l, n + 1, Len(l))
  <1>1. a \in Seq(S) /\ Len(a) = n - 1 /\ \A m \in 1 .. n - 1 : a[m] = l[m]
    OBVIOUS
  <1>2. b \in Seq(S) /\ Len(b) = Len(l) - n /\ \A m \in 1 .. Len(l) - n : b[m] = l[n + m]
    OBVIOUS
  <1>3. RemoveAt(l, n) = a \o b
    BY DEF RemoveAt
  <1> HIDE DEF a, b
  <1>4. a \o b \in Seq(S) /\ Len(a \o b) = Len(a) + Len(b)
    <2>1. a \in Seq(S) /\ b \in Seq(S)
      BY <1>1, <1>2
    <2> QED
      BY <2>1
  <1>5. ASSUME NEW m \in 1 .. Len(l) - 1 PROVE (a \o b)[m] = IF m < n THEN l[m] ELSE l[m + 1]
    <2>1. CASE m < n
      BY <1>1, <1>2, <2>1
    <2>2. CASE ~(m < n)
      <3>1. (a \o b)[m] = b[m - Len(a)]
        BY <1>1, <1>2, <2>2
      <3>2. m - (n - 1) \in 1 .. Len(l) - n /\ n + (m - (n - 1)) = m + 1
        BY <2>2
      <3> QED
        BY <1>1, <1>2, <2>2, <3>1, <3>2
    <2> QED
      BY <2>1, <2>2
  <1> QED
    BY <1>1, <1>2, <1>3, <1>4, <1>5

\* The loops over the list of a PES filter, which has one element.
LEMMA StopOne ==
  ASSUME NEW d, NEW e
  PROVE  StopTsFeeds(d, <<e>>) = TsFeedStop(d, e.ts)
  <1> DEFINE l == <<e>>
             F(g) == [s \in SUBSET DOMAIN l |->
                       IF s = {} THEN d ELSE LET x == Max(s) IN TsFeedStop(g[s \ {x}], l[x].ts)]
             it == CHOOSE g : g = F(g)
             h == [s \in SUBSET DOMAIN l |-> IF s = {} THEN d ELSE TsFeedStop(d, e.ts)]
  <1>1. StopTsFeeds(d, l) = it[DOMAIN l]
    BY Zenon DEF StopTsFeeds, FoldLeft, MapThenFoldSet
  <1>2. DOMAIN l = {1} /\ l[1] = e /\ Max({1}) = 1
    BY DEF Max
  <1> HIDE DEF l
  <1>3. h = F(h)
    BY <1>2
  <1>4. it = F(it)
    BY <1>3
  <1> HIDE DEF it
  <1>5. it[{}] = d
    BY <1>2, <1>4
  <1>6. it[{1}] = TsFeedStop(d, e.ts)
    <2>1. {1} \in SUBSET DOMAIN l /\ {1} # {} /\ {1} \ {Max({1})} = {}
      BY <1>2
    <2>2. it[{1}] = TsFeedStop(it[{1} \ {Max({1})}], l[Max({1})].ts)
      BY <1>4, <2>1
    <2> QED
      BY <1>2, <1>5, <2>1, <2>2
  <1> QED
    BY <1>1, <1>2, <1>6 DEF l

LEMMA ReleaseOne ==
  ASSUME NEW d, NEW e
  PROVE  ReleaseTsFeeds(d, <<e>>) = ReleaseTsFeed(d, e.ts)
  <1> DEFINE l == <<e>>
             F(g) == [s \in SUBSET DOMAIN l |->
                       IF s = {} THEN d ELSE LET x == Max(s) IN ReleaseTsFeed(g[s \ {x}], l[x].ts)]
             it == CHOOSE g : g = F(g)
             h == [s \in SUBSET DOMAIN l |-> IF s = {} THEN d ELSE ReleaseTsFeed(d, e.ts)]
  <1>1. ReleaseTsFeeds(d, l) = it[DOMAIN l]
    BY Zenon DEF ReleaseTsFeeds, FoldLeft, MapThenFoldSet
  <1>2. DOMAIN l = {1} /\ l[1] = e /\ Max({1}) = 1
    BY DEF Max
  <1> HIDE DEF l
  <1>3. h = F(h)
    BY <1>2
  <1>4. it = F(it)
    BY <1>3
  <1> HIDE DEF it
  <1>5. it[{}] = d
    BY <1>2, <1>4
  <1>6. it[{1}] = ReleaseTsFeed(d, e.ts)
    <2>1. {1} \in SUBSET DOMAIN l /\ {1} # {} /\ {1} \ {Max({1})} = {}
      BY <1>2
    <2>2. it[{1}] = ReleaseTsFeed(it[{1} \ {Max({1})}], l[Max({1})].ts)
      BY <1>4, <2>1
    <2> QED
      BY <1>2, <1>5, <2>1, <2>2
  <1> QED
    BY <1>1, <1>2, <1>6 DEF l

LEMMA ClearOne ==
  ASSUME NEW e
  PROVE  ClearTsFeeds(<<e>>) = <<[e EXCEPT !.ts = Null]>>
  <1> DEFINE l == <<e>>
             F(g) == [s \in SUBSET DOMAIN l |->
                       IF s = {} THEN <<>>
                       ELSE LET x == Max(s) IN Append(g[s \ {x}], [l[x] EXCEPT !.ts = Null])]
             it == CHOOSE g : g = F(g)
             h == [s \in SUBSET DOMAIN l |-> IF s = {} THEN <<>> ELSE Append(<<>>, [e EXCEPT !.ts = Null])]
  <1>1. ClearTsFeeds(l) = it[DOMAIN l]
    BY Zenon DEF ClearTsFeeds, FoldLeft, MapThenFoldSet
  <1>2. DOMAIN l = {1} /\ l[1] = e /\ Max({1}) = 1
    BY DEF Max
  <1> HIDE DEF l
  <1>3. h = F(h)
    BY <1>2
  <1>4. it = F(it)
    BY <1>3
  <1> HIDE DEF it
  <1>5. it[{}] = <<>>
    BY <1>2, <1>4
  <1>6. it[{1}] = Append(<<>>, [e EXCEPT !.ts = Null])
    <2>1. {1} \in SUBSET DOMAIN l /\ {1} # {} /\ {1} \ {Max({1})} = {}
      BY <1>2
    <2>2. it[{1}] = Append(it[{1} \ {Max({1})}], [l[Max({1})] EXCEPT !.ts = Null])
      BY <1>4, <2>1
    <2> QED
      BY <1>2, <1>5, <2>1, <2>2
  <1> QED
    BY <1>1, <1>2, <1>6 DEF l

LEMMA StartOne ==
  ASSUME NEW s, NEW i, NEW bad, DOMAIN s.flt[i].ts = {1}
  PROVE  StartFeeds(s, i, bad) =
           LET s1 == [s EXCEPT !.dmx = Ok(@)]
           IN  IF s1.dmx.ret < 0 THEN s1 ELSE StartFeed(s1, i, 1, bad)
  <1> DEFINE l == [n \in DOMAIN s.flt[i].ts |-> n]
             s1 == [s EXCEPT !.dmx = Ok(@)]
             start(a, n) == IF a.dmx.ret < 0 THEN a ELSE StartFeed(a, i, n, bad)
             F(g) == [S \in SUBSET DOMAIN l |->
                       IF S = {} THEN s1 ELSE LET x == Max(S) IN start(g[S \ {x}], l[x])]
             it == CHOOSE g : g = F(g)
             h == [S \in SUBSET DOMAIN l |-> IF S = {} THEN s1 ELSE start(s1, 1)]
  <1>1. StartFeeds(s, i, bad) = it[DOMAIN l]
    BY Zenon DEF StartFeeds, FoldLeft, MapThenFoldSet
  <1>2. DOMAIN l = {1} /\ l[1] = 1 /\ Max({1}) = 1
    BY DEF Max
  <1> HIDE DEF l, s1, start
  <1>3. h = F(h)
    BY <1>2
  <1>4. it = F(it)
    BY <1>3
  <1> HIDE DEF it
  <1>5. it[{}] = s1
    BY <1>2, <1>4
  <1>6. it[{1}] = start(s1, 1)
    <2>1. {1} \in SUBSET DOMAIN l /\ {1} # {} /\ {1} \ {Max({1})} = {}
      BY <1>2
    <2>2. it[{1}] = start(it[{1} \ {Max({1})}], l[Max({1})])
      BY <1>4, <2>1
    <2> QED
      BY <1>2, <1>5, <2>1, <2>2
  <1> QED
    BY <1>1, <1>2, <1>6 DEF s1, start

-----------------------------------------------------------------------------
(* The operations of the demux.                                            *)

\* From d, an operation makes r: its feeds F, its filters G, its list L of feeds on which
\* the demux filters, and its decoders P.
Effect(d, r, F, G, L, P) == /\ r \in DemuxSet /\ r.feed = F /\ r.filter = G
                            /\ r.feed_list = L /\ r.pesfilter = P /\ r.oops = d.oops

LEMMA FieldTypes ==
  ASSUME NEW d \in DemuxSet
  PROVE  /\ d.feed \in [Feeds -> FeedSet] /\ d.filter \in [Filters -> SlotSet]
         /\ d.feed_list \subseteq Feeds /\ d.pesfilter \in [PesTypes -> Feeds \cup {Null}]
         /\ d.ret \in Int /\ d.oops \in BOOLEAN
         /\ \A k \in Feeds : d.feed[k] \in FeedSet
         /\ \A j \in Filters : d.filter[j] \in SlotSet
  BY DEF DemuxSet

LEMMA Results ==
  ASSUME NEW d \in DemuxSet
  PROVE  /\ Effect(d, Ok(d), d.feed, d.filter, d.feed_list, d.pesfilter) /\ Ok(d).ret = 0
         /\ Effect(d, Err(d), d.feed, d.filter, d.feed_list, d.pesfilter) /\ Err(d).ret = -1
         /\ Oops(d) \in DemuxSet
  <1>1. Effect(d, Ok(d), d.feed, d.filter, d.feed_list, d.pesfilter) /\ Ok(d).ret = 0
    BY DEF DemuxSet, Effect, Ok
  <1>2. Effect(d, Err(d), d.feed, d.filter, d.feed_list, d.pesfilter) /\ Err(d).ret = -1
    BY DEF DemuxSet, Effect, Err
  <1>3. Oops(d) \in DemuxSet
    <2>1. [Err(d) EXCEPT !.oops = TRUE] \in DemuxSet
      BY <1>2 DEF DemuxSet, Effect
    <2>2. Oops(d) = [Err(d) EXCEPT !.oops = TRUE]
      BY DEF DemuxSet, Err, Oops
    <2> QED
      BY <2>1, <2>2
  <1> QED
    BY <1>1, <1>2, <1>3

\* d with f in the slot of feed k, with x in that of filter j, with k for the decoder p.
PutFeed(d, k, f) == [d EXCEPT !.feed[k] = f]
PutFilter(d, j, x) == [d EXCEPT !.filter[j] = x]
PutPes(d, p, k) == [d EXCEPT !.pesfilter[p] = k]

LEMMA Puts ==
  ASSUME NEW d \in DemuxSet, NEW k \in Feeds
  PROVE  /\ \A f \in FeedSet :
              /\ Effect(d, PutFeed(d, k, f), [d.feed EXCEPT ![k] = f], d.filter, d.feed_list, d.pesfilter)
              /\ PutFeed(d, k, f).ret = d.ret
         /\ \A j \in Filters, x \in SlotSet :
              /\ Effect(d, PutFilter(d, j, x), d.feed, [d.filter EXCEPT ![j] = x], d.feed_list, d.pesfilter)
              /\ PutFilter(d, j, x).ret = d.ret
         /\ \A n \in Feeds \cup {Null}, p \in PesTypes \cup {Other} :
              /\ Effect(d, PutPes(d, p, n), d.feed, d.filter, d.feed_list, [d.pesfilter EXCEPT ![p] = n])
              /\ PutPes(d, p, n).ret = d.ret
         /\ Effect(d, FeedAdd(d, k), d.feed, d.filter, d.feed_list \cup {k}, d.pesfilter)
         /\ Effect(d, FeedDel(d, k), d.feed, d.filter, d.feed_list \ {k}, d.pesfilter)
  <1>1. ASSUME NEW f \in FeedSet
        PROVE  /\ Effect(d, PutFeed(d, k, f), [d.feed EXCEPT ![k] = f], d.filter, d.feed_list, d.pesfilter)
               /\ PutFeed(d, k, f).ret = d.ret
    BY DEF Effect, DemuxSet, PutFeed
  <1>2. ASSUME NEW j \in Filters, NEW x \in SlotSet
        PROVE  /\ Effect(d, PutFilter(d, j, x), d.feed, [d.filter EXCEPT ![j] = x], d.feed_list, d.pesfilter)
               /\ PutFilter(d, j, x).ret = d.ret
    BY DEF Effect, DemuxSet, PutFilter
  <1>3. ASSUME NEW n \in Feeds \cup {Null}, NEW p \in PesTypes \cup {Other}
        PROVE  /\ Effect(d, PutPes(d, p, n), d.feed, d.filter, d.feed_list, [d.pesfilter EXCEPT ![p] = n])
               /\ PutPes(d, p, n).ret = d.ret
    BY DEF Effect, DemuxSet, PutPes
  <1>4. Effect(d, FeedAdd(d, k), d.feed, d.filter, d.feed_list \cup {k}, d.pesfilter)
    BY DEF Effect, DemuxSet, FeedAdd
  <1>5. Effect(d, FeedDel(d, k), d.feed, d.filter, d.feed_list \ {k}, d.pesfilter)
    BY DEF Effect, DemuxSet, FeedDel
  <1> QED
    BY <1>1, <1>2, <1>3, <1>4, <1>5

\* What the operations store in a feed.
Stopped(f) == [f EXCEPT !.is_filtering = FALSE, !.state = DMX_READY]
Started(f) == [f EXCEPT !.is_filtering = TRUE, !.state = DMX_GO]
Freed(f) == [f EXCEPT !.state = DMX_FREE, !.pid = NoPid]
Halted(f) == [f EXCEPT !.is_filtering = FALSE, !.state = DMX_ALLOCATED]
WithPid(f, pid) == [f EXCEPT !.pid = pid, !.state = DMX_READY]
WithChain(f, c) == [f EXCEPT !.filter = c]
Fresh(f, st, ty, c) == [f EXCEPT !.state = st, !.type = ty, !.pid = NoPid, !.filter = c,
                                 !.is_filtering = FALSE]
TsSet(f, pid, pes) == [f EXCEPT !.pid = pid, !.decoder = pes \in PesTypes, !.pes = pes,
                                !.state = DMX_READY]

LEMMA FeedTypes ==
  ASSUME NEW f \in FeedSet
  PROVE  /\ Stopped(f) \in FeedSet /\ Started(f) \in FeedSet /\ Freed(f) \in FeedSet
         /\ Halted(f) \in FeedSet
         /\ f.filter \in Seq(Filters) /\ f.is_filtering \in BOOLEAN /\ f.decoder \in BOOLEAN
         /\ f.pid \in Nat \cup {NoPid} /\ f.pes \in PesTypes \cup {Other}
  <1>1. Stopped(f) \in FeedSet
    BY DEF FeedSet, Stopped
  <1>2. Started(f) \in FeedSet
    BY DEF FeedSet, Started
  <1>3. Freed(f) \in FeedSet
    BY DEF FeedSet, Freed
  <1>4. Halted(f) \in FeedSet
    BY DEF FeedSet, Halted
  <1>5. /\ f.filter \in Seq(Filters) /\ f.is_filtering \in BOOLEAN /\ f.decoder \in BOOLEAN
        /\ f.pid \in Nat \cup {NoPid} /\ f.pes \in PesTypes \cup {Other}
    BY DEF FeedSet
  <1> QED
    BY <1>1, <1>2, <1>3, <1>4, <1>5

LEMMA NewFeedTypes ==
  ASSUME NEW f \in FeedSet, NEW c \in Seq(Filters), NEW ty \in {"TS", "SEC"},
         NEW st \in {DMX_FREE, DMX_ALLOCATED}, NEW pid \in Nat \cup {NoPid}, NEW pes \in PesTypes \cup {Other}
  PROVE  /\ WithChain(f, c) \in FeedSet /\ Fresh(f, st, ty, c) \in FeedSet
         /\ WithPid(f, pid) \in FeedSet /\ TsSet(f, pid, pes) \in FeedSet
  <1>1. WithChain(f, c) \in FeedSet
    BY DEF FeedSet, WithChain
  <1>2. Fresh(f, st, ty, c) \in FeedSet
    BY DEF FeedSet, Fresh
  <1>3. WithPid(f, pid) \in FeedSet
    BY DEF FeedSet, WithPid
  <1>4. TsSet(f, pid, pes) \in FeedSet
    <2>1. \A b \in BOOLEAN :
            [f EXCEPT !.pid = pid, !.decoder = b, !.pes = pes, !.state = DMX_READY] \in FeedSet
      BY DEF FeedSet
    <2>2. (pes \in PesTypes) = TRUE \/ (pes \in PesTypes) = FALSE
      OBVIOUS
    <2>3. CASE (pes \in PesTypes) = TRUE
      <3>1. TsSet(f, pid, pes)
              = [f EXCEPT !.pid = pid, !.decoder = TRUE, !.pes = pes, !.state = DMX_READY]
        BY <2>3, Zenon DEF TsSet
      <3> QED
        BY <2>1, <3>1
    <2>4. CASE (pes \in PesTypes) = FALSE
      <3>1. TsSet(f, pid, pes)
              = [f EXCEPT !.pid = pid, !.decoder = FALSE, !.pes = pes, !.state = DMX_READY]
        BY <2>4, Zenon DEF TsSet
      <3> QED
        BY <2>1, <3>1
    <2> QED
      BY <2>2, <2>3, <2>4
  <1> QED
    BY <1>1, <1>2, <1>3, <1>4

\* dmx_section_feed_stop_filtering
LEMMA SectionStop ==
  ASSUME NEW d \in DemuxSet, NEW k \in Feeds
  PROVE  /\ Effect(d, SectionFeedStop(d, k), [d.feed EXCEPT ![k] = Stopped(d.feed[k])],
                   d.filter, d.feed_list, d.pesfilter)
         /\ SectionFeedStop(d, k).ret = 0
  <1> DEFINE f == Stopped(d.feed[k])
             d1 == PutFeed(d, k, f)
  <1>1. k # Null
    BY Constants
  <1>2. f \in FeedSet
    BY FieldTypes, FeedTypes
  <1>3. Effect(d, d1, [d.feed EXCEPT ![k] = f], d.filter, d.feed_list, d.pesfilter)
    BY <1>2, Puts
  <1>4. SectionFeedStop(d, k) = Ok(d1)
    BY <1>1 DEF SectionFeedStop, PutFeed, DemuxSet, Stopped
  <1>5. Effect(d1, Ok(d1), d1.feed, d1.filter, d1.feed_list, d1.pesfilter) /\ Ok(d1).ret = 0
    BY <1>3, Results DEF Effect
  <1> HIDE DEF f, d1
  <1>6. Effect(d, Ok(d1), [d.feed EXCEPT ![k] = f], d.filter, d.feed_list, d.pesfilter)
    BY <1>3, <1>5 DEF Effect
  <1> QED
    BY <1>4, <1>5, <1>6 DEF f

\* dmx_section_feed_start_filtering, on a feed that is stopped and has a filter.
LEMMA SectionStart ==
  ASSUME NEW d \in DemuxSet, NEW k \in Feeds,
         ~d.feed[k].is_filtering, d.feed[k].filter # <<>>
  PROVE  /\ Effect(d, SectionFeedStart(d, k, {}), [d.feed EXCEPT ![k] = Started(d.feed[k])],
                   d.filter, d.feed_list, d.pesfilter)
         /\ SectionFeedStart(d, k, {}).ret = 0
  <1> DEFINE f == Started(d.feed[k])
             d1 == PutFeed(d, k, f)
  <1>1. k # Null
    BY Constants
  <1>2. f \in FeedSet
    BY FieldTypes, FeedTypes
  <1>3. Effect(d, d1, [d.feed EXCEPT ![k] = f], d.filter, d.feed_list, d.pesfilter)
    BY <1>2, Puts
  <1>4. SectionFeedStart(d, k, {}) = Ok(d1)
    BY <1>1 DEF SectionFeedStart, PutFeed, DemuxSet, Started
  <1>5. Effect(d1, Ok(d1), d1.feed, d1.filter, d1.feed_list, d1.pesfilter) /\ Ok(d1).ret = 0
    BY <1>3, Results DEF Effect
  <1> HIDE DEF f, d1
  <1>6. Effect(d, Ok(d1), [d.feed EXCEPT ![k] = f], d.filter, d.feed_list, d.pesfilter)
    BY <1>3, <1>5 DEF Effect
  <1> QED
    BY <1>4, <1>5, <1>6 DEF f

\* dvbdmx_release_section_feed
LEMMA SectionRelease ==
  ASSUME NEW d \in DemuxSet, NEW k \in Feeds, d.feed[k].state # DMX_FREE
  PROVE  /\ Effect(d, ReleaseSectionFeed(d, k), [d.feed EXCEPT ![k] = Freed(d.feed[k])],
                   d.filter, d.feed_list \ {k}, d.pesfilter)
         /\ ReleaseSectionFeed(d, k).ret = 0
  <1> DEFINE f == Freed(d.feed[k])
             d1 == PutFeed(d, k, f)
             d2 == FeedDel(d1, k)
  <1>1. f \in FeedSet
    BY FieldTypes, FeedTypes
  <1>2. Effect(d, d1, [d.feed EXCEPT ![k] = f], d.filter, d.feed_list, d.pesfilter)
    BY <1>1, Puts
  <1>3. ReleaseSectionFeed(d, k) = Ok(d2)
    BY DEF ReleaseSectionFeed, PutFeed, DemuxSet, Freed
  <1>4. Effect(d1, d2, d1.feed, d1.filter, d1.feed_list \ {k}, d1.pesfilter)
    BY <1>2, Puts DEF Effect
  <1>5. Effect(d2, Ok(d2), d2.feed, d2.filter, d2.feed_list, d2.pesfilter) /\ Ok(d2).ret = 0
    BY <1>4, Results DEF Effect
  <1> HIDE DEF f, d1, d2
  <1>6. Effect(d, Ok(d2), [d.feed EXCEPT ![k] = f], d.filter, d.feed_list \ {k}, d.pesfilter)
    BY <1>2, <1>4, <1>5 DEF Effect
  <1> QED
    BY <1>3, <1>5, <1>6 DEF f

\* What stop, start and release leave behind in any case.
LEMMA SectionTypes ==
  ASSUME NEW d \in DemuxSet, NEW k \in Feeds
  PROVE  /\ SectionFeedStop(d, Null) \in DemuxSet /\ SectionFeedStart(d, Null, {}) \in DemuxSet
         /\ SectionFeedStart(d, k, {}) \in DemuxSet /\ ReleaseSectionFeed(d, k) \in DemuxSet
  <1>1. SectionFeedStop(d, Null) = Oops(d) /\ SectionFeedStart(d, Null, {}) = Oops(d)
    BY DEF SectionFeedStop, SectionFeedStart
  <1>2. SectionFeedStart(d, k, {}) \in DemuxSet
    <2>1. k # Null
      BY Constants
    <2>2. CASE d.feed[k].is_filtering \/ d.feed[k].filter = <<>>
      <3>1. SectionFeedStart(d, k, {}) = Err(d)
        BY <2>1, <2>2 DEF SectionFeedStart
      <3> QED
        BY <3>1, Results DEF Effect
    <2>3. CASE ~(d.feed[k].is_filtering \/ d.feed[k].filter = <<>>)
      BY <2>3, SectionStart DEF Effect
    <2> QED
      BY <2>2, <2>3
  <1>3. ReleaseSectionFeed(d, k) \in DemuxSet
    <2>1. CASE d.feed[k].state = DMX_FREE
      BY <2>1, Results DEF ReleaseSectionFeed, Effect
    <2>2. CASE d.feed[k].state # DMX_FREE
      BY <2>2, SectionRelease DEF Effect
    <2> QED
      BY <2>1, <2>2
  <1> QED
    BY <1>1, <1>2, <1>3, Results

\* dvbdmx_allocate_section_feed
LEMMA SectionAllocate ==
  ASSUME NEW d \in DemuxSet
  PROVE  LET r == AllocateSectionFeed(d)
         IN  \/ r = Err(d)
             \/ /\ r.ret \in Feeds /\ d.feed[r.ret].state = DMX_FREE
                /\ Effect(d, r, [d.feed EXCEPT ![r.ret] = Fresh(@, DMX_ALLOCATED, "SEC", <<>>)],
                          d.filter, d.feed_list, d.pesfilter)
  <1> DEFINE k == FirstFree(d.feed)
             f == Fresh(d.feed[k], DMX_ALLOCATED, "SEC", <<>>)
             d1 == PutFeed(d, k, f)
             r == [d1 EXCEPT !.ret = k]
  <1>1. DOMAIN d.feed = 1 .. FeedNum /\ FeedNum \in Nat
    BY FieldTypes, Constants DEF Feeds
  <1>2. k = Null \/ (k \in Feeds /\ d.feed[k].state = DMX_FREE)
    BY <1>1, FirstFreeFacts DEF Feeds
  <1>3. CASE k = Null
    <2>1. AllocateSectionFeed(d) = Err(d)
      BY <1>3 DEF AllocateSectionFeed
    <2> QED
      BY <2>1
  <1>4. CASE k # Null
    <2>1. k \in Feeds /\ d.feed[k] \in FeedSet /\ k \in Int
      <3>1. k \in Feeds
        BY <1>2, <1>4
      <3>2. d.feed[k] \in FeedSet
        BY <3>1, FieldTypes
      <3>3. \A n \in Feeds : n \in Int
        BY Constants
      <3> QED
        BY <3>1, <3>2, <3>3
    <2>2. f \in FeedSet
      <3>1. <<>> \in Seq(Filters)
        OBVIOUS
      <3> QED
        BY <2>1, <3>1, NewFeedTypes, Zenon
    <2>3. Effect(d, d1, [d.feed EXCEPT ![k] = f], d.filter, d.feed_list, d.pesfilter)
      BY <2>1, <2>2, Puts
    <2>4. AllocateSectionFeed(d) = r
      BY <1>4, <2>1 DEF AllocateSectionFeed, PutFeed, DemuxSet, Fresh
    <2> HIDE DEF k, f, d1
    <2>5. Effect(d1, r, d1.feed, d1.filter, d1.feed_list, d1.pesfilter) /\ r.ret = k
      BY <2>1, <2>3 DEF Effect, DemuxSet
    <2> HIDE DEF r
    <2>6. Effect(d, r, [d.feed EXCEPT ![k] = f], d.filter, d.feed_list, d.pesfilter)
      BY <2>3, <2>5 DEF Effect
    <2>7. f = Fresh(d.feed[k], DMX_ALLOCATED, "SEC", <<>>)
      BY DEF f
    <2> QED
      BY <1>2, <1>4, <2>4, <2>5, <2>6, <2>7
  <1> QED
    BY <1>3, <1>4

\* dmx_section_feed_set
LEMMA SectionSet ==
  ASSUME NEW d \in DemuxSet, NEW k \in Feeds, NEW pid \in Nat \cup {NoPid}
  PROVE  LET r == SectionFeedSet(d, k, pid)
         IN  \/ pid > MaxPid /\ r = Err(d)
             \/ /\ r.ret = 0
                /\ Effect(d, r, [d.feed EXCEPT ![k] = WithPid(d.feed[k], pid)],
                          d.filter, d.feed_list \cup {k}, d.pesfilter)
  <1> DEFINE f == WithPid(d.feed[k], pid)
             d1 == FeedAdd(d, k)
             d2 == PutFeed(d1, k, f)
  <1>1. CASE pid > MaxPid
    BY <1>1 DEF SectionFeedSet
  <1>2. CASE ~(pid > MaxPid)
    <2>1. d.feed[k] \in FeedSet
      BY FieldTypes
    <2>2. f \in FeedSet
      <3>1. \A c \in Seq(Filters), ty \in {"TS", "SEC"}, st \in {DMX_FREE, DMX_ALLOCATED},
               pes \in PesTypes \cup {Other} : f \in FeedSet
        BY <2>1, NewFeedTypes, Zenon
      <3>2. <<>> \in Seq(Filters)
        OBVIOUS
      <3> QED
        BY <3>1, <3>2, Zenon
    <2>3. Effect(d, d1, d.feed, d.filter, d.feed_list \cup {k}, d.pesfilter)
      BY Puts
    <2>4. Effect(d1, d2, [d1.feed EXCEPT ![k] = f], d1.filter, d1.feed_list, d1.pesfilter)
      BY <2>2, <2>3, Puts DEF Effect
    <2>5. SectionFeedSet(d, k, pid) = Ok(d2)
      BY <1>2, <2>3 DEF SectionFeedSet, PutFeed, DemuxSet, WithPid, Effect
    <2>6. Effect(d2, Ok(d2), d2.feed, d2.filter, d2.feed_list, d2.pesfilter) /\ Ok(d2).ret = 0
      BY <2>4, Results DEF Effect
    <2> HIDE DEF f, d1, d2
    <2>7. Effect(d, Ok(d2), [d.feed EXCEPT ![k] = f], d.filter, d.feed_list \cup {k}, d.pesfilter)
      BY <2>3, <2>4, <2>6 DEF Effect
    <2> QED
      BY <2>5, <2>6, <2>7 DEF f
  <1> QED
    BY <1>1, <1>2

\* A slot in use.
InUse(k, i) == [state |-> DMX_READY, feed |-> k, priv |-> i]

\* dmx_section_feed_allocate_filter
LEMMA FilterAllocate ==
  ASSUME NEW d \in DemuxSet, NEW k \in Feeds, NEW i \in Devs
  PROVE  LET r == AllocateFilter(d, k, i)
         IN  \/ r = Err(d)
             \/ /\ r.ret \in Filters /\ d.filter[r.ret].state = DMX_FREE
                /\ Effect(d, r, [d.feed EXCEPT ![k] = WithChain(d.feed[k], <<r.ret>> \o d.feed[k].filter)],
                          [d.filter EXCEPT ![r.ret] = InUse(k, i)], d.feed_list, d.pesfilter)
  <1> DEFINE j == FirstFree(d.filter)
             x == InUse(k, i)
             f == WithChain(d.feed[k], <<j>> \o d.feed[k].filter)
             d1 == PutFilter(d, j, x)
             d2 == PutFeed(d1, k, f)
             r == [d2 EXCEPT !.ret = j]
  <1>1. DOMAIN d.filter = 1 .. FilterNum /\ FilterNum \in Nat
    BY FieldTypes, Constants DEF Filters
  <1>2. j = Null \/ (j \in Filters /\ d.filter[j].state = DMX_FREE)
    BY <1>1, FirstFreeFacts DEF Filters
  <1>3. CASE j = Null
    <2>1. AllocateFilter(d, k, i) = Err(d)
      BY <1>3 DEF AllocateFilter
    <2> QED
      BY <2>1
  <1>4. CASE j # Null
    <2>1. j \in Filters /\ d.feed[k] \in FeedSet /\ j \in Int
      <3>1. j \in Filters
        BY <1>2, <1>4
      <3>2. d.feed[k] \in FeedSet
        BY <3>1, FieldTypes
      <3>3. \A n \in Filters : n \in Int
        BY Constants
      <3> QED
        BY <3>1, <3>2, <3>3
    <2>2. x \in SlotSet
      BY DEF SlotSet, InUse
    <2>3. f \in FeedSet
      <3>1. d.feed[k].filter \in Seq(Filters)
        BY <2>1, FeedTypes
      <3>2. <<j>> \o d.feed[k].filter \in Seq(Filters)
        BY <2>1, <3>1
      <3> QED
        BY <2>1, <3>2 DEF WithChain, FeedSet
    <2>4. Effect(d, d1, d.feed, [d.filter EXCEPT ![j] = x], d.feed_list, d.pesfilter)
      BY <2>1, <2>2, Puts
    <2>5. Effect(d1, d2, [d1.feed EXCEPT ![k] = f], d1.filter, d1.feed_list, d1.pesfilter)
      BY <2>3, <2>4, Puts DEF Effect
    <2>6. AllocateFilter(d, k, i) = r
      BY <1>4, <2>1 DEF AllocateFilter, PutFeed, PutFilter, DemuxSet, WithChain, InUse
    <2> HIDE DEF j, x, f, d1, d2
    <2>7. Effect(d2, r, d2.feed, d2.filter, d2.feed_list, d2.pesfilter) /\ r.ret = j
      BY <2>1, <2>5 DEF Effect, DemuxSet
    <2> HIDE DEF r
    <2>8. Effect(d, r, [d.feed EXCEPT ![k] = f], [d.filter EXCEPT ![j] = x], d.feed_list, d.pesfilter)
      BY <2>4, <2>5, <2>7 DEF Effect
    <2>9. f = WithChain(d.feed[k], <<j>> \o d.feed[k].filter) /\ x = InUse(k, i)
      BY DEF f, x
    <2> QED
      BY <1>2, <1>4, <2>6, <2>7, <2>8, <2>9
  <1> QED
    BY <1>3, <1>4

Emptied(x) == [x EXCEPT !.state = DMX_FREE]

LEMMA EmptiedType ==
  ASSUME NEW x \in SlotSet
  PROVE  Emptied(x) \in SlotSet
  BY DEF SlotSet, Emptied

\* dmx_section_feed_release_filter, when the filter is in the chain of a feed that is stopped.
LEMMA FilterRelease ==
  ASSUME NEW d \in DemuxSet, NEW k \in Feeds, NEW j \in Filters,
         d.filter[j].feed = k, ~d.feed[k].is_filtering, InChain(d, k, j)
  PROVE  LET r == ReleaseFilter(d, k, j)
         IN  /\ r.ret = 0
             /\ \E n \in 1 .. Len(d.feed[k].filter) :
                  /\ d.feed[k].filter[n] = j
                  /\ Effect(d, r, [d.feed EXCEPT ![k] = WithChain(@, RemoveAt(d.feed[k].filter, n))],
                            [d.filter EXCEPT ![j] = Emptied(@)], d.feed_list, d.pesfilter)
  <1> DEFINE chain == d.feed[k].filter
             at == {n \in DOMAIN chain : chain[n] = j}
             n == Min(at)
             f == WithChain(d.feed[k], RemoveAt(chain, n))
             x == Emptied(d.filter[j])
             d1 == PutFeed(d, k, f)
             d2 == PutFilter(d1, j, x)
  <1>1. chain \in Seq(Filters) /\ d.feed[k] \in FeedSet /\ x \in SlotSet
    <2>1. d.feed[k] \in FeedSet /\ d.filter[j] \in SlotSet
      BY FieldTypes
    <2> QED
      BY <2>1, FeedTypes, EmptiedType
  <1>2. at # {} /\ at \subseteq Nat
    BY <1>1 DEF InChain
  <1>3. n \in at
    BY <1>2, MinFacts
  <1>4. n \in 1 .. Len(chain) /\ chain[n] = j
    BY <1>1, <1>3
  <1>5. ReleaseFilter(d, k, j) = Ok([d EXCEPT !.feed[k].filter = RemoveAt(chain, n),
                                              !.filter[j].state = DMX_FREE])
    BY <1>2 DEF ReleaseFilter
  <1> HIDE DEF n
  <1>6. RemoveAt(chain, n) \in Seq(Filters)
    BY <1>1, <1>4, RemoveFacts
  <1> HIDE DEF chain
  <1>7. f \in FeedSet
    BY <1>1, <1>6 DEF WithChain, FeedSet
  <1>8. Effect(d, d1, [d.feed EXCEPT ![k] = f], d.filter, d.feed_list, d.pesfilter)
    BY <1>7, Puts
  <1>9. Effect(d1, d2, d1.feed, [d1.filter EXCEPT ![j] = x], d1.feed_list, d1.pesfilter)
    BY <1>1, <1>8, Puts DEF Effect
  <1>10. ReleaseFilter(d, k, j) = Ok(d2)
    BY <1>5 DEF PutFeed, PutFilter, DemuxSet, WithChain, Emptied
  <1>11. Effect(d2, Ok(d2), d2.feed, d2.filter, d2.feed_list, d2.pesfilter) /\ Ok(d2).ret = 0
    BY <1>9, Results DEF Effect
  <1> HIDE DEF f, x, d1, d2
  <1>12. Effect(d, Ok(d2), [d.feed EXCEPT ![k] = f], [d.filter EXCEPT ![j] = x], d.feed_list, d.pesfilter)
    BY <1>8, <1>9, <1>11 DEF Effect
  <1>13. f = WithChain(d.feed[k], RemoveAt(d.feed[k].filter, n)) /\ x = Emptied(d.filter[j])
    BY DEF f, x, chain
  <1>14. n \in 1 .. Len(d.feed[k].filter) /\ d.feed[k].filter[n] = j
    BY <1>4 DEF chain
  <1> QED
    BY <1>10, <1>11, <1>12, <1>13, <1>14

LEMMA FilterReleaseType ==
  ASSUME NEW d \in DemuxSet, NEW k \in Feeds, NEW j \in Filters
  PROVE  ReleaseFilter(d, k, j) \in DemuxSet
  <1>1. CASE d.filter[j].feed # k
    BY <1>1, Results DEF ReleaseFilter, Effect
  <1>2. CASE d.filter[j].feed = k /\ (d.feed[k].is_filtering \/ ~InChain(d, k, j))
    <2>1. ReleaseFilter(d, k, j) = Oops(d)
      BY <1>2 DEF ReleaseFilter, InChain
    <2> QED
      BY <2>1, Results
  <1>3. CASE d.filter[j].feed = k /\ ~d.feed[k].is_filtering /\ InChain(d, k, j)
    BY <1>3, FilterRelease DEF Effect
  <1> QED
    BY <1>1, <1>2, <1>3

\* dmx_ts_feed_start_filtering and stop_filtering
LEMMA TsStart ==
  ASSUME NEW d \in DemuxSet, NEW k \in Feeds, d.feed[k].state = DMX_READY, d.feed[k].type = "TS"
  PROVE  /\ Effect(d, TsFeedStart(d, k, {}), [d.feed EXCEPT ![k] = Started(d.feed[k])],
                   d.filter, d.feed_list, d.pesfilter)
         /\ TsFeedStart(d, k, {}).ret = 0
  <1> DEFINE f == Started(d.feed[k])
             d1 == PutFeed(d, k, f)
  <1>2. f \in FeedSet
    BY FieldTypes, FeedTypes
  <1>3. Effect(d, d1, [d.feed EXCEPT ![k] = f], d.filter, d.feed_list, d.pesfilter)
    BY <1>2, Puts
  <1>4. TsFeedStart(d, k, {}) = Ok(d1)
    BY DEF TsFeedStart, PutFeed, DemuxSet, Started
  <1>5. Effect(d1, Ok(d1), d1.feed, d1.filter, d1.feed_list, d1.pesfilter) /\ Ok(d1).ret = 0
    BY <1>3, Results DEF Effect
  <1> HIDE DEF f, d1
  <1>6. Effect(d, Ok(d1), [d.feed EXCEPT ![k] = f], d.filter, d.feed_list, d.pesfilter)
    BY <1>3, <1>5 DEF Effect
  <1> QED
    BY <1>4, <1>5, <1>6 DEF f

LEMMA TsStop ==
  ASSUME NEW d \in DemuxSet, NEW k \in Feeds, d.feed[k].state = DMX_GO
  PROVE  /\ Effect(d, TsFeedStop(d, k), [d.feed EXCEPT ![k] = Halted(d.feed[k])],
                   d.filter, d.feed_list, d.pesfilter)
         /\ TsFeedStop(d, k).ret = 0
  <1> DEFINE f == Halted(d.feed[k])
             d1 == PutFeed(d, k, f)
  <1>1. k # Null /\ ~(d.feed[k].state < DMX_GO)
    BY Constants DEF DMX_GO
  <1>2. f \in FeedSet
    BY FieldTypes, FeedTypes
  <1>3. Effect(d, d1, [d.feed EXCEPT ![k] = f], d.filter, d.feed_list, d.pesfilter)
    BY <1>2, Puts
  <1>4. TsFeedStop(d, k) = Ok(d1)
    BY <1>1 DEF TsFeedStop, PutFeed, DemuxSet, Halted
  <1>5. Effect(d1, Ok(d1), d1.feed, d1.filter, d1.feed_list, d1.pesfilter) /\ Ok(d1).ret = 0
    BY <1>3, Results DEF Effect
  <1> HIDE DEF f, d1
  <1>6. Effect(d, Ok(d1), [d.feed EXCEPT ![k] = f], d.filter, d.feed_list, d.pesfilter)
    BY <1>3, <1>5 DEF Effect
  <1> QED
    BY <1>4, <1>5, <1>6 DEF f

LEMMA TsStopType ==
  ASSUME NEW d \in DemuxSet, NEW k \in Feeds \cup {Null}
  PROVE  TsFeedStop(d, k) \in DemuxSet
  <1>1. CASE k = Null
    BY <1>1, Results DEF TsFeedStop
  <1>2. CASE k # Null /\ d.feed[k].state = DMX_GO
    BY <1>2, TsStop DEF Effect
  <1>3. CASE k # Null /\ d.feed[k].state # DMX_GO
    <2>1. d.feed[k] \in FeedSet
      BY <1>3, FieldTypes
    <2>2. d.feed[k].state < DMX_GO
      BY <1>3, <2>1 DEF FeedSet, DMX_FREE, DMX_ALLOCATED, DMX_READY, DMX_GO
    <2>3. TsFeedStop(d, k) = Err(d)
      BY <1>3, <2>2 DEF TsFeedStop
    <2> QED
      BY <2>3, Results DEF Effect
  <1> QED
    BY <1>1, <1>2, <1>3

\* dvbdmx_allocate_ts_feed: no feed; a feed and no filter; both.
LEMMA TsAllocate ==
  ASSUME NEW d \in DemuxSet, NEW i \in Devs
  PROVE  LET r == AllocateTsFeed(d, i)
         IN  \/ r = Err(d)
             \/ /\ r.ret = -1
                /\ \E k \in Feeds :
                     /\ d.feed[k].state = DMX_FREE
                     /\ Effect(d, r, [d.feed EXCEPT ![k] = Fresh(@, DMX_FREE, "TS", <<>>)],
                               d.filter, d.feed_list, d.pesfilter)
             \/ /\ r.ret \in Feeds /\ d.feed[r.ret].state = DMX_FREE
                /\ \E j \in Filters :
                     /\ d.filter[j].state = DMX_FREE
                     /\ Effect(d, r, [d.feed EXCEPT ![r.ret] = Fresh(@, DMX_ALLOCATED, "TS", <<j>>)],
                               [d.filter EXCEPT ![j] = InUse(r.ret, i)], d.feed_list, d.pesfilter)
  <1> DEFINE k == FirstFree(d.feed)
             j == FirstFree(d.filter)
             r == AllocateTsFeed(d, i)
  <1>1. DOMAIN d.feed = 1 .. FeedNum /\ FeedNum \in Nat /\ DOMAIN d.filter = 1 .. FilterNum /\ FilterNum \in Nat
    BY FieldTypes, Constants DEF Feeds, Filters
  <1>2. k = Null \/ (k \in Feeds /\ d.feed[k].state = DMX_FREE)
    BY <1>1, FirstFreeFacts DEF Feeds
  <1>3. j = Null \/ (j \in Filters /\ d.filter[j].state = DMX_FREE)
    BY <1>1, FirstFreeFacts DEF Filters
  <1>4. CASE k = Null
    <2>1. r = Err(d)
      BY <1>4 DEF AllocateTsFeed
    <2> QED
      BY <2>1
  <1>5. CASE k # Null /\ j = Null
    <2> DEFINE f == Fresh(d.feed[k], DMX_FREE, "TS", <<>>)
               d1 == PutFeed(d, k, f)
    <2>1. k \in Feeds /\ d.feed[k].state = DMX_FREE
      BY <1>2, <1>5
    <2>2. d.feed[k] \in FeedSet
      BY <2>1, FieldTypes
    <2>3. f \in FeedSet
      <3>1. <<>> \in Seq(Filters)
        OBVIOUS
      <3> QED
        BY <2>2, <3>1, NewFeedTypes, Zenon
    <2>4. r = Err([d EXCEPT !.feed[k] = [d.feed[k] EXCEPT !.type = "TS", !.pid = NoPid,
                                                       !.is_filtering = FALSE, !.filter = <<>>]])
      BY <1>5 DEF AllocateTsFeed
    <2> HIDE DEF k
    <2>5. f = [d.feed[k] EXCEPT !.type = "TS", !.pid = NoPid, !.is_filtering = FALSE, !.filter = <<>>]
      BY <2>1, <2>2 DEF Fresh, FeedSet
    <2>6. r = Err(d1)
      BY <2>4, <2>5 DEF PutFeed
    <2>7. Effect(d, d1, [d.feed EXCEPT ![k] = f], d.filter, d.feed_list, d.pesfilter)
      BY <2>1, <2>3, Puts
    <2>8. Effect(d1, Err(d1), d1.feed, d1.filter, d1.feed_list, d1.pesfilter) /\ Err(d1).ret = -1
      BY <2>7, Results DEF Effect
    <2> HIDE DEF f, d1, r
    <2>9. Effect(d, r, [d.feed EXCEPT ![k] = f], d.filter, d.feed_list, d.pesfilter) /\ r.ret = -1
      BY <2>6, <2>7, <2>8 DEF Effect
    <2>10. f = Fresh(d.feed[k], DMX_FREE, "TS", <<>>)
      BY DEF f
    <2>11. \E n \in Feeds :
             /\ d.feed[n].state = DMX_FREE
             /\ Effect(d, r, [d.feed EXCEPT ![n] = Fresh(@, DMX_FREE, "TS", <<>>)],
                       d.filter, d.feed_list, d.pesfilter)
      BY <2>1, <2>9, <2>10
    <2> QED
      BY <2>9, <2>11 DEF r
  <1>6. CASE k # Null /\ j # Null
    <2> DEFINE f == Fresh(d.feed[k], DMX_ALLOCATED, "TS", <<j>>)
               x == InUse(k, i)
               d1 == PutFeed(d, k, f)
               d2 == PutFilter(d1, j, x)
               q == [d2 EXCEPT !.ret = k]
    <2>1. k \in Feeds /\ d.feed[k].state = DMX_FREE /\ j \in Filters /\ d.filter[j].state = DMX_FREE
      BY <1>2, <1>3, <1>6
    <2>2. d.feed[k] \in FeedSet /\ \A n \in Feeds : n \in Int
      <3>1. d.feed[k] \in FeedSet
        BY <2>1, FieldTypes
      <3>2. \A n \in Feeds : n \in Int
        BY Constants
      <3> QED
        BY <3>1, <3>2
    <2>3. f \in FeedSet
      <3>1. <<j>> \in Seq(Filters)
        BY <2>1
      <3> QED
        BY <2>2, <3>1, NewFeedTypes, Zenon
    <2>4. r = [d EXCEPT !.feed[k] = [d.feed[k] EXCEPT !.type = "TS", !.pid = NoPid, !.is_filtering = FALSE,
                                                     !.state = DMX_ALLOCATED, !.filter = <<j>>],
                        !.filter[j] = InUse(k, i), !.ret = k]
      BY <1>6 DEF AllocateTsFeed, InUse
    <2> HIDE DEF k, j
    <2>5. f = [d.feed[k] EXCEPT !.type = "TS", !.pid = NoPid, !.is_filtering = FALSE,
                                !.state = DMX_ALLOCATED, !.filter = <<j>>]
      BY <2>2 DEF Fresh, FeedSet
    <2>6. x \in SlotSet
      BY <2>1 DEF SlotSet, InUse
    <2>7. r = [d EXCEPT !.feed[k] = f, !.filter[j] = x, !.ret = k]
      BY <2>4, <2>5
    <2> HIDE DEF f, x, r
    <2>8. r = q
      BY <2>7 DEF PutFeed, PutFilter, DemuxSet
    <2>9. Effect(d, d1, [d.feed EXCEPT ![k] = f], d.filter, d.feed_list, d.pesfilter)
      BY <2>1, <2>3, Puts
    <2>10. Effect(d1, d2, d1.feed, [d1.filter EXCEPT ![j] = x], d1.feed_list, d1.pesfilter)
      BY <2>1, <2>6, <2>9, Puts DEF Effect
    <2> HIDE DEF d1, d2
    <2>11. Effect(d2, q, d2.feed, d2.filter, d2.feed_list, d2.pesfilter) /\ q.ret = k
      BY <2>1, <2>2, <2>10 DEF Effect, DemuxSet
    <2> HIDE DEF q
    <2>12. Effect(d, q, [d.feed EXCEPT ![k] = f], [d.filter EXCEPT ![j] = x], d.feed_list, d.pesfilter)
      BY <2>9, <2>10, <2>11 DEF Effect
    <2>13. f = Fresh(d.feed[k], DMX_ALLOCATED, "TS", <<j>>) /\ x = InUse(k, i)
      BY DEF f, x
    <2>14. r.ret = k
      BY <2>8, <2>11
    <2>15. \E n \in Filters :
             /\ d.filter[n].state = DMX_FREE
             /\ Effect(d, r, [d.feed EXCEPT ![r.ret] = Fresh(@, DMX_ALLOCATED, "TS", <<n>>)],
                       [d.filter EXCEPT ![n] = InUse(r.ret, i)], d.feed_list, d.pesfilter)
      BY <2>1, <2>8, <2>12, <2>13, <2>14
    <2> QED
      BY <2>1, <2>14, <2>15 DEF r
  <1> QED
    BY <1>4, <1>5, <1>6

\* What dmx_ts_feed_set makes of d.
TsSets(d, r, k, pid, pes) ==
  \/ r = Err(d)
  \/ /\ r.ret = 0
     /\ \E P : /\ Effect(d, r, [d.feed EXCEPT ![k] = TsSet(d.feed[k], pid, pes)],
                         d.filter, d.feed_list \cup {k}, P)
               /\ \A p \in PesTypes : P[p] = d.pesfilter[p] \/ (P[p] = k /\ p = pes)

\* dmx_ts_feed_set: refused for lack of a decoder or for the PID, or done.
LEMMA TsFeedSetFacts ==
  ASSUME NEW d \in DemuxSet, NEW k \in Feeds, NEW pid \in Nat, NEW pes \in PesTypes \cup {Other}
  PROVE  TsSets(d, TsFeedSet(d, k, pid, pes), k, pid, pes)
  <1> DEFINE r == TsFeedSet(d, k, pid, pes)
             f == TsSet(d.feed[k], pid, pes)
             d1 == IF pes \in PesTypes THEN PutPes(d, pes, k) ELSE d
             d2 == FeedAdd(d1, k)
             d3 == PutFeed(d2, k, f)
             P == IF pes \in PesTypes THEN [d.pesfilter EXCEPT ![pes] = k] ELSE d.pesfilter
  <1>1. CASE pid > MaxPid + 1 \/ (pes \in PesTypes /\ d.pesfilter[pes] \notin {Null, k})
    <2>1. r = Err(d)
      BY <1>1 DEF TsFeedSet
    <2> QED
      BY <2>1 DEF TsSets
  <1>2. CASE ~(pid > MaxPid + 1 \/ (pes \in PesTypes /\ d.pesfilter[pes] \notin {Null, k}))
    <2>1. d.feed[k] \in FeedSet
      BY FieldTypes
    <2>2. f \in FeedSet
      <3>1. <<>> \in Seq(Filters)
        OBVIOUS
      <3> QED
        BY <2>1, <3>1, NewFeedTypes, Zenon
    <2>3. Effect(d, d1, d.feed, d.filter, d.feed_list, P)
      <3>1. CASE pes \in PesTypes
        <4>1. Effect(d, PutPes(d, pes, k), d.feed, d.filter, d.feed_list, [d.pesfilter EXCEPT ![pes] = k])
          BY Puts
        <4> QED
          BY <3>1, <4>1
      <3>2. CASE pes \notin PesTypes
        BY <3>2 DEF Effect
      <3> QED
        BY <3>1, <3>2
    <2>4. Effect(d1, d2, d1.feed, d1.filter, d1.feed_list \cup {k}, d1.pesfilter)
      BY <2>3, Puts DEF Effect
    <2>5. r = Ok([FeedAdd(d1, k) EXCEPT !.feed[k] = TsSet(@, pid, pes)])
      BY <1>2 DEF TsFeedSet, TsSet, PutPes
    <2> HIDE DEF d1, P, r
    <2>6. d2.feed = d.feed
      BY <2>3, <2>4 DEF Effect
    <2>7. r = Ok(d3)
      BY <2>5, <2>6 DEF PutFeed
    <2> HIDE DEF f, d2
    <2>8. Effect(d2, d3, [d2.feed EXCEPT ![k] = f], d2.filter, d2.feed_list, d2.pesfilter)
      <3>1. d2 \in DemuxSet
        BY <2>4 DEF Effect
      <3> QED
        BY <2>2, <3>1, Puts
    <2>9. Effect(d3, Ok(d3), d3.feed, d3.filter, d3.feed_list, d3.pesfilter) /\ Ok(d3).ret = 0
      BY <2>8, Results DEF Effect
    <2> HIDE DEF d3
    <2>10. Effect(d, r, [d.feed EXCEPT ![k] = f], d.filter, d.feed_list \cup {k}, P) /\ r.ret = 0
      BY <2>3, <2>4, <2>7, <2>8, <2>9 DEF Effect
    <2>11. \A p \in PesTypes : P[p] = d.pesfilter[p] \/ (P[p] = k /\ p = pes)
      <3>1. d.pesfilter \in [PesTypes -> Feeds \cup {Null}]
        BY FieldTypes
      <3> QED
        BY <3>1 DEF P
    <2>12. f = TsSet(d.feed[k], pid, pes)
      BY DEF f
    <2>13. \E Q : /\ Effect(d, r, [d.feed EXCEPT ![k] = TsSet(d.feed[k], pid, pes)],
                             d.filter, d.feed_list \cup {k}, Q)
                   /\ \A p \in PesTypes : Q[p] = d.pesfilter[p] \/ (Q[p] = k /\ p = pes)
      BY <2>10, <2>11, <2>12
    <2> QED
      BY <2>10, <2>13 DEF r, TsSets
  <1> QED
    BY <1>1, <1>2

\* dvbdmx_release_ts_feed: the feed, its filter and its decoder.
LEMMA TsRelease ==
  ASSUME NEW d \in DemuxSet, NEW k \in Feeds, NEW j \in Filters, d.feed[k].state # DMX_FREE,
         d.feed[k].filter # <<>>, Head(d.feed[k].filter) = j
  PROVE  LET r == ReleaseTsFeed(d, k)
         IN  /\ r.ret = 0
             /\ \E P : /\ Effect(d, r, [d.feed EXCEPT ![k] = Freed(@)], [d.filter EXCEPT ![j] = Emptied(@)],
                                 d.feed_list \ {k}, P)
                       /\ \A p \in PesTypes : P[p] = d.pesfilter[p] \/ P[p] = Null
                       /\ d.feed[k].decoder /\ d.feed[k].pes \in PesTypes => P[d.feed[k].pes] = Null
  <1> DEFINE r == ReleaseTsFeed(d, k)
             g == d.feed[k]
             f == Freed(g)
             x == Emptied(d.filter[j])
             d1 == PutFeed(d, k, f)
             d2 == PutFilter(d1, j, x)
             d3 == FeedDel(d2, k)
             d4 == IF g.decoder THEN PutPes(d3, g.pes, Null) ELSE d3
             P == IF g.decoder THEN [d.pesfilter EXCEPT ![g.pes] = Null] ELSE d.pesfilter
  <1>1. k # Null
    BY Constants
  <1>2. g \in FeedSet /\ d.filter[j] \in SlotSet /\ d.pesfilter \in [PesTypes -> Feeds \cup {Null}]
    BY FieldTypes
  <1>3. f \in FeedSet /\ x \in SlotSet /\ g.decoder \in BOOLEAN /\ g.pes \in PesTypes \cup {Other}
    BY <1>2, FeedTypes, EmptiedType
  <1>4. Effect(d, d1, [d.feed EXCEPT ![k] = f], d.filter, d.feed_list, d.pesfilter)
    BY <1>3, Puts
  <1>5. Effect(d1, d2, d1.feed, [d1.filter EXCEPT ![j] = x], d1.feed_list, d1.pesfilter)
    BY <1>3, <1>4, Puts DEF Effect
  <1>6. Effect(d2, d3, d2.feed, d2.filter, d2.feed_list \ {k}, d2.pesfilter)
    BY <1>5, Puts DEF Effect
  <1>7. [d EXCEPT !.feed[k].state = DMX_FREE, !.feed[k].pid = NoPid, !.filter[j].state = DMX_FREE] = d2
    BY DEF PutFeed, PutFilter, DemuxSet, Freed, Emptied
  <1>8. r = Ok(d4)
    <2> DEFINE e == [d EXCEPT !.feed[k].state = DMX_FREE, !.feed[k].pid = NoPid,
                              !.filter[Head(g.filter)].state = DMX_FREE]
    <2>1. e = d2
      BY <1>7
    <2>2. r = Ok(IF g.decoder THEN [FeedDel(e, k) EXCEPT !.pesfilter[g.pes] = Null] ELSE FeedDel(e, k))
      BY <1>1, Zenon DEF ReleaseTsFeed
    <2> HIDE DEF d2, e
    <2> QED
      BY <2>1, <2>2 DEF PutPes
  <1> HIDE DEF r, f, x, d1, d2, d3
  <1>9. Effect(d, d3, [d.feed EXCEPT ![k] = f], [d.filter EXCEPT ![j] = x], d.feed_list \ {k}, d.pesfilter)
    BY <1>4, <1>5, <1>6 DEF Effect
  <1>10. Effect(d, d4, [d.feed EXCEPT ![k] = f], [d.filter EXCEPT ![j] = x], d.feed_list \ {k}, P)
    <2>1. CASE g.decoder
      <3>1. Effect(d3, PutPes(d3, g.pes, Null), d3.feed, d3.filter, d3.feed_list, [d3.pesfilter EXCEPT ![g.pes] = Null])
        <4>1. d3 \in DemuxSet
          BY <1>9 DEF Effect
        <4> QED
          BY <1>3, <4>1, Puts
      <3> QED
        BY <1>9, <2>1, <3>1 DEF Effect
    <2>2. CASE ~g.decoder
      BY <1>9, <2>2
    <2> QED
      BY <2>1, <2>2
  <1> HIDE DEF d4
  <1>11. Effect(d4, Ok(d4), d4.feed, d4.filter, d4.feed_list, d4.pesfilter) /\ Ok(d4).ret = 0
    BY <1>10, Results DEF Effect
  <1>12. /\ \A p \in PesTypes : P[p] = d.pesfilter[p] \/ P[p] = Null
         /\ d.feed[k].decoder /\ d.feed[k].pes \in PesTypes => P[d.feed[k].pes] = Null
    BY <1>2, <1>3
  <1> HIDE DEF P, g
  <1>13. Effect(d, r, [d.feed EXCEPT ![k] = f], [d.filter EXCEPT ![j] = x], d.feed_list \ {k}, P) /\ r.ret = 0
    BY <1>8, <1>10, <1>11 DEF Effect
  <1>14. f = Freed(d.feed[k]) /\ x = Emptied(d.filter[j])
    BY DEF f, x, g
  <1>15. \E Q : /\ Effect(d, r, [d.feed EXCEPT ![k] = Freed(@)], [d.filter EXCEPT ![j] = Emptied(@)],
                          d.feed_list \ {k}, Q)
                /\ \A p \in PesTypes : Q[p] = d.pesfilter[p] \/ Q[p] = Null
                /\ d.feed[k].decoder /\ d.feed[k].pes \in PesTypes => Q[d.feed[k].pes] = Null
    BY <1>12, <1>13, <1>14
  <1> QED
    BY <1>13, <1>15 DEF r

LEMMA TsReleaseType ==
  ASSUME NEW d \in DemuxSet, NEW k \in Feeds \cup {Null}
  PROVE  ReleaseTsFeed(d, k) \in DemuxSet
  <1>1. CASE k = Null
    BY <1>1, Results DEF ReleaseTsFeed
  <1>2. CASE k # Null /\ d.feed[k].state = DMX_FREE
    <2>1. ReleaseTsFeed(d, k) = Err(d)
      BY <1>2 DEF ReleaseTsFeed
    <2> QED
      BY <2>1, Results DEF Effect
  <1>3. CASE k # Null /\ d.feed[k].state # DMX_FREE /\ d.feed[k].filter = <<>>
    <2>1. ReleaseTsFeed(d, k) = Oops(d)
      BY <1>3 DEF ReleaseTsFeed
    <2> QED
      BY <2>1, Results
  <1>4. CASE k # Null /\ d.feed[k].state # DMX_FREE /\ d.feed[k].filter # <<>>
    <2>1. d.feed[k] \in FeedSet
      BY <1>4, FieldTypes
    <2>2. d.feed[k].filter \in Seq(Filters)
      BY <2>1, FeedTypes
    <2>3. Head(d.feed[k].filter) \in Filters
      BY <1>4, <2>2
    <2> QED
      BY <1>4, <2>3, TsRelease DEF Effect
  <1> QED
    BY <1>1, <1>2, <1>3, <1>4

\* Forget changes slots that are free, and the return value.
LEMMA ForgetFacts ==
  ASSUME NEW d \in DemuxSet
  PROVE  /\ Forget(d) \in DemuxSet
         /\ Forget(d).feed_list = d.feed_list /\ Forget(d).pesfilter = d.pesfilter
         /\ Forget(d).oops = d.oops
         /\ \A k \in Feeds : IF d.feed[k].state = DMX_FREE THEN Forget(d).feed[k].state = DMX_FREE
                             ELSE Forget(d).feed[k] = d.feed[k]
         /\ \A j \in Filters : IF d.filter[j].state = DMX_FREE THEN Forget(d).filter[j].state = DMX_FREE
                               ELSE Forget(d).filter[j] = d.filter[j]
  <1> DEFINE none == [state |-> DMX_FREE, feed |-> Null, priv |-> Null]
             F == [k \in Feeds |-> IF d.feed[k].state = DMX_FREE
                                     THEN FeedRec(d.feed[k].decoder, d.feed[k].pes) ELSE d.feed[k]]
             G == [j \in Filters |-> IF d.filter[j].state = DMX_FREE THEN none ELSE d.filter[j]]
             d1 == [d EXCEPT !.ret = 0, !.feed = F, !.filter = G]
  <1>1. Forget(d) = d1
    BY DEF Forget
  <1>2. F \in [Feeds -> FeedSet]
    <2> SUFFICES ASSUME NEW k \in Feeds PROVE F[k] \in FeedSet
      OBVIOUS
    <2>1. d.feed[k] \in FeedSet
      BY FieldTypes
    <2>2. FeedRec(d.feed[k].decoder, d.feed[k].pes) \in FeedSet
      <3>1. <<>> \in Seq(Filters) /\ d.feed[k].decoder \in BOOLEAN /\ d.feed[k].pes \in PesTypes \cup {Other}
        BY <2>1, FeedTypes
      <3> QED
        BY <3>1 DEF FeedRec, FeedSet
    <2> QED
      BY <2>1, <2>2
  <1>3. G \in [Filters -> SlotSet]
    <2>1. none \in SlotSet
      BY DEF SlotSet
    <2> HIDE DEF none
    <2>2. \A j \in Filters : d.filter[j] \in SlotSet
      BY FieldTypes
    <2> QED
      BY <2>1, <2>2
  <1>4. /\ \A k \in Feeds : IF d.feed[k].state = DMX_FREE THEN F[k].state = DMX_FREE ELSE F[k] = d.feed[k]
        /\ \A j \in Filters : IF d.filter[j].state = DMX_FREE THEN G[j].state = DMX_FREE ELSE G[j] = d.filter[j]
    BY DEF FeedRec
  <1> HIDE DEF F, G
  <1>5. d1 \in DemuxSet
    <2> DEFINE a == [d EXCEPT !.feed = F]
               b == [a EXCEPT !.filter = G]
    <2>1. a \in DemuxSet
      BY <1>2 DEF DemuxSet
    <2>2. b \in DemuxSet
      BY <1>3, <2>1 DEF DemuxSet
    <2>3. Ok(b) \in DemuxSet
      BY <2>2, Results DEF Effect
    <2>4. d1 = Ok(b)
      BY DEF DemuxSet, Ok
    <2> QED
      BY <2>3, <2>4
  <1>6. d1.feed = F /\ d1.filter = G
    BY DEF DemuxSet
  <1>7. d1.feed_list = d.feed_list /\ d1.pesfilter = d.pesfilter /\ d1.oops = d.oops
    BY DEF DemuxSet
  <1> HIDE DEF d1
  <1> QED
    BY <1>1, <1>4, <1>5, <1>6, <1>7

-----------------------------------------------------------------------------
(* Steps that keep the links between filters and slots.                    *)

StateSet == [dmx : DemuxSet, flt : [Devs -> DevSet]]

\* A filter whose links are the same, and one without links.
Like(a, b) == /\ b.type = a.type /\ b.params = a.params /\ b.feed = a.feed
              /\ b.sec = a.sec /\ b.ts = a.ts
              /\ b.timer = "armed" => a.timer = "armed"
              /\ b.state = a.state \/ (a.state >= GO /\ b.state >= GO)
Idle(b) == b.state < GO /\ b.timer # "armed" /\ (b.type = "NONE" <=> b.state < SET)

\* The slots other than k and j that were free are free, the rest as before.
Kept(d, e, k, j) ==
  /\ \A m \in Feeds \ {k} : IF d.feed[m].state = DMX_FREE THEN e.feed[m].state = DMX_FREE
                            ELSE e.feed[m] = d.feed[m]
  /\ \A m \in Filters \ {j} : IF d.filter[m].state = DMX_FREE THEN e.filter[m].state = DMX_FREE
                              ELSE e.filter[m] = d.filter[m]
  /\ e.oops = d.oops

\* The decoders as before, or given back.
DecodersKept(d, e) == \A p \in PesTypes : e.pesfilter[p] = d.pesfilter[p] \/ e.pesfilter[p] = Null

\* The filters but i as before.
OthersKept(s, t, i) == \A n \in Devs \ {i} : Like(s.flt[n], t.flt[n])

\* No filter starts or stops.
Quiet(s, t) ==
  /\ Kept(s.dmx, t.dmx, Null, Null) /\ t.dmx.feed_list = s.dmx.feed_list /\ DecodersKept(s.dmx, t.dmx)
  /\ \A n \in Devs : Like(s.flt[n], t.flt[n]) \/ (s.flt[n].state < GO /\ Idle(t.flt[n]))

LEMMA DevTypes ==
  ASSUME NEW s \in StateSet, NEW n \in Devs
  PROVE  /\ s.dmx \in DemuxSet /\ s.flt \in [Devs -> DevSet] /\ s.flt[n] \in DevSet
         /\ s.flt[n].state \in 0 .. 5 /\ s.flt[n].state \in Int
         /\ s.flt[n].type \in {"NONE", "SEC", "PES"} /\ s.flt[n].feed \in Feeds \cup {Null}
         /\ s.flt[n].sec \in Filters \cup {Null} /\ s.flt[n].ts \in Seq(EntrySet)
         /\ s.flt[n].params \in ParamSet /\ s.flt[n].timer \in {"off", "armed"}
         /\ s.flt[n].late \in BOOLEAN
  BY DEF StateSet, DevSet, FREE, TIMEDOUT

\* What a step without a start or a stop does to the predicates on one filter.
LEMMA QuietFilters ==
  ASSUME NEW s \in StateSet, NEW t \in StateSet, Linked(s), Quiet(s, t), NEW n \in Devs
  PROVE  /\ Sec(t, n) <=> Sec(s, n)
         /\ Pes(t, n) <=> Pes(s, n)
         /\ Sec(s, n) \/ Pes(s, n) =>
              /\ t.flt[n].params = s.flt[n].params /\ t.flt[n].feed = s.flt[n].feed
              /\ t.flt[n].sec = s.flt[n].sec /\ t.flt[n].ts = s.flt[n].ts
         /\ t.flt[n].type = "NONE" <=> t.flt[n].state < SET
         /\ t.flt[n].timer = "armed" => Sec(t, n)
  <1>1. s.flt[n].state \in Int /\ t.flt[n].state \in Int
    BY DevTypes
  <1>2. Like(s.flt[n], t.flt[n]) \/ (s.flt[n].state < GO /\ Idle(t.flt[n]))
    BY DEF Quiet
  <1>3. /\ s.flt[n].type = "NONE" <=> s.flt[n].state < SET
        /\ s.flt[n].timer = "armed" => Sec(s, n)
    BY DEF Linked, StatesInv
  <1> QED
    BY <1>1, <1>2, <1>3 DEF Like, Idle, Sec, Pes, GO, SET

LEMMA QuietLinked ==
  ASSUME NEW s \in StateSet, NEW t \in StateSet, Linked(s), Quiet(s, t)
  PROVE  Linked(t)
  <1>1. \A n \in Devs :
          /\ Sec(t, n) <=> Sec(s, n)
          /\ Pes(t, n) <=> Pes(s, n)
          /\ Sec(s, n) \/ Pes(s, n) =>
               /\ t.flt[n].params = s.flt[n].params /\ t.flt[n].feed = s.flt[n].feed
               /\ t.flt[n].sec = s.flt[n].sec /\ t.flt[n].ts = s.flt[n].ts
    BY QuietFilters
  <1>2. StatesInv(t)
    BY QuietFilters DEF StatesInv
  <1>3. Null \notin Feeds /\ Null \notin Filters
    BY Constants
  <1>4. \A k \in Feeds : IF s.dmx.feed[k].state = DMX_FREE THEN t.dmx.feed[k].state = DMX_FREE
                         ELSE t.dmx.feed[k] = s.dmx.feed[k]
    BY <1>3 DEF Quiet, Kept
  <1>5. \A j \in Filters : IF s.dmx.filter[j].state = DMX_FREE THEN t.dmx.filter[j].state = DMX_FREE
                           ELSE t.dmx.filter[j] = s.dmx.filter[j]
    BY <1>3 DEF Quiet, Kept
  <1>6. DMX_GO # DMX_FREE /\ DMX_READY # DMX_FREE
    BY DEF DMX_GO, DMX_READY, DMX_FREE
  <1>7. SecInv(t)
    <2>1. \A n \in Devs : Sec(s, n) => SecLink(s.dmx, n, s.flt[n].params.pid, s.flt[n].feed, s.flt[n].sec)
      BY DEF Linked, SecInv
    <2>2. \A n, pid, k, j : SecLink(s.dmx, n, pid, k, j) => SecLink(t.dmx, n, pid, k, j)
      BY <1>4, <1>5, <1>6 DEF SecLink, InChain
    <2> QED
      BY <1>1, <2>1, <2>2 DEF SecInv
  <1>8. ShareInv(t)
    BY <1>1 DEF Linked, ShareInv
  <1>9. PesInv(t)
    <2>1. \A n \in Devs : Pes(s, n) => PesLink(s.dmx, n, s.flt[n].ts[1].pid, s.flt[n].ts[1].ts)
      BY DEF Linked, PesInv
    <2>2. \A n, pid, k : PesLink(s.dmx, n, pid, k) => PesLink(t.dmx, n, pid, k)
      BY <1>4, <1>5, <1>6 DEF PesLink
    <2> QED
      BY <1>1, <2>1, <2>2 DEF PesInv
  <1>10. ChainInv(t)
    BY <1>4, <1>5 DEF Linked, ChainInv, InChain
  <1>11. OwnerInv(t)
    <2> SUFFICES ASSUME NEW j \in Filters, t.dmx.filter[j].state # DMX_FREE
                 PROVE  LET i == t.dmx.filter[j].priv
                            k == t.dmx.filter[j].feed
                        IN  /\ i \in Devs /\ k \in Feeds
                            /\ \/ Sec(t, i) /\ t.flt[i].sec = j /\ t.flt[i].feed = k
                               \/ Pes(t, i) /\ t.flt[i].ts[1].ts = k /\ t.dmx.feed[k].filter = <<j>>
      BY DEF OwnerInv
    <2> DEFINE i == s.dmx.filter[j].priv
               k == s.dmx.filter[j].feed
    <2>1. s.dmx.filter[j].state # DMX_FREE /\ t.dmx.filter[j] = s.dmx.filter[j]
      BY <1>5
    <2>2. /\ i \in Devs /\ k \in Feeds
          /\ \/ Sec(s, i) /\ s.flt[i].sec = j /\ s.flt[i].feed = k
             \/ Pes(s, i) /\ s.flt[i].ts[1].ts = k /\ s.dmx.feed[k].filter = <<j>>
      BY <2>1 DEF Linked, OwnerInv
    <2>3. Pes(s, i) /\ s.flt[i].ts[1].ts = k => s.dmx.feed[k].state = DMX_GO
      BY <2>2 DEF Linked, PesInv, PesLink
    <2> QED
      BY <1>1, <1>4, <1>6, <2>1, <2>2, <2>3
  <1>12. ListInv(t)
    <2>1. t.dmx.feed_list = {k \in Feeds : t.dmx.feed[k].state # DMX_FREE}
      BY <1>4 DEF Linked, ListInv, Quiet
    <2>2. ASSUME NEW p \in PesTypes, t.dmx.pesfilter[p] # Null
          PROVE  LET k == t.dmx.pesfilter[p]
                 IN  /\ k \in t.dmx.feed_list /\ t.dmx.feed[k].type = "TS"
                     /\ t.dmx.feed[k].decoder /\ t.dmx.feed[k].pes = p
      <3>1. t.dmx.pesfilter[p] = s.dmx.pesfilter[p]
        BY <2>2 DEF Quiet, DecodersKept
      <3> QED
        BY <1>4, <2>1, <2>2, <3>1 DEF Linked, ListInv
    <2> QED
      BY <2>1, <2>2 DEF ListInv
  <1>13. ~t.dmx.oops
    BY DEF Linked, Quiet, Kept
  <1> QED
    BY <1>2, <1>7, <1>8, <1>9, <1>10, <1>11, <1>12, <1>13 DEF Linked

\* Filter i stops, and takes feed k and the only demux filter j of k with it.
Gone(s, t, i, k, j) ==
  /\ k \in Feeds /\ j \in Filters
  /\ \/ Sec(s, i) /\ s.flt[i].feed = k /\ s.flt[i].sec = j
     \/ Pes(s, i) /\ s.flt[i].ts[1].ts = k /\ s.dmx.feed[k].filter = <<j>>
  /\ \A n \in Devs \ {i} : /\ ~(Sec(s, n) /\ s.flt[n].feed = k)
                           /\ ~(Pes(s, n) /\ s.flt[n].ts[1].ts = k)
  /\ Kept(s.dmx, t.dmx, k, j) /\ OthersKept(s, t, i) /\ Idle(t.flt[i])
  /\ t.dmx.feed[k].state = DMX_FREE /\ t.dmx.filter[j].state = DMX_FREE
  /\ t.dmx.feed_list = s.dmx.feed_list \ {k}
  /\ DecodersKept(s.dmx, t.dmx) /\ \A p \in PesTypes : t.dmx.pesfilter[p] # k

\* Section filter i stops, and others go on with feed k.
Shrunk(s, t, i, k, j) ==
  /\ k \in Feeds /\ j \in Filters
  /\ Sec(s, i) /\ s.flt[i].feed = k /\ s.flt[i].sec = j
  /\ \E n \in Devs \ {i} : Sec(s, n) /\ s.flt[n].feed = k
  /\ Kept(s.dmx, t.dmx, k, j) /\ OthersKept(s, t, i) /\ Idle(t.flt[i])
  /\ \E n \in 1 .. Len(s.dmx.feed[k].filter) :
       /\ s.dmx.feed[k].filter[n] = j
       /\ t.dmx.feed[k] = WithChain(s.dmx.feed[k], RemoveAt(s.dmx.feed[k].filter, n))
  /\ t.dmx.filter[j].state = DMX_FREE
  /\ t.dmx.feed_list = s.dmx.feed_list /\ t.dmx.pesfilter = s.dmx.pesfilter

\* Filter i starts on a feed of its own.
Born(s, t, i, k, j) ==
  /\ k \in Feeds /\ j \in Filters /\ s.flt[i].state < GO
  /\ s.dmx.feed[k].state = DMX_FREE /\ s.dmx.filter[j].state = DMX_FREE
  /\ Kept(s.dmx, t.dmx, k, j) /\ OthersKept(s, t, i)
  /\ t.dmx.feed[k].state = DMX_GO /\ t.dmx.feed[k].filter = <<j>>
  /\ t.dmx.filter[j] = InUse(k, i)
  /\ t.dmx.feed_list = s.dmx.feed_list \cup {k}
  /\ \A p \in PesTypes : \/ t.dmx.pesfilter[p] \in {s.dmx.pesfilter[p], Null}
                         \/ /\ t.dmx.pesfilter[p] = k /\ t.dmx.feed[k].type = "TS"
                            /\ t.dmx.feed[k].decoder /\ t.dmx.feed[k].pes = p
  /\ \/ /\ Sec(t, i) /\ t.flt[i].feed = k /\ t.flt[i].sec = j
        /\ t.dmx.feed[k].type = "SEC" /\ t.dmx.feed[k].is_filtering
        /\ t.dmx.feed[k].pid = t.flt[i].params.pid
        /\ Running(s, t.flt[i].params.pid) = {}
     \/ /\ Pes(t, i) /\ t.flt[i].ts[1].ts = k /\ t.flt[i].timer # "armed"
        /\ t.dmx.feed[k].type = "TS" /\ t.dmx.feed[k].pid = t.flt[i].ts[1].pid

\* Section filter i starts on a feed that others have.
Grown(s, t, i, k, j) ==
  /\ k \in Feeds /\ j \in Filters /\ s.flt[i].state < GO
  /\ \E n \in Running(s, t.flt[i].params.pid) : s.flt[n].feed = k
  /\ s.dmx.filter[j].state = DMX_FREE
  /\ Kept(s.dmx, t.dmx, k, j) /\ OthersKept(s, t, i)
  /\ t.dmx.feed[k] = WithChain(s.dmx.feed[k], <<j>> \o s.dmx.feed[k].filter)
  /\ t.dmx.filter[j] = InUse(k, i)
  /\ t.dmx.feed_list = s.dmx.feed_list /\ t.dmx.pesfilter = s.dmx.pesfilter
  /\ Sec(t, i) /\ t.flt[i].feed = k /\ t.flt[i].sec = j

\* The filters but i, and the slots but k and j.
LEMMA OthersFacts ==
  ASSUME NEW s \in StateSet, NEW t \in StateSet, Linked(s), NEW i \in Devs, OthersKept(s, t, i),
         NEW n \in Devs \ {i}
  PROVE  /\ Sec(t, n) <=> Sec(s, n)
         /\ Pes(t, n) <=> Pes(s, n)
         /\ t.flt[n].params = s.flt[n].params /\ t.flt[n].feed = s.flt[n].feed
         /\ t.flt[n].sec = s.flt[n].sec /\ t.flt[n].ts = s.flt[n].ts
         /\ t.flt[n].type = "NONE" <=> t.flt[n].state < SET
         /\ t.flt[n].timer = "armed" => Sec(t, n)
  <1>1. s.flt[n].state \in Int /\ t.flt[n].state \in Int
    BY DevTypes
  <1>2. Like(s.flt[n], t.flt[n])
    BY DEF OthersKept
  <1>3. /\ s.flt[n].type = "NONE" <=> s.flt[n].state < SET
        /\ s.flt[n].timer = "armed" => Sec(s, n)
    BY DEF Linked, StatesInv
  <1> QED
    BY <1>1, <1>2, <1>3 DEF Like, Sec, Pes, GO, SET

LEMMA StateNumbers ==
  /\ DMX_GO # DMX_FREE /\ DMX_READY # DMX_FREE /\ DMX_ALLOCATED # DMX_FREE
  /\ \A b : Idle(b) => ~(b.state >= GO) \/ b.state \notin Int
  <1>1. DMX_GO # DMX_FREE /\ DMX_READY # DMX_FREE /\ DMX_ALLOCATED # DMX_FREE
    BY DEF DMX_GO, DMX_READY, DMX_FREE, DMX_ALLOCATED
  <1>2. \A b : Idle(b) => ~(b.state >= GO) \/ b.state \notin Int
    BY DEF Idle, GO
  <1> QED
    BY <1>1, <1>2

\* The facts of Linked about one filter, one feed, one slot.
LEMMA LinkedFacts ==
  ASSUME NEW s \in StateSet, Linked(s)
  PROVE  /\ \A n \in Devs : Sec(s, n) =>
              SecLink(s.dmx, n, s.flt[n].params.pid, s.flt[n].feed, s.flt[n].sec)
         /\ \A n \in Devs : Pes(s, n) => PesLink(s.dmx, n, s.flt[n].ts[1].pid, s.flt[n].ts[1].ts)
         /\ \A n \in Devs : ~(Sec(s, n) /\ Pes(s, n))
         /\ \A m, n \in Devs : Sec(s, m) /\ Sec(s, n) /\ s.flt[m].feed = s.flt[n].feed =>
              s.flt[m].params.pid = s.flt[n].params.pid
         /\ \A m, n \in Devs : Sec(s, m) /\ Pes(s, n) => s.flt[m].feed # s.flt[n].ts[1].ts
         /\ \A m, n \in Devs : Pes(s, m) /\ Pes(s, n) /\ s.flt[m].ts[1].ts = s.flt[n].ts[1].ts => m = n
         /\ \A m, n \in Devs : Sec(s, m) /\ Sec(s, n) /\ s.flt[m].sec = s.flt[n].sec => m = n
  <1>1. \A n \in Devs : Sec(s, n) =>
          SecLink(s.dmx, n, s.flt[n].params.pid, s.flt[n].feed, s.flt[n].sec)
    BY DEF Linked, SecInv
  <1>2. \A n \in Devs : Pes(s, n) => PesLink(s.dmx, n, s.flt[n].ts[1].pid, s.flt[n].ts[1].ts)
    BY DEF Linked, PesInv
  <1>3. \A n \in Devs : ~(Sec(s, n) /\ Pes(s, n))
    BY DEF Sec, Pes
  <1>4. \A m, n \in Devs : Sec(s, m) /\ Sec(s, n) /\ s.flt[m].feed = s.flt[n].feed =>
          s.flt[m].params.pid = s.flt[n].params.pid
    <2>1. \A n \in Devs : Sec(s, n) => s.dmx.feed[s.flt[n].feed].pid = s.flt[n].params.pid
      BY <1>1 DEF SecLink
    <2> QED
      BY <2>1, Zenon
  <1>5. \A m, n \in Devs : Sec(s, m) /\ Pes(s, n) => s.flt[m].feed # s.flt[n].ts[1].ts
    BY <1>1, <1>2 DEF SecLink, PesLink
  <1>6. \A m, n \in Devs : Pes(s, m) /\ Pes(s, n) /\ s.flt[m].ts[1].ts = s.flt[n].ts[1].ts => m = n
    <2>1. \A n, pid, k : PesLink(s.dmx, n, pid, k) => s.dmx.filter[s.dmx.feed[k].filter[1]].priv = n
      BY DEF PesLink
    <2>2. \A n \in Devs : Pes(s, n) => s.dmx.filter[s.dmx.feed[s.flt[n].ts[1].ts].filter[1]].priv = n
      BY <1>2, <2>1, Zenon
    <2> QED
      BY <2>2, Zenon
  <1>7. \A m, n \in Devs : Sec(s, m) /\ Sec(s, n) /\ s.flt[m].sec = s.flt[n].sec => m = n
    <2>1. \A n, pid, k, j : SecLink(s.dmx, n, pid, k, j) => s.dmx.filter[j].priv = n
      BY DEF SecLink
    <2>2. ASSUME NEW n \in Devs, Sec(s, n) PROVE s.dmx.filter[s.flt[n].sec].priv = n
      <3>1. SecLink(s.dmx, n, s.flt[n].params.pid, s.flt[n].feed, s.flt[n].sec)
        BY <1>1, <2>2
      <3> QED
        BY <2>1, <3>1
    <2> QED
      BY <2>2, Zenon
  <1> QED
    BY <1>1, <1>2, <1>3, <1>4, <1>5, <1>6, <1>7

LEMMA ChainRemove ==
  ASSUME NEW c \in Seq(Filters), NEW n \in 1 .. Len(c), \A a, b \in DOMAIN c : c[a] = c[b] => a = b
  PROVE  LET r == RemoveAt(c, n)
         IN  /\ r \in Seq(Filters)
             /\ \A a, b \in DOMAIN r : r[a] = r[b] => a = b
             /\ \A j : (\E m \in DOMAIN r : r[m] = j) <=> (j # c[n] /\ \E m \in DOMAIN c : c[m] = j)
  <1> DEFINE r == RemoveAt(c, n)
             at(m) == IF m < n THEN m ELSE m + 1
  <1>1. /\ r \in Seq(Filters) /\ Len(r) = Len(c) - 1
        /\ \A m \in 1 .. Len(c) - 1 : r[m] = IF m < n THEN c[m] ELSE c[m + 1]
    BY RemoveFacts
  <1> HIDE DEF r
  <1>2. DOMAIN r = 1 .. Len(c) - 1 /\ DOMAIN c = 1 .. Len(c) /\ Len(c) \in Nat
    BY <1>1
  <1>3. \A m \in DOMAIN r : at(m) \in DOMAIN c /\ at(m) # n /\ r[m] = c[at(m)]
    BY <1>1, <1>2
  <1>4. \A a, b \in DOMAIN r : r[a] = r[b] => a = b
    BY <1>2, <1>3
  <1>5. \A m \in DOMAIN c : m # n => \E a \in DOMAIN r : at(a) = m
    <2> SUFFICES ASSUME NEW m \in DOMAIN c, m # n PROVE \E a \in DOMAIN r : at(a) = m
      OBVIOUS
    <2>1. CASE m < n
      BY <1>2, <2>1
    <2>2. CASE m > n
      <3>1. m - 1 \in DOMAIN r /\ at(m - 1) = m
        BY <1>2, <2>2
      <3> QED
        BY <3>1
    <2> QED
      BY <1>2, <2>1, <2>2
  <1>6. ASSUME NEW j PROVE (\E m \in DOMAIN r : r[m] = j) <=> (j # c[n] /\ \E m \in DOMAIN c : c[m] = j)
    <2> HIDE DEF at
    <2>1. ASSUME NEW m \in DOMAIN r, r[m] = j PROVE j # c[n] /\ \E a \in DOMAIN c : c[a] = j
      BY <1>2, <1>3, <2>1
    <2>2. ASSUME j # c[n], NEW m \in DOMAIN c, c[m] = j PROVE \E a \in DOMAIN r : r[a] = j
      BY <1>3, <1>5, <2>2
    <2> QED
      BY <2>1, <2>2
  <1> QED
    BY <1>1, <1>4, <1>6 DEF r

LEMMA ChainPush ==
  ASSUME NEW c \in Seq(Filters), NEW j \in Filters, \A m \in DOMAIN c : c[m] # j,
         \A a, b \in DOMAIN c : c[a] = c[b] => a = b
  PROVE  LET r == <<j>> \o c
         IN  /\ r \in Seq(Filters) /\ r # <<>>
             /\ \A a, b \in DOMAIN r : r[a] = r[b] => a = b
             /\ \A n : (\E m \in DOMAIN r : r[m] = n) <=> (n = j \/ \E m \in DOMAIN c : c[m] = n)
  <1> DEFINE r == <<j>> \o c
  <1>1. /\ r \in Seq(Filters) /\ Len(r) = Len(c) + 1 /\ r[1] = j
        /\ \A m \in 1 .. Len(c) : r[m + 1] = c[m]
    OBVIOUS
  <1> HIDE DEF r
  <1>2. DOMAIN r = 1 .. Len(c) + 1 /\ DOMAIN c = 1 .. Len(c) /\ Len(c) \in Nat
    BY <1>1
  <1>3. \A m \in DOMAIN r : m = 1 \/ (m - 1 \in DOMAIN c /\ r[m] = c[m - 1])
    <2> SUFFICES ASSUME NEW m \in DOMAIN r, m # 1 PROVE m - 1 \in DOMAIN c /\ r[m] = c[m - 1]
      OBVIOUS
    <2>1. m - 1 \in 1 .. Len(c) /\ (m - 1) + 1 = m
      BY <1>2
    <2> QED
      BY <1>1, <1>2, <2>1
  <1>4. ASSUME NEW a \in DOMAIN r, NEW b \in DOMAIN r, r[a] = r[b] PROVE a = b
    <2>1. CASE a = 1 \/ b = 1
      BY <1>1, <1>3, <1>4, <2>1
    <2>2. CASE a # 1 /\ b # 1
      <3>1. a - 1 = b - 1
        BY <1>3, <1>4, <2>2
      <3> QED
        BY <1>2, <3>1
    <2> QED
      BY <2>1, <2>2
  <1>5. ASSUME NEW n PROVE (\E m \in DOMAIN r : r[m] = n) <=> (n = j \/ \E m \in DOMAIN c : c[m] = n)
    <2>1. ASSUME NEW m \in DOMAIN r, r[m] = n PROVE n = j \/ \E a \in DOMAIN c : c[a] = n
      BY <1>1, <1>3, <2>1
    <2>2. n = j => \E m \in DOMAIN r : r[m] = n
      BY <1>1, <1>2
    <2>3. ASSUME NEW m \in DOMAIN c, c[m] = n PROVE \E a \in DOMAIN r : r[a] = n
      <3>1. m + 1 \in DOMAIN r /\ r[m + 1] = n
        BY <1>1, <1>2, <2>3
      <3> QED
        BY <3>1
    <2> QED
      BY <2>1, <2>2, <2>3
  <1>6. r # <<>>
    BY <1>1
  <1> QED
    BY <1>1, <1>4, <1>5, <1>6 DEF r

LEMMA GoneLinked ==
  ASSUME NEW s \in StateSet, NEW t \in StateSet, Linked(s), NEW i \in Devs, NEW k, NEW j,
         Gone(s, t, i, k, j)
  PROVE  Linked(t)
  <1>1. k \in Feeds /\ j \in Filters /\ Kept(s.dmx, t.dmx, k, j) /\ OthersKept(s, t, i) /\ Idle(t.flt[i])
    BY DEF Gone
  <1>2. \A n \in Devs \ {i} :
          /\ Sec(t, n) <=> Sec(s, n)
          /\ Pes(t, n) <=> Pes(s, n)
          /\ t.flt[n].params = s.flt[n].params /\ t.flt[n].feed = s.flt[n].feed
          /\ t.flt[n].sec = s.flt[n].sec /\ t.flt[n].ts = s.flt[n].ts
    BY <1>1, OthersFacts
  <1>3. ~Sec(t, i) /\ ~Pes(t, i) /\ t.flt[i].timer # "armed" /\ (t.flt[i].type = "NONE" <=> t.flt[i].state < SET)
    <2>1. t.flt[i].state \in Int
      BY DevTypes
    <2> QED
      BY <1>1, <2>1 DEF Idle, Sec, Pes, GO
  <1>4. \A n \in Devs \ {i} : /\ Sec(s, n) => s.flt[n].feed # k
                              /\ Pes(s, n) => s.flt[n].ts[1].ts # k
    BY DEF Gone
  <1>5. \A m \in Feeds : m # k => IF s.dmx.feed[m].state = DMX_FREE THEN t.dmx.feed[m].state = DMX_FREE
                                  ELSE t.dmx.feed[m] = s.dmx.feed[m]
    BY <1>1 DEF Kept
  <1>6. \A m \in Filters : m # j => IF s.dmx.filter[m].state = DMX_FREE THEN t.dmx.filter[m].state = DMX_FREE
                                    ELSE t.dmx.filter[m] = s.dmx.filter[m]
    BY <1>1 DEF Kept
  <1>7. DMX_GO # DMX_FREE /\ DMX_READY # DMX_FREE
    BY StateNumbers
  <1>8. s.dmx.filter[j].priv = i /\ s.dmx.filter[j].feed = k
    <2>1. CASE Sec(s, i) /\ s.flt[i].feed = k /\ s.flt[i].sec = j
      <3>1. SecLink(s.dmx, i, s.flt[i].params.pid, k, j)
        BY <2>1, LinkedFacts
      <3> QED
        BY <3>1 DEF SecLink
    <2>2. CASE Pes(s, i) /\ s.flt[i].ts[1].ts = k /\ s.dmx.feed[k].filter = <<j>>
      <3>1. PesLink(s.dmx, i, s.flt[i].ts[1].pid, k)
        BY <2>2, LinkedFacts
      <3> QED
        BY <2>2, <3>1 DEF PesLink
    <2> QED
      BY <2>1, <2>2 DEF Gone
  <1>9. StatesInv(t)
    <2>1. \A n \in Devs \ {i} : /\ t.flt[n].type = "NONE" <=> t.flt[n].state < SET
                                /\ t.flt[n].timer = "armed" => Sec(t, n)
      BY <1>1, OthersFacts
    <2> QED
      BY <1>3, <2>1 DEF StatesInv
  <1>10. SecInv(t)
    <2> SUFFICES ASSUME NEW n \in Devs, Sec(t, n)
                 PROVE  SecLink(t.dmx, n, t.flt[n].params.pid, t.flt[n].feed, t.flt[n].sec)
      BY DEF SecInv
    <2>1. n \in Devs \ {i} /\ Sec(s, n)
      BY <1>2, <1>3
    <2>2. SecLink(s.dmx, n, s.flt[n].params.pid, s.flt[n].feed, s.flt[n].sec) /\ s.flt[n].feed # k
      BY <1>4, <2>1, LinkedFacts
    <2>3. \A pid, m, l : SecLink(s.dmx, n, pid, m, l) /\ m # k => SecLink(t.dmx, n, pid, m, l)
      BY <1>5, <1>6, <1>7, <1>8, <2>1 DEF SecLink, InChain
    <2> QED
      BY <1>2, <2>1, <2>2, <2>3
  <1>11. ShareInv(t)
    BY <1>2, <1>3 DEF Linked, ShareInv
  <1>12. PesInv(t)
    <2> SUFFICES ASSUME NEW n \in Devs, Pes(t, n)
                 PROVE  PesLink(t.dmx, n, t.flt[n].ts[1].pid, t.flt[n].ts[1].ts)
      BY DEF PesInv
    <2>1. n \in Devs \ {i} /\ Pes(s, n)
      BY <1>2, <1>3
    <2>2. PesLink(s.dmx, n, s.flt[n].ts[1].pid, s.flt[n].ts[1].ts) /\ s.flt[n].ts[1].ts # k
      BY <1>4, <2>1, LinkedFacts
    <2>3. \A pid, m : PesLink(s.dmx, n, pid, m) /\ m # k => PesLink(t.dmx, n, pid, m)
      BY <1>5, <1>6, <1>7, <1>8, <2>1 DEF PesLink
    <2> QED
      BY <1>2, <2>1, <2>2, <2>3
  <1>13. ChainInv(t)
    <2>1. \A m \in Feeds : t.dmx.feed[m].state # DMX_FREE =>
            m # k /\ s.dmx.feed[m].state # DMX_FREE /\ t.dmx.feed[m] = s.dmx.feed[m]
      BY <1>5 DEF Gone
    <2> QED
      BY <1>6, <1>8, <2>1 DEF Linked, ChainInv, InChain
  <1>14. OwnerInv(t)
    <2> SUFFICES ASSUME NEW l \in Filters, t.dmx.filter[l].state # DMX_FREE
                 PROVE  LET n == t.dmx.filter[l].priv
                            m == t.dmx.filter[l].feed
                        IN  /\ n \in Devs /\ m \in Feeds
                            /\ \/ Sec(t, n) /\ t.flt[n].sec = l /\ t.flt[n].feed = m
                               \/ Pes(t, n) /\ t.flt[n].ts[1].ts = m /\ t.dmx.feed[m].filter = <<l>>
      BY DEF OwnerInv
    <2> DEFINE n == s.dmx.filter[l].priv
               m == s.dmx.filter[l].feed
    <2>1. l # j /\ s.dmx.filter[l].state # DMX_FREE /\ t.dmx.filter[l] = s.dmx.filter[l]
      BY <1>6 DEF Gone
    <2>2. /\ n \in Devs /\ m \in Feeds
          /\ \/ Sec(s, n) /\ s.flt[n].sec = l /\ s.flt[n].feed = m
             \/ Pes(s, n) /\ s.flt[n].ts[1].ts = m /\ s.dmx.feed[m].filter = <<l>>
      BY <2>1 DEF Linked, OwnerInv
    <2> HIDE DEF n, m
    <2>3. n # i
      <3>1. CASE Sec(s, i) /\ s.flt[i].feed = k /\ s.flt[i].sec = j
        BY <2>1, <2>2, <3>1 DEF Sec, Pes
      <3>2. CASE Pes(s, i) /\ s.flt[i].ts[1].ts = k /\ s.dmx.feed[k].filter = <<j>>
        BY <2>1, <2>2, <3>2 DEF Sec, Pes
      <3> QED
        BY <3>1, <3>2 DEF Gone
    <2>4. m # k
      BY <1>4, <2>2, <2>3
    <2>5. Pes(s, n) /\ s.flt[n].ts[1].ts = m => s.dmx.feed[m].state = DMX_GO
      BY <2>2 DEF Linked, PesInv, PesLink
    <2>6. t.dmx.filter[l].priv = n /\ t.dmx.filter[l].feed = m
      BY <2>1 DEF n, m
    <2>7. \/ Sec(t, n) /\ t.flt[n].sec = l /\ t.flt[n].feed = m
          \/ Pes(t, n) /\ t.flt[n].ts[1].ts = m /\ t.dmx.feed[m].filter = <<l>>
      BY <1>2, <1>5, <1>7, <2>2, <2>3, <2>4, <2>5
    <2> QED
      BY <2>2, <2>6, <2>7
  <1>15. ListInv(t)
    <2>1. t.dmx.feed_list = {m \in Feeds : t.dmx.feed[m].state # DMX_FREE}
      <3>1. s.dmx.feed_list = {m \in Feeds : s.dmx.feed[m].state # DMX_FREE}
        BY DEF Linked, ListInv
      <3>2. t.dmx.feed_list = s.dmx.feed_list \ {k} /\ t.dmx.feed[k].state = DMX_FREE
        BY DEF Gone
      <3> QED
        BY <1>5, <3>1, <3>2
    <2>2. ASSUME NEW p \in PesTypes, t.dmx.pesfilter[p] # Null
          PROVE  LET m == t.dmx.pesfilter[p]
                 IN  /\ m \in t.dmx.feed_list /\ t.dmx.feed[m].type = "TS"
                     /\ t.dmx.feed[m].decoder /\ t.dmx.feed[m].pes = p
      <3> DEFINE m == s.dmx.pesfilter[p]
      <3>1. t.dmx.pesfilter[p] = m /\ m # k /\ m # Null
        BY <2>2 DEF Gone, DecodersKept
      <3>2. m \in s.dmx.feed_list /\ s.dmx.feed[m].type = "TS" /\ s.dmx.feed[m].decoder /\ s.dmx.feed[m].pes = p
        BY <3>1 DEF Linked, ListInv
      <3>3. m \in Feeds /\ s.dmx.feed[m].state # DMX_FREE
        BY <3>2 DEF Linked, ListInv
      <3>4. t.dmx.feed[m] = s.dmx.feed[m] /\ m \in t.dmx.feed_list
        BY <1>5, <2>1, <3>1, <3>3
      <3> QED
        BY <3>1, <3>2, <3>4
    <2> QED
      BY <2>1, <2>2 DEF ListInv
  <1>16. ~t.dmx.oops
    BY <1>1 DEF Linked, Kept
  <1> QED
    BY <1>9, <1>10, <1>11, <1>12, <1>13, <1>14, <1>15, <1>16 DEF Linked

LEMMA ChainFields ==
  ASSUME NEW f \in FeedSet, NEW c \in Seq(Filters)
  PROVE  LET g == WithChain(f, c)
         IN  /\ g.filter = c /\ g.state = f.state /\ g.type = f.type /\ g.is_filtering = f.is_filtering
             /\ g.pid = f.pid /\ g.decoder = f.decoder /\ g.pes = f.pes
  BY DEF WithChain, FeedSet

LEMMA ShrunkLinked ==
  ASSUME NEW s \in StateSet, NEW t \in StateSet, Linked(s), NEW i \in Devs, NEW k, NEW j,
         Shrunk(s, t, i, k, j)
  PROVE  Linked(t)
  <1>1. k \in Feeds /\ j \in Filters /\ Kept(s.dmx, t.dmx, k, j) /\ OthersKept(s, t, i) /\ Idle(t.flt[i])
    BY DEF Shrunk
  <1>2. \A n \in Devs \ {i} :
          /\ Sec(t, n) <=> Sec(s, n)
          /\ Pes(t, n) <=> Pes(s, n)
          /\ t.flt[n].params = s.flt[n].params /\ t.flt[n].feed = s.flt[n].feed
          /\ t.flt[n].sec = s.flt[n].sec /\ t.flt[n].ts = s.flt[n].ts
    BY <1>1, OthersFacts
  <1>3. ~Sec(t, i) /\ ~Pes(t, i) /\ t.flt[i].timer # "armed" /\ (t.flt[i].type = "NONE" <=> t.flt[i].state < SET)
    <2>1. t.flt[i].state \in Int
      BY DevTypes
    <2> QED
      BY <1>1, <2>1 DEF Idle, Sec, Pes, GO
  <1>4. Sec(s, i) /\ s.flt[i].feed = k /\ s.flt[i].sec = j
    BY DEF Shrunk
  <1>5. \A m \in Feeds : m # k => IF s.dmx.feed[m].state = DMX_FREE THEN t.dmx.feed[m].state = DMX_FREE
                                  ELSE t.dmx.feed[m] = s.dmx.feed[m]
    BY <1>1 DEF Kept
  <1>6. \A m \in Filters : m # j => IF s.dmx.filter[m].state = DMX_FREE THEN t.dmx.filter[m].state = DMX_FREE
                                    ELSE t.dmx.filter[m] = s.dmx.filter[m]
    BY <1>1 DEF Kept
  <1>7. DMX_GO # DMX_FREE /\ DMX_READY # DMX_FREE
    BY StateNumbers
  <1>8. SecLink(s.dmx, i, s.flt[i].params.pid, k, j)
    BY <1>4, LinkedFacts
  <1>9. s.dmx.filter[j].priv = i /\ s.dmx.filter[j].feed = k /\ s.dmx.feed[k].state = DMX_GO
    BY <1>8 DEF SecLink
  <1>10. /\ t.dmx.feed[k].state = s.dmx.feed[k].state /\ t.dmx.feed[k].type = s.dmx.feed[k].type
         /\ t.dmx.feed[k].is_filtering = s.dmx.feed[k].is_filtering
         /\ t.dmx.feed[k].pid = s.dmx.feed[k].pid /\ t.dmx.feed[k].decoder = s.dmx.feed[k].decoder
         /\ t.dmx.feed[k].pes = s.dmx.feed[k].pes
         /\ \A l : InChain(t.dmx, k, l) <=> l # j /\ InChain(s.dmx, k, l)
         /\ \A a, b \in DOMAIN t.dmx.feed[k].filter : t.dmx.feed[k].filter[a] = t.dmx.feed[k].filter[b] => a = b
    <2> DEFINE c == s.dmx.feed[k].filter
    <2>1. PICK n \in 1 .. Len(c) : c[n] = j /\ t.dmx.feed[k] = WithChain(s.dmx.feed[k], RemoveAt(c, n))
      BY DEF Shrunk
    <2>2. s.dmx.feed[k] \in FeedSet /\ c \in Seq(Filters)
      <3>1. s.dmx \in DemuxSet
        BY DevTypes
      <3>2. s.dmx.feed[k] \in FeedSet
        BY <1>1, <3>1, FieldTypes
      <3> QED
        BY <3>2, FeedTypes
    <2>3. \A a, b \in DOMAIN c : c[a] = c[b] => a = b
      BY <1>1, <1>7, <1>9 DEF Linked, ChainInv
    <2> HIDE DEF c
    <2> DEFINE r == RemoveAt(c, n)
    <2>4. /\ r \in Seq(Filters)
          /\ \A a, b \in DOMAIN r : r[a] = r[b] => a = b
          /\ \A l : (\E m \in DOMAIN r : r[m] = l) <=> (l # c[n] /\ \E m \in DOMAIN c : c[m] = l)
      BY <2>2, <2>3, ChainRemove, Zenon
    <2> HIDE DEF r
    <2>5. /\ t.dmx.feed[k].filter = r
          /\ t.dmx.feed[k].state = s.dmx.feed[k].state /\ t.dmx.feed[k].type = s.dmx.feed[k].type
          /\ t.dmx.feed[k].is_filtering = s.dmx.feed[k].is_filtering
          /\ t.dmx.feed[k].pid = s.dmx.feed[k].pid /\ t.dmx.feed[k].decoder = s.dmx.feed[k].decoder
          /\ t.dmx.feed[k].pes = s.dmx.feed[k].pes
      <3>1. t.dmx.feed[k] = WithChain(s.dmx.feed[k], r)
        BY <2>1 DEF r
      <3> QED
        BY <2>2, <2>4, <3>1, ChainFields
    <2>6. \A l : InChain(t.dmx, k, l) <=> l # j /\ InChain(s.dmx, k, l)
      <3>1. \A l : InChain(t.dmx, k, l) <=> \E m \in DOMAIN r : r[m] = l
        BY <2>5, Zenon DEF InChain
      <3>2. \A l : InChain(s.dmx, k, l) <=> \E m \in DOMAIN c : c[m] = l
        BY Zenon DEF InChain, c
      <3> QED
        BY <2>1, <2>4, <3>1, <3>2, Zenon
    <2> QED
      BY <2>4, <2>5, <2>6
  <1>11. StatesInv(t)
    <2>1. \A n \in Devs \ {i} : /\ t.flt[n].type = "NONE" <=> t.flt[n].state < SET
                                /\ t.flt[n].timer = "armed" => Sec(t, n)
      BY <1>1, OthersFacts
    <2> QED
      BY <1>3, <2>1 DEF StatesInv
  <1>12. SecInv(t)
    <2> SUFFICES ASSUME NEW n \in Devs, Sec(t, n)
                 PROVE  SecLink(t.dmx, n, t.flt[n].params.pid, t.flt[n].feed, t.flt[n].sec)
      BY DEF SecInv
    <2>1. n \in Devs \ {i} /\ Sec(s, n)
      BY <1>2, <1>3
    <2>2. SecLink(s.dmx, n, s.flt[n].params.pid, s.flt[n].feed, s.flt[n].sec)
      BY <2>1, LinkedFacts
    <2>3. \A pid, m, l : SecLink(s.dmx, n, pid, m, l) /\ m # k => SecLink(t.dmx, n, pid, m, l)
      BY <1>5, <1>6, <1>7, <1>9, <2>1 DEF SecLink, InChain
    <2>4. \A pid, l : SecLink(s.dmx, n, pid, k, l) => SecLink(t.dmx, n, pid, k, l)
      BY <1>6, <1>7, <1>9, <1>10, <2>1 DEF SecLink
    <2> QED
      BY <1>2, <2>1, <2>2, <2>3, <2>4
  <1>13. ShareInv(t)
    BY <1>2, <1>3 DEF Linked, ShareInv
  <1>14. PesInv(t)
    <2> SUFFICES ASSUME NEW n \in Devs, Pes(t, n)
                 PROVE  PesLink(t.dmx, n, t.flt[n].ts[1].pid, t.flt[n].ts[1].ts)
      BY DEF PesInv
    <2>1. n \in Devs \ {i} /\ Pes(s, n)
      BY <1>2, <1>3
    <2>2. PesLink(s.dmx, n, s.flt[n].ts[1].pid, s.flt[n].ts[1].ts) /\ s.flt[n].ts[1].ts # k
      BY <1>4, <2>1, LinkedFacts
    <2>3. \A pid, m : PesLink(s.dmx, n, pid, m) /\ m # k => PesLink(t.dmx, n, pid, m)
      BY <1>5, <1>6, <1>7, <1>9, <2>1 DEF PesLink
    <2> QED
      BY <1>2, <2>1, <2>2, <2>3
  <1>15. ChainInv(t)
    <2>1. \A m \in Feeds : m # k /\ t.dmx.feed[m].state # DMX_FREE =>
            s.dmx.feed[m].state # DMX_FREE /\ t.dmx.feed[m] = s.dmx.feed[m]
      BY <1>5
    <2>2. t.dmx.feed[k].filter # <<>>
      <3>1. PICK n \in Devs \ {i} : Sec(s, n) /\ s.flt[n].feed = k
        BY DEF Shrunk
      <3>2. SecLink(s.dmx, n, s.flt[n].params.pid, k, s.flt[n].sec)
        BY <3>1, LinkedFacts
      <3>3. InChain(s.dmx, k, s.flt[n].sec) /\ s.flt[n].sec # j
        BY <1>9, <3>1, <3>2 DEF SecLink
      <3>4. InChain(t.dmx, k, s.flt[n].sec)
        BY <1>10, <3>3
      <3> QED
        BY <3>4 DEF InChain
    <2>3. \A l \in Filters : InChain(t.dmx, k, l) => t.dmx.filter[l].state # DMX_FREE /\ t.dmx.filter[l].feed = k
      <3>1. \A l \in Filters : InChain(s.dmx, k, l) => s.dmx.filter[l].state # DMX_FREE /\ s.dmx.filter[l].feed = k
        BY <1>1, <1>7, <1>9 DEF Linked, ChainInv
      <3> QED
        BY <1>6, <1>10, <3>1
    <2>4. ASSUME NEW m \in Feeds, m # k, t.dmx.feed[m].state # DMX_FREE
          PROVE  /\ t.dmx.feed[m].filter # <<>>
                 /\ \A a, b \in DOMAIN t.dmx.feed[m].filter : t.dmx.feed[m].filter[a] = t.dmx.feed[m].filter[b] => a = b
                 /\ \A l \in Filters : InChain(t.dmx, m, l) =>
                      t.dmx.filter[l].state # DMX_FREE /\ t.dmx.filter[l].feed = m
      BY <1>6, <1>9, <2>1, <2>4 DEF Linked, ChainInv, InChain
    <2> QED
      BY <1>10, <2>2, <2>3, <2>4 DEF ChainInv
  <1>16. OwnerInv(t)
    <2> SUFFICES ASSUME NEW l \in Filters, t.dmx.filter[l].state # DMX_FREE
                 PROVE  LET n == t.dmx.filter[l].priv
                            m == t.dmx.filter[l].feed
                        IN  /\ n \in Devs /\ m \in Feeds
                            /\ \/ Sec(t, n) /\ t.flt[n].sec = l /\ t.flt[n].feed = m
                               \/ Pes(t, n) /\ t.flt[n].ts[1].ts = m /\ t.dmx.feed[m].filter = <<l>>
      BY DEF OwnerInv
    <2> DEFINE n == s.dmx.filter[l].priv
               m == s.dmx.filter[l].feed
    <2>1. l # j /\ s.dmx.filter[l].state # DMX_FREE /\ t.dmx.filter[l] = s.dmx.filter[l]
      BY <1>6 DEF Shrunk
    <2>2. /\ n \in Devs /\ m \in Feeds
          /\ \/ Sec(s, n) /\ s.flt[n].sec = l /\ s.flt[n].feed = m
             \/ Pes(s, n) /\ s.flt[n].ts[1].ts = m /\ s.dmx.feed[m].filter = <<l>>
      BY <2>1 DEF Linked, OwnerInv
    <2> HIDE DEF n, m
    <2>3. n # i
      BY <1>4, <2>1, <2>2 DEF Sec, Pes
    <2>4. Pes(s, n) /\ s.flt[n].ts[1].ts = m => s.dmx.feed[m].state = DMX_GO /\ m # k
      <3>1. Pes(s, n) => s.flt[i].feed # s.flt[n].ts[1].ts
        BY <1>4, <2>2, LinkedFacts
      <3>2. Pes(s, n) => PesLink(s.dmx, n, s.flt[n].ts[1].pid, s.flt[n].ts[1].ts)
        BY <2>2, LinkedFacts
      <3> QED
        BY <1>4, <3>1, <3>2 DEF PesLink
    <2>5. t.dmx.filter[l].priv = n /\ t.dmx.filter[l].feed = m
      BY <2>1 DEF n, m
    <2>6. \/ Sec(t, n) /\ t.flt[n].sec = l /\ t.flt[n].feed = m
          \/ Pes(t, n) /\ t.flt[n].ts[1].ts = m /\ t.dmx.feed[m].filter = <<l>>
      BY <1>2, <1>5, <1>7, <2>2, <2>3, <2>4
    <2> QED
      BY <2>2, <2>5, <2>6
  <1>17. ListInv(t)
    <2>1. t.dmx.feed_list = s.dmx.feed_list /\ t.dmx.pesfilter = s.dmx.pesfilter
      BY DEF Shrunk
    <2>2. /\ s.dmx.feed_list = {m \in Feeds : s.dmx.feed[m].state # DMX_FREE}
          /\ \A p \in PesTypes : s.dmx.pesfilter[p] # Null =>
               LET m == s.dmx.pesfilter[p]
               IN  /\ m \in s.dmx.feed_list /\ s.dmx.feed[m].type = "TS"
                   /\ s.dmx.feed[m].decoder /\ s.dmx.feed[m].pes = p
      BY DEF Linked, ListInv
    <2>3. \A m \in Feeds : t.dmx.feed[m].state # DMX_FREE <=> s.dmx.feed[m].state # DMX_FREE
      BY <1>5, <1>10
    <2>4. \A m \in s.dmx.feed_list : /\ t.dmx.feed[m].type = s.dmx.feed[m].type
                                     /\ t.dmx.feed[m].decoder = s.dmx.feed[m].decoder
                                     /\ t.dmx.feed[m].pes = s.dmx.feed[m].pes
      BY <1>5, <1>10, <2>2
    <2>5. t.dmx.feed_list = {m \in Feeds : t.dmx.feed[m].state # DMX_FREE}
      BY <2>1, <2>2, <2>3
    <2> QED
      BY <2>1, <2>2, <2>4, <2>5 DEF ListInv
  <1>18. ~t.dmx.oops
    BY <1>1 DEF Linked, Kept
  <1> QED
    BY <1>11, <1>12, <1>13, <1>14, <1>15, <1>16, <1>17, <1>18 DEF Linked

LEMMA BornLinked ==
  ASSUME NEW s \in StateSet, NEW t \in StateSet, Linked(s), NEW i \in Devs, NEW k, NEW j,
         Born(s, t, i, k, j)
  PROVE  Linked(t)
  <1>1. /\ k \in Feeds /\ j \in Filters /\ Kept(s.dmx, t.dmx, k, j) /\ OthersKept(s, t, i)
        /\ s.dmx.feed[k].state = DMX_FREE /\ s.dmx.filter[j].state = DMX_FREE
        /\ t.dmx.feed[k].state = DMX_GO /\ t.dmx.feed[k].filter = <<j>> /\ t.dmx.filter[j] = InUse(k, i)
    BY DEF Born
  <1>2. \A n \in Devs \ {i} :
          /\ Sec(t, n) <=> Sec(s, n)
          /\ Pes(t, n) <=> Pes(s, n)
          /\ t.flt[n].params = s.flt[n].params /\ t.flt[n].feed = s.flt[n].feed
          /\ t.flt[n].sec = s.flt[n].sec /\ t.flt[n].ts = s.flt[n].ts
    BY <1>1, OthersFacts
  <1>3. ~Sec(s, i) /\ ~Pes(s, i)
    <2>1. s.flt[i].state \in Int /\ s.flt[i].state < GO
      BY DevTypes DEF Born
    <2> QED
      BY <2>1 DEF Sec, Pes, GO
  <1>4. \/ /\ Sec(t, i) /\ ~Pes(t, i) /\ t.flt[i].feed = k /\ t.flt[i].sec = j
           /\ t.dmx.feed[k].type = "SEC" /\ t.dmx.feed[k].is_filtering
           /\ t.dmx.feed[k].pid = t.flt[i].params.pid
           /\ Running(s, t.flt[i].params.pid) = {}
        \/ /\ Pes(t, i) /\ ~Sec(t, i) /\ t.flt[i].ts[1].ts = k /\ t.flt[i].timer # "armed"
           /\ t.dmx.feed[k].type = "TS" /\ t.dmx.feed[k].pid = t.flt[i].ts[1].pid
    BY DEF Born, Sec, Pes
  <1>5. \A m \in Feeds : m # k => IF s.dmx.feed[m].state = DMX_FREE THEN t.dmx.feed[m].state = DMX_FREE
                                  ELSE t.dmx.feed[m] = s.dmx.feed[m]
    BY <1>1 DEF Kept
  <1>6. \A m \in Filters : m # j => IF s.dmx.filter[m].state = DMX_FREE THEN t.dmx.filter[m].state = DMX_FREE
                                    ELSE t.dmx.filter[m] = s.dmx.filter[m]
    BY <1>1 DEF Kept
  <1>7. DMX_GO # DMX_FREE /\ DMX_READY # DMX_FREE
    BY StateNumbers
  <1>8. t.dmx.filter[j].state = DMX_READY /\ t.dmx.filter[j].feed = k /\ t.dmx.filter[j].priv = i
    BY <1>1 DEF InUse
  <1>9. \A l : InChain(t.dmx, k, l) <=> l = j
    <2>1. \A l : (\E n \in DOMAIN <<j>> : <<j>>[n] = l) <=> l = j
      OBVIOUS
    <2> QED
      BY <1>1, <2>1 DEF InChain
  <1>10. StatesInv(t)
    <2>1. \A n \in Devs \ {i} : /\ t.flt[n].type = "NONE" <=> t.flt[n].state < SET
                                /\ t.flt[n].timer = "armed" => Sec(t, n)
      BY <1>1, OthersFacts
    <2>2. /\ t.flt[i].type = "NONE" <=> t.flt[i].state < SET
          /\ t.flt[i].timer = "armed" => Sec(t, i)
      <3>1. t.flt[i].state \in Int
        BY DevTypes
      <3> QED
        BY <1>4, <3>1 DEF Sec, Pes, GO, SET
    <2> QED
      BY <2>1, <2>2 DEF StatesInv
  <1>11. SecInv(t)
    <2> SUFFICES ASSUME NEW n \in Devs, Sec(t, n)
                 PROVE  SecLink(t.dmx, n, t.flt[n].params.pid, t.flt[n].feed, t.flt[n].sec)
      BY DEF SecInv
    <2>1. CASE n = i
      BY <1>1, <1>4, <1>9, <2>1 DEF SecLink, InUse
    <2>2. CASE n # i
      <3>1. n \in Devs \ {i} /\ Sec(s, n)
        BY <1>2, <2>2
      <3>2. SecLink(s.dmx, n, s.flt[n].params.pid, s.flt[n].feed, s.flt[n].sec)
        BY <3>1, LinkedFacts
      <3>3. \A pid, m, l : SecLink(s.dmx, n, pid, m, l) => SecLink(t.dmx, n, pid, m, l)
        BY <1>1, <1>5, <1>6, <1>7 DEF SecLink, InChain
      <3> QED
        BY <1>2, <3>1, <3>2, <3>3
    <2> QED
      BY <2>1, <2>2
  <1>12. ShareInv(t)
    <2>1. ASSUME NEW n \in Devs \ {i}, Sec(t, i), Sec(t, n) PROVE t.flt[n].params.pid # t.flt[i].params.pid
      BY <1>2, <1>4, <2>1 DEF Running, Sec
    <2> QED
      BY <1>2, <2>1 DEF Linked, ShareInv
  <1>13. PesInv(t)
    <2> SUFFICES ASSUME NEW n \in Devs, Pes(t, n)
                 PROVE  PesLink(t.dmx, n, t.flt[n].ts[1].pid, t.flt[n].ts[1].ts)
      BY DEF PesInv
    <2>1. CASE n = i
      BY <1>1, <1>4, <2>1 DEF PesLink, InUse
    <2>2. CASE n # i
      <3>1. n \in Devs \ {i} /\ Pes(s, n)
        BY <1>2, <2>2
      <3>2. PesLink(s.dmx, n, s.flt[n].ts[1].pid, s.flt[n].ts[1].ts)
        BY <3>1, LinkedFacts
      <3>3. \A pid, m : PesLink(s.dmx, n, pid, m) => PesLink(t.dmx, n, pid, m)
        BY <1>1, <1>5, <1>6, <1>7 DEF PesLink
      <3> QED
        BY <1>2, <3>1, <3>2, <3>3
    <2> QED
      BY <2>1, <2>2
  <1>14. ChainInv(t)
    <2>1. \A m \in Feeds : m # k /\ t.dmx.feed[m].state # DMX_FREE =>
            s.dmx.feed[m].state # DMX_FREE /\ t.dmx.feed[m] = s.dmx.feed[m]
      BY <1>5
    <2>2. ASSUME NEW m \in Feeds, m # k, t.dmx.feed[m].state # DMX_FREE
          PROVE  /\ t.dmx.feed[m].filter # <<>>
                 /\ \A a, b \in DOMAIN t.dmx.feed[m].filter : t.dmx.feed[m].filter[a] = t.dmx.feed[m].filter[b] => a = b
                 /\ \A l \in Filters : InChain(t.dmx, m, l) =>
                      t.dmx.filter[l].state # DMX_FREE /\ t.dmx.filter[l].feed = m
      BY <1>1, <1>6, <2>1, <2>2 DEF Linked, ChainInv, InChain
    <2>3. /\ t.dmx.feed[k].filter # <<>>
          /\ \A a, b \in DOMAIN t.dmx.feed[k].filter : t.dmx.feed[k].filter[a] = t.dmx.feed[k].filter[b] => a = b
      <3>1. <<j>> # <<>> /\ \A a, b \in DOMAIN <<j>> : <<j>>[a] = <<j>>[b] => a = b
        OBVIOUS
      <3> QED
        BY <1>1, <3>1
    <2> QED
      BY <1>7, <1>8, <1>9, <2>2, <2>3 DEF ChainInv
  <1>15. OwnerInv(t)
    <2> SUFFICES ASSUME NEW l \in Filters, t.dmx.filter[l].state # DMX_FREE
                 PROVE  LET n == t.dmx.filter[l].priv
                            m == t.dmx.filter[l].feed
                        IN  /\ n \in Devs /\ m \in Feeds
                            /\ \/ Sec(t, n) /\ t.flt[n].sec = l /\ t.flt[n].feed = m
                               \/ Pes(t, n) /\ t.flt[n].ts[1].ts = m /\ t.dmx.feed[m].filter = <<l>>
      BY DEF OwnerInv
    <2>1. CASE l = j
      BY <1>1, <1>4, <1>8, <2>1
    <2>2. CASE l # j
      <3> DEFINE n == s.dmx.filter[l].priv
                 m == s.dmx.filter[l].feed
      <3>1. s.dmx.filter[l].state # DMX_FREE /\ t.dmx.filter[l] = s.dmx.filter[l]
        BY <1>6, <2>2
      <3>2. /\ n \in Devs /\ m \in Feeds
            /\ \/ Sec(s, n) /\ s.flt[n].sec = l /\ s.flt[n].feed = m
               \/ Pes(s, n) /\ s.flt[n].ts[1].ts = m /\ s.dmx.feed[m].filter = <<l>>
        BY <3>1 DEF Linked, OwnerInv
      <3> HIDE DEF n, m
      <3>3. n # i
        BY <1>3, <3>2
      <3>4. Pes(s, n) /\ s.flt[n].ts[1].ts = m => s.dmx.feed[m].state = DMX_GO
        BY <3>2 DEF Linked, PesInv, PesLink
      <3>5. t.dmx.filter[l].priv = n /\ t.dmx.filter[l].feed = m
        BY <3>1 DEF n, m
      <3>6. \/ Sec(t, n) /\ t.flt[n].sec = l /\ t.flt[n].feed = m
            \/ Pes(t, n) /\ t.flt[n].ts[1].ts = m /\ t.dmx.feed[m].filter = <<l>>
        BY <1>1, <1>2, <1>5, <1>7, <3>2, <3>3, <3>4
      <3> QED
        BY <3>2, <3>5, <3>6
    <2> QED
      BY <2>1, <2>2
  <1>16. ListInv(t)
    <2>1. t.dmx.feed_list = {m \in Feeds : t.dmx.feed[m].state # DMX_FREE}
      <3>1. s.dmx.feed_list = {m \in Feeds : s.dmx.feed[m].state # DMX_FREE}
        BY DEF Linked, ListInv
      <3>2. t.dmx.feed_list = s.dmx.feed_list \cup {k}
        BY DEF Born
      <3> QED
        BY <1>1, <1>5, <1>7, <3>1, <3>2
    <2>2. ASSUME NEW p \in PesTypes, t.dmx.pesfilter[p] # Null
          PROVE  LET m == t.dmx.pesfilter[p]
                 IN  /\ m \in t.dmx.feed_list /\ t.dmx.feed[m].type = "TS"
                     /\ t.dmx.feed[m].decoder /\ t.dmx.feed[m].pes = p
      <3> DEFINE m == s.dmx.pesfilter[p]
      <3>1. \/ t.dmx.pesfilter[p] = m /\ m # Null
            \/ /\ t.dmx.pesfilter[p] = k /\ t.dmx.feed[k].type = "TS"
               /\ t.dmx.feed[k].decoder /\ t.dmx.feed[k].pes = p
        BY <2>2 DEF Born
      <3>2. CASE t.dmx.pesfilter[p] = m /\ m # Null
        <4>1. m \in s.dmx.feed_list /\ s.dmx.feed[m].type = "TS" /\ s.dmx.feed[m].decoder /\ s.dmx.feed[m].pes = p
          BY <3>2 DEF Linked, ListInv
        <4>2. m \in Feeds /\ s.dmx.feed[m].state # DMX_FREE
          BY <4>1 DEF Linked, ListInv
        <4>3. t.dmx.feed[m] = s.dmx.feed[m] /\ m \in t.dmx.feed_list
          BY <1>1, <1>5, <2>1, <4>2
        <4> QED
          BY <3>2, <4>1, <4>3
      <3>3. CASE t.dmx.pesfilter[p] = k /\ t.dmx.feed[k].type = "TS" /\ t.dmx.feed[k].decoder /\ t.dmx.feed[k].pes = p
        BY <1>1, <1>7, <2>1, <3>3
      <3> QED
        BY <3>1, <3>2, <3>3
    <2> QED
      BY <2>1, <2>2 DEF ListInv
  <1>17. ~t.dmx.oops
    BY <1>1 DEF Linked, Kept
  <1> QED
    BY <1>10, <1>11, <1>12, <1>13, <1>14, <1>15, <1>16, <1>17 DEF Linked

LEMMA GrownLinked ==
  ASSUME NEW s \in StateSet, NEW t \in StateSet, Linked(s), NEW i \in Devs, NEW k, NEW j,
         Grown(s, t, i, k, j)
  PROVE  Linked(t)
  <1>1. /\ k \in Feeds /\ j \in Filters /\ Kept(s.dmx, t.dmx, k, j) /\ OthersKept(s, t, i)
        /\ s.dmx.filter[j].state = DMX_FREE /\ t.dmx.filter[j] = InUse(k, i)
        /\ Sec(t, i) /\ t.flt[i].feed = k /\ t.flt[i].sec = j
    BY DEF Grown
  <1>2. \A n \in Devs \ {i} :
          /\ Sec(t, n) <=> Sec(s, n)
          /\ Pes(t, n) <=> Pes(s, n)
          /\ t.flt[n].params = s.flt[n].params /\ t.flt[n].feed = s.flt[n].feed
          /\ t.flt[n].sec = s.flt[n].sec /\ t.flt[n].ts = s.flt[n].ts
    BY <1>1, OthersFacts
  <1>3. ~Sec(s, i) /\ ~Pes(s, i) /\ ~Pes(t, i)
    <2>1. s.flt[i].state \in Int /\ s.flt[i].state < GO
      BY DevTypes DEF Grown
    <2> QED
      BY <1>1, <2>1 DEF Sec, Pes, GO
  <1>4. PICK q \in Devs : Sec(s, q) /\ s.flt[q].feed = k /\ s.flt[q].params.pid = t.flt[i].params.pid
    BY DEF Grown, Running, Sec
  <1>5. \A m \in Feeds : m # k => IF s.dmx.feed[m].state = DMX_FREE THEN t.dmx.feed[m].state = DMX_FREE
                                  ELSE t.dmx.feed[m] = s.dmx.feed[m]
    BY <1>1 DEF Kept
  <1>6. \A m \in Filters : m # j => IF s.dmx.filter[m].state = DMX_FREE THEN t.dmx.filter[m].state = DMX_FREE
                                    ELSE t.dmx.filter[m] = s.dmx.filter[m]
    BY <1>1 DEF Kept
  <1>7. DMX_GO # DMX_FREE /\ DMX_READY # DMX_FREE
    BY StateNumbers
  <1>8. t.dmx.filter[j].state = DMX_READY /\ t.dmx.filter[j].feed = k /\ t.dmx.filter[j].priv = i
    BY <1>1 DEF InUse
  <1>9. /\ s.dmx.feed[k].state = DMX_GO /\ s.dmx.feed[k].type = "SEC" /\ s.dmx.feed[k].is_filtering
        /\ s.dmx.feed[k].pid = t.flt[i].params.pid
    <2>1. SecLink(s.dmx, q, s.flt[q].params.pid, k, s.flt[q].sec)
      BY <1>4, LinkedFacts
    <2> QED
      BY <1>4, <2>1 DEF SecLink
  <1>10. /\ t.dmx.feed[k].state = s.dmx.feed[k].state /\ t.dmx.feed[k].type = s.dmx.feed[k].type
         /\ t.dmx.feed[k].is_filtering = s.dmx.feed[k].is_filtering
         /\ t.dmx.feed[k].pid = s.dmx.feed[k].pid /\ t.dmx.feed[k].decoder = s.dmx.feed[k].decoder
         /\ t.dmx.feed[k].pes = s.dmx.feed[k].pes
         /\ \A l : InChain(t.dmx, k, l) <=> l = j \/ InChain(s.dmx, k, l)
         /\ t.dmx.feed[k].filter # <<>>
         /\ \A a, b \in DOMAIN t.dmx.feed[k].filter : t.dmx.feed[k].filter[a] = t.dmx.feed[k].filter[b] => a = b
    <2> DEFINE c == s.dmx.feed[k].filter
               r == <<j>> \o c
    <2>1. s.dmx.feed[k] \in FeedSet /\ c \in Seq(Filters)
      <3>1. s.dmx \in DemuxSet
        BY DevTypes
      <3>2. s.dmx.feed[k] \in FeedSet
        BY <1>1, <3>1, FieldTypes
      <3> QED
        BY <3>2, FeedTypes
    <2>2. \A a, b \in DOMAIN c : c[a] = c[b] => a = b
      BY <1>1, <1>7, <1>9 DEF Linked, ChainInv
    <2>3. \A m \in DOMAIN c : c[m] # j
      BY <1>1, <1>7, <1>9 DEF Linked, ChainInv, InChain
    <2>4. t.dmx.feed[k] = WithChain(s.dmx.feed[k], r)
      BY DEF Grown
    <2> HIDE DEF c
    <2>5. /\ r \in Seq(Filters) /\ r # <<>>
          /\ \A a, b \in DOMAIN r : r[a] = r[b] => a = b
          /\ \A l : (\E m \in DOMAIN r : r[m] = l) <=> (l = j \/ \E m \in DOMAIN c : c[m] = l)
      BY <1>1, <2>1, <2>2, <2>3, ChainPush, Zenon
    <2> HIDE DEF r
    <2>6. /\ t.dmx.feed[k].filter = r
          /\ t.dmx.feed[k].state = s.dmx.feed[k].state /\ t.dmx.feed[k].type = s.dmx.feed[k].type
          /\ t.dmx.feed[k].is_filtering = s.dmx.feed[k].is_filtering
          /\ t.dmx.feed[k].pid = s.dmx.feed[k].pid /\ t.dmx.feed[k].decoder = s.dmx.feed[k].decoder
          /\ t.dmx.feed[k].pes = s.dmx.feed[k].pes
      BY <2>1, <2>4, <2>5, ChainFields
    <2>7. \A l : InChain(t.dmx, k, l) <=> l = j \/ InChain(s.dmx, k, l)
      <3>1. \A l : InChain(t.dmx, k, l) <=> \E m \in DOMAIN r : r[m] = l
        BY <2>6, Zenon DEF InChain
      <3>2. \A l : InChain(s.dmx, k, l) <=> \E m \in DOMAIN c : c[m] = l
        BY Zenon DEF InChain, c
      <3> QED
        BY <2>5, <3>1, <3>2, Zenon
    <2> QED
      BY <2>5, <2>6, <2>7
  <1>11. StatesInv(t)
    <2>1. \A n \in Devs \ {i} : /\ t.flt[n].type = "NONE" <=> t.flt[n].state < SET
                                /\ t.flt[n].timer = "armed" => Sec(t, n)
      BY <1>1, OthersFacts
    <2>2. /\ t.flt[i].type = "NONE" <=> t.flt[i].state < SET
          /\ t.flt[i].timer = "armed" => Sec(t, i)
      <3>1. t.flt[i].state \in Int
        BY DevTypes
      <3> QED
        BY <1>1, <3>1 DEF Sec, GO, SET
    <2> QED
      BY <2>1, <2>2 DEF StatesInv
  <1>12. SecInv(t)
    <2> SUFFICES ASSUME NEW n \in Devs, Sec(t, n)
                 PROVE  SecLink(t.dmx, n, t.flt[n].params.pid, t.flt[n].feed, t.flt[n].sec)
      BY DEF SecInv
    <2>1. CASE n = i
      BY <1>1, <1>9, <1>10, <2>1 DEF SecLink, InUse
    <2>2. CASE n # i
      <3>1. n \in Devs \ {i} /\ Sec(s, n)
        BY <1>2, <2>2
      <3>2. SecLink(s.dmx, n, s.flt[n].params.pid, s.flt[n].feed, s.flt[n].sec)
        BY <3>1, LinkedFacts
      <3>3. \A pid, m, l : SecLink(s.dmx, n, pid, m, l) /\ m # k => SecLink(t.dmx, n, pid, m, l)
        BY <1>1, <1>5, <1>6, <1>7 DEF SecLink, InChain
      <3>4. \A pid, l : SecLink(s.dmx, n, pid, k, l) => SecLink(t.dmx, n, pid, k, l)
        BY <1>1, <1>6, <1>7, <1>10 DEF SecLink
      <3> QED
        BY <1>2, <3>1, <3>2, <3>3, <3>4
    <2> QED
      BY <2>1, <2>2
  <1>13. ShareInv(t)
    <2>1. ASSUME NEW n \in Devs \ {i}, Sec(t, n), t.flt[n].params.pid = t.flt[i].params.pid PROVE t.flt[n].feed = k
      <3>1. Sec(s, n) /\ s.flt[n].params.pid = s.flt[q].params.pid /\ s.flt[n].feed = t.flt[n].feed
        BY <1>2, <1>4, <2>1
      <3> QED
        BY <1>4, <3>1 DEF Linked, ShareInv
    <2>2. ASSUME NEW m \in Devs \ {i}, NEW n \in Devs \ {i}, Sec(t, m), Sec(t, n),
                 t.flt[m].params.pid = t.flt[n].params.pid
          PROVE  t.flt[m].feed = t.flt[n].feed
      BY <1>2, <2>2 DEF Linked, ShareInv
    <2> QED
      BY <1>1, <2>1, <2>2 DEF ShareInv
  <1>14. PesInv(t)
    <2> SUFFICES ASSUME NEW n \in Devs, Pes(t, n)
                 PROVE  PesLink(t.dmx, n, t.flt[n].ts[1].pid, t.flt[n].ts[1].ts)
      BY DEF PesInv
    <2>1. n \in Devs \ {i} /\ Pes(s, n)
      BY <1>2, <1>3
    <2>2. PesLink(s.dmx, n, s.flt[n].ts[1].pid, s.flt[n].ts[1].ts)
      BY <2>1, LinkedFacts
    <2>3. \A pid, m : PesLink(s.dmx, n, pid, m) => PesLink(t.dmx, n, pid, m)
      BY <1>1, <1>5, <1>6, <1>7, <1>9 DEF PesLink
    <2> QED
      BY <1>2, <2>1, <2>2, <2>3
  <1>15. ChainInv(t)
    <2>1. \A m \in Feeds : m # k /\ t.dmx.feed[m].state # DMX_FREE =>
            s.dmx.feed[m].state # DMX_FREE /\ t.dmx.feed[m] = s.dmx.feed[m]
      BY <1>5
    <2>2. ASSUME NEW m \in Feeds, m # k, t.dmx.feed[m].state # DMX_FREE
          PROVE  /\ t.dmx.feed[m].filter # <<>>
                 /\ \A a, b \in DOMAIN t.dmx.feed[m].filter : t.dmx.feed[m].filter[a] = t.dmx.feed[m].filter[b] => a = b
                 /\ \A l \in Filters : InChain(t.dmx, m, l) =>
                      t.dmx.filter[l].state # DMX_FREE /\ t.dmx.filter[l].feed = m
      BY <1>1, <1>6, <2>1, <2>2 DEF Linked, ChainInv, InChain
    <2>3. \A l \in Filters : InChain(t.dmx, k, l) => t.dmx.filter[l].state # DMX_FREE /\ t.dmx.filter[l].feed = k
      <3>1. \A l \in Filters : InChain(s.dmx, k, l) => s.dmx.filter[l].state # DMX_FREE /\ s.dmx.filter[l].feed = k
        BY <1>1, <1>7, <1>9 DEF Linked, ChainInv
      <3> QED
        BY <1>6, <1>7, <1>8, <1>10, <3>1
    <2> QED
      BY <1>10, <2>2, <2>3 DEF ChainInv
  <1>16. OwnerInv(t)
    <2> SUFFICES ASSUME NEW l \in Filters, t.dmx.filter[l].state # DMX_FREE
                 PROVE  LET n == t.dmx.filter[l].priv
                            m == t.dmx.filter[l].feed
                        IN  /\ n \in Devs /\ m \in Feeds
                            /\ \/ Sec(t, n) /\ t.flt[n].sec = l /\ t.flt[n].feed = m
                               \/ Pes(t, n) /\ t.flt[n].ts[1].ts = m /\ t.dmx.feed[m].filter = <<l>>
      BY DEF OwnerInv
    <2>1. CASE l = j
      BY <1>1, <1>8, <2>1
    <2>2. CASE l # j
      <3> DEFINE n == s.dmx.filter[l].priv
                 m == s.dmx.filter[l].feed
      <3>1. s.dmx.filter[l].state # DMX_FREE /\ t.dmx.filter[l] = s.dmx.filter[l]
        BY <1>6, <2>2
      <3>2. /\ n \in Devs /\ m \in Feeds
            /\ \/ Sec(s, n) /\ s.flt[n].sec = l /\ s.flt[n].feed = m
               \/ Pes(s, n) /\ s.flt[n].ts[1].ts = m /\ s.dmx.feed[m].filter = <<l>>
        BY <3>1 DEF Linked, OwnerInv
      <3> HIDE DEF n, m
      <3>3. n # i
        BY <1>3, <3>2
      <3>4. Pes(s, n) /\ s.flt[n].ts[1].ts = m => s.dmx.feed[m].state = DMX_GO /\ s.dmx.feed[m].type = "TS"
        <4>1. Pes(s, n) => PesLink(s.dmx, n, s.flt[n].ts[1].pid, s.flt[n].ts[1].ts)
          BY <3>2 DEF Linked, PesInv
        <4> QED
          BY <4>1 DEF PesLink
      <3>5. t.dmx.filter[l].priv = n /\ t.dmx.filter[l].feed = m
        BY <3>1 DEF n, m
      <3>6. \/ Sec(t, n) /\ t.flt[n].sec = l /\ t.flt[n].feed = m
            \/ Pes(t, n) /\ t.flt[n].ts[1].ts = m /\ t.dmx.feed[m].filter = <<l>>
        BY <1>2, <1>5, <1>7, <1>9, <3>2, <3>3, <3>4
      <3> QED
        BY <3>2, <3>5, <3>6
    <2> QED
      BY <2>1, <2>2
  <1>17. ListInv(t)
    <2>1. t.dmx.feed_list = s.dmx.feed_list /\ t.dmx.pesfilter = s.dmx.pesfilter
      BY DEF Grown
    <2>2. /\ s.dmx.feed_list = {m \in Feeds : s.dmx.feed[m].state # DMX_FREE}
          /\ \A p \in PesTypes : s.dmx.pesfilter[p] # Null =>
               LET m == s.dmx.pesfilter[p]
               IN  /\ m \in s.dmx.feed_list /\ s.dmx.feed[m].type = "TS"
                   /\ s.dmx.feed[m].decoder /\ s.dmx.feed[m].pes = p
      BY DEF Linked, ListInv
    <2>3. \A m \in Feeds : t.dmx.feed[m].state # DMX_FREE <=> s.dmx.feed[m].state # DMX_FREE
      BY <1>5, <1>10
    <2>4. \A m \in s.dmx.feed_list : /\ t.dmx.feed[m].type = s.dmx.feed[m].type
                                     /\ t.dmx.feed[m].decoder = s.dmx.feed[m].decoder
                                     /\ t.dmx.feed[m].pes = s.dmx.feed[m].pes
      BY <1>5, <1>10, <2>2
    <2>5. t.dmx.feed_list = {m \in Feeds : t.dmx.feed[m].state # DMX_FREE}
      BY <2>1, <2>2, <2>3
    <2> QED
      BY <2>1, <2>2, <2>4, <2>5 DEF ListInv
  <1>18. ~t.dmx.oops
    BY <1>1 DEF Linked, Kept
  <1> QED
    BY <1>11, <1>12, <1>13, <1>14, <1>15, <1>16, <1>17, <1>18 DEF Linked

-----------------------------------------------------------------------------
(* The functions of the device.                                            *)

\* t is the state with demux d and filters F.
IsState(t, d, F) == t \in StateSet /\ t.dmx = d /\ t.flt = F

\* s with demux d, and f in the slot of filter i.
Make(s, d, i, f) == [s EXCEPT !.dmx = d, !.flt[i] = f]

LEMMA MakeFacts ==
  ASSUME NEW s \in StateSet, NEW d \in DemuxSet, NEW i \in Devs, NEW f \in DevSet
  PROVE  /\ IsState(Make(s, d, i, f), d, [s.flt EXCEPT ![i] = f])
         /\ IsState([s EXCEPT !.dmx = d], d, s.flt)
         /\ IsState([s EXCEPT !.flt[i] = f], s.dmx, [s.flt EXCEPT ![i] = f])
  <1>1. IsState(Make(s, d, i, f), d, [s.flt EXCEPT ![i] = f])
    BY DEF IsState, StateSet, Make
  <1>2. IsState([s EXCEPT !.dmx = d], d, s.flt)
    BY DEF IsState, StateSet
  <1>3. IsState([s EXCEPT !.flt[i] = f], s.dmx, [s.flt EXCEPT ![i] = f])
    BY DEF IsState, StateSet
  <1> QED
    BY <1>1, <1>2, <1>3

\* What the functions store in a filter.
ToReady(f) == [f EXCEPT !.state = SET]
ToHalt(f) == [f EXCEPT !.state = SET, !.timer = "off"]
ToGo(f) == [f EXCEPT !.state = GO]
ToFeed(f, k) == [f EXCEPT !.feed = k]

LEMMA DevUpdates ==
  ASSUME NEW f \in DevSet
  PROVE  /\ ToReady(f) \in DevSet /\ ToHalt(f) \in DevSet /\ ToGo(f) \in DevSet
         /\ \A k \in Feeds \cup {Null} : ToFeed(f, k) \in DevSet
         /\ ToHalt(f).state = SET /\ ToHalt(f).timer = "off" /\ ToHalt(f).type = f.type
         /\ ToHalt(f).params = f.params /\ ToHalt(f).feed = f.feed /\ ToHalt(f).sec = f.sec
         /\ ToHalt(f).ts = f.ts
         /\ ToGo(f).state = GO /\ ToGo(f).timer = f.timer /\ ToGo(f).type = f.type
         /\ ToGo(f).params = f.params /\ ToGo(f).feed = f.feed /\ ToGo(f).sec = f.sec
         /\ ToGo(f).ts = f.ts
         /\ ToReady(f).state = SET /\ ToReady(f).timer = f.timer /\ ToReady(f).type = f.type
         /\ ToReady(f).params = f.params /\ ToReady(f).ts = f.ts
         /\ \A k \in Feeds \cup {Null} :
              /\ ToFeed(f, k).state = f.state /\ ToFeed(f, k).timer = f.timer
              /\ ToFeed(f, k).type = f.type /\ ToFeed(f, k).params = f.params
              /\ ToFeed(f, k).feed = k /\ ToFeed(f, k).sec = f.sec /\ ToFeed(f, k).ts = f.ts
  <1>1. SET \in FREE .. TIMEDOUT /\ GO \in FREE .. TIMEDOUT
    BY DEF SET, GO, FREE, TIMEDOUT
  <1>2. ToReady(f) \in DevSet
    BY <1>1 DEF DevSet, ToReady
  <1>3. ToHalt(f) \in DevSet
    BY <1>1 DEF DevSet, ToHalt
  <1>4. ToGo(f) \in DevSet
    BY <1>1 DEF DevSet, ToGo
  <1>5. \A k \in Feeds \cup {Null} : ToFeed(f, k) \in DevSet
    BY DEF DevSet, ToFeed
  <1>6. /\ ToHalt(f).state = SET /\ ToHalt(f).timer = "off" /\ ToHalt(f).type = f.type
        /\ ToHalt(f).params = f.params /\ ToHalt(f).feed = f.feed /\ ToHalt(f).sec = f.sec
        /\ ToHalt(f).ts = f.ts
    BY DEF DevSet, ToHalt
  <1>7. /\ ToGo(f).state = GO /\ ToGo(f).timer = f.timer /\ ToGo(f).type = f.type
        /\ ToGo(f).params = f.params /\ ToGo(f).feed = f.feed /\ ToGo(f).sec = f.sec
        /\ ToGo(f).ts = f.ts
    BY DEF DevSet, ToGo
  <1>8. /\ ToReady(f).state = SET /\ ToReady(f).timer = f.timer /\ ToReady(f).type = f.type
        /\ ToReady(f).params = f.params /\ ToReady(f).ts = f.ts
    BY DEF DevSet, ToReady
  <1>9. \A k \in Feeds \cup {Null} :
          /\ ToFeed(f, k).state = f.state /\ ToFeed(f, k).timer = f.timer
          /\ ToFeed(f, k).type = f.type /\ ToFeed(f, k).params = f.params
          /\ ToFeed(f, k).feed = k /\ ToFeed(f, k).sec = f.sec /\ ToFeed(f, k).ts = f.ts
    BY DEF DevSet, ToFeed
  <1> QED
    BY <1>2, <1>3, <1>4, <1>5, <1>6, <1>7, <1>8, <1>9

LEMMA FailFacts ==
  ASSUME NEW s \in StateSet
  PROVE  IsState(Fail(s), Err(s.dmx), s.flt)
  <1>1. s.dmx \in DemuxSet
    BY DEF StateSet
  <1>2. Err(s.dmx) \in DemuxSet
    BY <1>1, Results DEF Effect
  <1> QED
    BY <1>2 DEF Fail, IsState, StateSet

\* dvb_dmxdev_feed_stop, for a section filter.
LEMMA FeedStopSec ==
  ASSUME NEW s \in StateSet, NEW i \in Devs, s.flt[i].type = "SEC"
  PROVE  IsState(FeedStop(s, i), SectionFeedStop(s.dmx, s.flt[i].feed),
                 [s.flt EXCEPT ![i] = ToHalt(s.flt[i])])
  <1> DEFINE f == s.flt[i]
             d == SectionFeedStop(s.dmx, f.feed)
  <1>1. s.dmx \in DemuxSet /\ f \in DevSet /\ f.feed \in Feeds \cup {Null}
    BY DevTypes
  <1>2. d \in DemuxSet
    <2>1. CASE f.feed = Null
      BY <1>1, <2>1, Results DEF SectionFeedStop
    <2>2. CASE f.feed \in Feeds
      BY <1>1, <2>2, SectionStop DEF Effect
    <2> QED
      BY <1>1, <2>1, <2>2
  <1>3. ToHalt(f) \in DevSet
    BY <1>1, DevUpdates
  <1>4. FeedStop(s, i) = Make(s, d, i, ToHalt(f))
    BY DEF FeedStop, Make, ToHalt, StateSet
  <1> HIDE DEF d, f
  <1>5. IsState(Make(s, d, i, ToHalt(f)), d, [s.flt EXCEPT ![i] = ToHalt(f)])
    BY <1>2, <1>3, MakeFacts
  <1> QED
    BY <1>4, <1>5 DEF d, f

\* The same for a PES filter.
LEMMA FeedStopPes ==
  ASSUME NEW s \in StateSet, NEW i \in Devs, s.flt[i].type = "PES", Len(s.flt[i].ts) = 1
  PROVE  /\ IsState(FeedStop(s, i), TsFeedStop(s.dmx, s.flt[i].ts[1].ts),
                    [s.flt EXCEPT ![i] = ToReady(s.flt[i])])
         /\ s.flt[i].ts = <<s.flt[i].ts[1]>> /\ s.flt[i].ts[1] \in EntrySet
         /\ s.flt[i].ts[1].ts \in Feeds \cup {Null}
  <1> DEFINE f == s.flt[i]
             e == f.ts[1]
             d == TsFeedStop(s.dmx, e.ts)
  <1>1. s.dmx \in DemuxSet /\ f \in DevSet /\ f.ts \in Seq(EntrySet)
    BY DevTypes
  <1>2. f.ts = <<e>> /\ e \in EntrySet
    BY <1>1
  <1>3. e.ts \in Feeds \cup {Null}
    BY <1>2 DEF EntrySet
  <1>4. d \in DemuxSet
    BY <1>1, <1>3, TsStopType
  <1>5. ToReady(f) \in DevSet
    BY <1>1, DevUpdates
  <1>6. StopTsFeeds(s.dmx, f.ts) = d
    BY <1>2, StopOne
  <1>7. FeedStop(s, i) = Make(s, StopTsFeeds(s.dmx, f.ts), i, ToReady(f))
    BY DEF FeedStop, Make, ToReady, StateSet
  <1> HIDE DEF d, f
  <1>8. IsState(Make(s, d, i, ToReady(f)), d, [s.flt EXCEPT ![i] = ToReady(f)])
    BY <1>4, <1>5, MakeFacts
  <1> QED
    BY <1>2, <1>3, <1>6, <1>7, <1>8 DEF d, f

\* dvb_dmxdev_feed_start
LEMMA FeedStartFacts ==
  ASSUME NEW s \in StateSet, NEW i \in Devs
  PROVE  IsState(FeedStart(s, i, {}), SectionFeedStart(s.dmx, s.flt[i].feed, {}),
                 [s.flt EXCEPT ![i] = ToGo(s.flt[i])])
  <1> DEFINE f == s.flt[i]
             d == SectionFeedStart(s.dmx, f.feed, {})
  <1>1. s.dmx \in DemuxSet /\ f \in DevSet /\ f.feed \in Feeds \cup {Null}
    BY DevTypes
  <1>2. d \in DemuxSet
    <2>1. CASE f.feed = Null
      BY <1>1, <2>1, Results DEF SectionFeedStart
    <2>2. CASE f.feed \in Feeds
      BY <1>1, <2>2, SectionTypes
    <2> QED
      BY <1>1, <2>1, <2>2
  <1>3. ToGo(f) \in DevSet
    BY <1>1, DevUpdates
  <1>4. FeedStart(s, i, {}) = Make(s, d, i, ToGo(f))
    BY DEF FeedStart, Make, ToGo, StateSet
  <1> HIDE DEF d, f
  <1>5. IsState(Make(s, d, i, ToGo(f)), d, [s.flt EXCEPT ![i] = ToGo(f)])
    BY <1>2, <1>3, MakeFacts
  <1> QED
    BY <1>4, <1>5 DEF d, f

\* dvb_dmxdev_feed_restart
LEMMA FeedRestartFacts ==
  ASSUME NEW s \in StateSet, NEW i \in Devs, s.flt[i].feed \in Feeds
  PROVE  LET left == Running(s, s.flt[i].params.pid)
             n == Min(left)
             t == FeedRestart(s, i, {})
         IN  IF left = {} THEN IsState(t, ReleaseSectionFeed(s.dmx, s.flt[i].feed), s.flt)
             ELSE /\ n \in left /\ n \in Devs
                  /\ IsState(t, SectionFeedStart(s.dmx, s.flt[n].feed, {}), [s.flt EXCEPT ![n] = ToGo(s.flt[n])])
  <1> DEFINE left == Running(s, s.flt[i].params.pid)
             n == Min(left)
             t == FeedRestart(s, i, {})
  <1>1. CASE left = {}
    <2>1. t = [s EXCEPT !.dmx = ReleaseSectionFeed(@, s.flt[i].feed)]
      BY <1>1 DEF FeedRestart
    <2>2. ReleaseSectionFeed(s.dmx, s.flt[i].feed) \in DemuxSet
      BY DevTypes, SectionTypes
    <2>3. IsState([s EXCEPT !.dmx = ReleaseSectionFeed(@, s.flt[i].feed)], ReleaseSectionFeed(s.dmx, s.flt[i].feed), s.flt)
      BY <2>2, MakeFacts, DevTypes
    <2> QED
      BY <1>1, <2>1, <2>3
  <1>2. CASE left # {}
    <2>1. left \subseteq Devs /\ Devs \subseteq Nat
      BY Constants DEF Running
    <2>2. n \in left /\ n \in Devs
      BY <1>2, <2>1, MinFacts
    <2>3. t = FeedStart(s, n, {})
      BY <1>2 DEF FeedRestart
    <2> QED
      BY <1>2, <2>2, <2>3, FeedStartFacts
  <1> QED
    BY <1>1, <1>2

\* The other running section filters on the PID of filter i.
Sharers(s, i) == {n \in Devs \ {i} : Sec(s, n) /\ s.flt[n].params.pid = s.flt[i].params.pid}

\* The demux once the feed of section filter i is stopped and its filter released.
Unlinked(s, i) == LET d == SectionFeedStop(s.dmx, s.flt[i].feed)
                  IN  IF s.flt[i].sec = Null THEN d ELSE ReleaseFilter(d, s.flt[i].feed, s.flt[i].sec)

\* dvb_dmxdev_filter_stop, for a running section filter.
LEMMA FilterStopSec ==
  ASSUME NEW s \in StateSet, NEW i \in Devs, Sec(s, i), s.flt[i].feed \in Feeds
  PROVE  LET t == FilterStop(s, i, {})
         IN  /\ t \in StateSet /\ Unlinked(s, i) \in DemuxSet
             /\ t.flt[i] = ToFeed(ToHalt(s.flt[i]), Null)
             /\ \A n \in Devs \ {i} : t.flt[n] = s.flt[n] \/ (Sec(s, n) /\ t.flt[n] = ToGo(s.flt[n]))
             /\ IF Sharers(s, i) = {} THEN t.dmx = ReleaseSectionFeed(Unlinked(s, i), s.flt[i].feed)
                ELSE \E m \in Sharers(s, i) : t.dmx = SectionFeedStart(Unlinked(s, i), s.flt[m].feed, {})
  <1> DEFINE f == s.flt[i]
             k == f.feed
             d1 == SectionFeedStop(s.dmx, k)
             d2 == Unlinked(s, i)
             s1 == FeedStop(s, i)
             s2 == IF f.sec = Null THEN s1 ELSE [s1 EXCEPT !.dmx = ReleaseFilter(@, k, f.sec)]
             s3 == FeedRestart(s2, i, {})
             t == FilterStop(s, i, {})
             F == [s.flt EXCEPT ![i] = ToHalt(f)]
             pid == f.params.pid
  <1>1. s.dmx \in DemuxSet /\ f \in DevSet /\ f.sec \in Filters \cup {Null} /\ s.flt \in [Devs -> DevSet]
    BY DevTypes
  <1>2. k # Null /\ f.type = "SEC" /\ f.state >= GO /\ ~(f.state < GO)
    <2>1. k # Null
      BY Constants
    <2>2. f.state \in Int /\ GO \in Int
      BY DevTypes DEF GO
    <2> QED
      BY <2>1, <2>2 DEF Sec
  <1>3. IsState(s1, d1, F)
    BY <1>2, FeedStopSec
  <1>4. d1 \in DemuxSet
    BY <1>3 DEF IsState, StateSet
  <1>5. d2 \in DemuxSet
    BY <1>1, <1>4, FilterReleaseType DEF Unlinked
  <1>6. IsState(s2, d2, F)
    <2>1. CASE f.sec = Null
      BY <1>3, <2>1 DEF Unlinked
    <2>2. CASE f.sec # Null
      <3>1. d2 = ReleaseFilter(d1, k, f.sec)
        BY <2>2 DEF Unlinked
      <3>2. s2 = [s1 EXCEPT !.dmx = d2]
        BY <1>3, <2>2, <3>1 DEF IsState
      <3> HIDE DEF s1, d2
      <3>3. s1 \in StateSet /\ s1.flt = F
        BY <1>3 DEF IsState
      <3>4. IsState([s1 EXCEPT !.dmx = d2], d2, s1.flt)
        BY <1>1, <1>5, <3>3, MakeFacts
      <3> QED
        BY <3>2, <3>3, <3>4
    <2> QED
      BY <2>1, <2>2
  <1>7. t = [s3 EXCEPT !.flt[i].feed = Null]
    BY <1>2 DEF FilterStop
  <1> HIDE DEF s1, s2, d1, d2, t
  <1>8. s2 \in StateSet /\ s2.dmx = d2 /\ s2.flt = F
    BY <1>6 DEF IsState
  <1>9. ToHalt(f) \in DevSet /\ ToHalt(f).feed = k /\ ToHalt(f).params = f.params /\ ToHalt(f).state = SET
    BY <1>1, DevUpdates
  <1>10. s2.flt[i].feed = k /\ s2.flt[i].params = f.params
    BY <1>1, <1>8, <1>9
  <1>11. Running(s2, s2.flt[i].params.pid) = Sharers(s, i)
    <2>1. F[i] = ToHalt(f) /\ \A n \in Devs \ {i} : F[n] = s.flt[n]
      BY <1>1
    <2>2. ~(SET >= GO)
      BY DEF SET, GO
    <2> HIDE DEF F
    <2> QED
      BY <1>8, <1>9, <1>10, <2>1, <2>2 DEF Running, Sharers, Sec
  <1> DEFINE left == Sharers(s, i)
             m == Min(left)
  <1>12. IF left = {} THEN IsState(s3, ReleaseSectionFeed(d2, k), F)
         ELSE /\ m \in left
              /\ IsState(s3, SectionFeedStart(d2, s2.flt[m].feed, {}), [F EXCEPT ![m] = ToGo(s2.flt[m])])
    BY <1>8, <1>10, <1>11, FeedRestartFacts
  <1> HIDE DEF s3
  <1>13. s3 \in StateSet
    BY <1>12 DEF IsState
  <1>14. /\ s3.flt[i] = ToHalt(f)
         /\ \A n \in Devs \ {i} : s3.flt[n] = s.flt[n] \/ (Sec(s, n) /\ s3.flt[n] = ToGo(s.flt[n]))
    <2>1. F \in [Devs -> DevSet] /\ F[i] = ToHalt(f) /\ \A n \in Devs \ {i} : F[n] = s.flt[n]
      BY <1>1, <1>9
    <2>2. left \subseteq Devs \ {i} /\ \A n \in left : Sec(s, n)
      BY DEF Sharers
    <2>3. CASE left = {}
      BY <1>12, <2>1, <2>3 DEF IsState
    <2>4. CASE left # {}
      <3>1. m \in left /\ s3.flt = [F EXCEPT ![m] = ToGo(F[m])]
        BY <1>8, <1>12, <2>4 DEF IsState
      <3> HIDE DEF F, m, left
      <3> QED
        BY <2>1, <2>2, <3>1
    <2> QED
      BY <2>3, <2>4
  <1>15. /\ t \in StateSet /\ t.dmx = s3.dmx
         /\ t.flt[i] = ToFeed(ToHalt(f), Null) /\ \A n \in Devs \ {i} : t.flt[n] = s3.flt[n]
    <2>1. ToFeed(s3.flt[i], Null) \in DevSet
      BY <1>13, DevTypes, DevUpdates
    <2>2. t = [s3 EXCEPT !.flt[i] = ToFeed(s3.flt[i], Null)]
      BY <1>7, <1>13 DEF ToFeed, StateSet
    <2>3. IsState([s3 EXCEPT !.flt[i] = ToFeed(s3.flt[i], Null)], s3.dmx, [s3.flt EXCEPT ![i] = ToFeed(s3.flt[i], Null)])
      BY <1>1, <1>13, <2>1, MakeFacts
    <2>4. s3.flt \in [Devs -> DevSet]
      BY <1>13, DevTypes
    <2> QED
      BY <1>14, <2>2, <2>3, <2>4 DEF IsState
  <1>16. IF left = {} THEN t.dmx = ReleaseSectionFeed(d2, k)
         ELSE \E n \in left : t.dmx = SectionFeedStart(d2, s.flt[n].feed, {})
    <2>1. CASE left = {}
      BY <1>12, <1>15, <2>1 DEF IsState
    <2>2. CASE left # {}
      <3>1. m \in left /\ m \in Devs \ {i} /\ s3.dmx = SectionFeedStart(d2, s2.flt[m].feed, {})
        BY <1>12, <2>2 DEF IsState, Sharers
      <3>2. s2.flt[m] = s.flt[m]
        BY <1>1, <1>8, <3>1
      <3> QED
        BY <1>15, <2>2, <3>1, <3>2
    <2> QED
      BY <2>1, <2>2
  <1> QED
    BY <1>5, <1>14, <1>15, <1>16 DEF t, d2

ToTs(f, l) == [f EXCEPT !.ts = l]

LEMMA ToTsFacts ==
  ASSUME NEW f \in DevSet, NEW l \in Seq(EntrySet)
  PROVE  /\ ToTs(f, l) \in DevSet /\ ToTs(f, l).state = f.state /\ ToTs(f, l).timer = f.timer
         /\ ToTs(f, l).type = f.type /\ ToTs(f, l).params = f.params /\ ToTs(f, l).ts = l
  BY DEF ToTs, DevSet

\* The same for a running PES filter.
LEMMA FilterStopPes ==
  ASSUME NEW s \in StateSet, NEW i \in Devs, Pes(s, i), Len(s.flt[i].ts) = 1
  PROVE  LET e == s.flt[i].ts[1]
             t == FilterStop(s, i, {})
         IN  /\ e.ts \in Feeds \cup {Null} /\ [e EXCEPT !.ts = Null] \in EntrySet
             /\ IsState(t, ReleaseTsFeed(TsFeedStop(s.dmx, e.ts), e.ts),
                        [s.flt EXCEPT ![i] = ToTs(ToReady(s.flt[i]), <<[e EXCEPT !.ts = Null]>>)])
  <1> DEFINE f == s.flt[i]
             e == f.ts[1]
             l == <<[e EXCEPT !.ts = Null]>>
             d1 == TsFeedStop(s.dmx, e.ts)
             d2 == ReleaseTsFeed(d1, e.ts)
             s1 == FeedStop(s, i)
             t == FilterStop(s, i, {})
             F == [s.flt EXCEPT ![i] = ToReady(f)]
  <1>1. f.type = "PES" /\ f.state >= GO /\ ~(f.state < GO)
    <2>1. f.state \in Int /\ GO \in Int
      BY DevTypes DEF GO
    <2> QED
      BY <2>1 DEF Pes
  <1>2. /\ IsState(s1, d1, F) /\ f.ts = <<e>> /\ e \in EntrySet /\ e.ts \in Feeds \cup {Null}
    BY <1>1, FeedStopPes
  <1>3. [e EXCEPT !.ts = Null] \in EntrySet
    BY <1>2 DEF EntrySet
  <1>4. l \in Seq(EntrySet)
    BY <1>3
  <1>5. s1 \in StateSet /\ s1.dmx = d1 /\ s1.flt = F
    BY <1>2 DEF IsState
  <1>6. d1 \in DemuxSet
    BY <1>5 DEF StateSet
  <1>7. d2 \in DemuxSet
    BY <1>2, <1>6, TsReleaseType
  <1>8. ReleaseTsFeeds(d1, f.ts) = d2 /\ ClearTsFeeds(f.ts) = l
    BY <1>2, ReleaseOne, ClearOne
  <1>9. t = [s1 EXCEPT !.dmx = ReleaseTsFeeds(@, f.ts), !.flt[i].ts = ClearTsFeeds(f.ts)]
    BY <1>1 DEF FilterStop
  <1> HIDE DEF l, d1, d2, s1, t
  <1>10. t = Make(s1, d2, i, ToTs(s1.flt[i], l))
    BY <1>5, <1>8, <1>9 DEF Make, ToTs, StateSet
  <1>11. s1.flt[i] \in DevSet /\ s1.flt[i] = ToReady(f) /\ s.flt \in [Devs -> DevSet]
    <2>1. s.flt \in [Devs -> DevSet]
      BY DevTypes
    <2>2. s1.flt[i] \in DevSet
      BY <1>5, DevTypes
    <2> QED
      BY <1>5, <2>1, <2>2
  <1>12. ToTs(s1.flt[i], l) \in DevSet
    BY <1>4, <1>11, ToTsFacts
  <1>13. IsState(Make(s1, d2, i, ToTs(s1.flt[i], l)), d2, [s1.flt EXCEPT ![i] = ToTs(s1.flt[i], l)])
    BY <1>5, <1>7, <1>12, MakeFacts
  <1>14. [s1.flt EXCEPT ![i] = ToTs(s1.flt[i], l)] = [s.flt EXCEPT ![i] = ToTs(ToReady(f), l)]
    BY <1>5, <1>11
  <1> QED
    BY <1>2, <1>3, <1>10, <1>13, <1>14 DEF t, d1, d2, l

\* Without a feed, or without a type, nothing is stopped.
LEMMA FilterStopOther ==
  ASSUME NEW s \in StateSet, NEW i \in Devs, ~(Sec(s, i) /\ s.flt[i].feed \in Feeds), ~Pes(s, i)
  PROVE  /\ FilterStop(s, i, {}) = s \/ FilterStop(s, i, {}) = Fail(s)
         /\ s.flt[i].state < GO => FilterStop(s, i, {}) = s
  <1> DEFINE f == s.flt[i]
  <1>1. /\ f.state \in Int /\ GO \in Int /\ f.type \in {"NONE", "SEC", "PES"}
        /\ f.feed \in Feeds \cup {Null} /\ Null \notin Feeds
    BY DevTypes, Constants DEF GO
  <1>2. CASE f.state < GO
    <2>1. ~(f.state >= GO)
      BY <1>1, <1>2
    <2>2. FilterStop(s, i, {}) = s
      BY <1>2, <2>1 DEF FilterStop
    <2> QED
      BY <2>2
  <1>3. CASE ~(f.state < GO) /\ f.type = "SEC"
    <2>1. f.feed = Null
      BY <1>1, <1>3 DEF Sec
    <2>2. FilterStop(s, i, {}) = s
      BY <1>1, <1>3, <2>1 DEF FilterStop
    <2> QED
      BY <1>3, <2>2
  <1>4. CASE ~(f.state < GO) /\ f.type = "NONE"
    <2>1. FilterStop(s, i, {}) = Fail(s)
      BY <1>1, <1>4 DEF FilterStop
    <2> QED
      BY <1>4, <2>1
  <1>5. ~(~(f.state < GO) /\ f.type = "PES")
    BY <1>1 DEF Pes
  <1> QED
    BY <1>1, <1>2, <1>3, <1>4, <1>5

\* filter_stop keeps the types, and leaves every filter in its slot.
LEMMA FilterStopTyped ==
  ASSUME NEW s, Typed(s), NEW i \in Devs
  PROVE  LET t == FilterStop(s, i, {})
         IN  /\ Typed(t)
             /\ \A n \in Devs : /\ t.flt[n].type = s.flt[n].type /\ t.flt[n].params = s.flt[n].params
                                /\ t.flt[n].state = FREE <=> s.flt[n].state = FREE
  <1> DEFINE t == FilterStop(s, i, {})
  <1>1. s \in StateSet /\ \A n \in Devs : s.flt[n].type = "PES" => Len(s.flt[n].ts) = 1
    BY DEF Typed, StateSet
  <1>2. SUFFICES /\ t \in StateSet
                 /\ \A n \in Devs : /\ t.flt[n].type = s.flt[n].type /\ t.flt[n].params = s.flt[n].params
                                    /\ t.flt[n].state = FREE <=> s.flt[n].state = FREE
                                    /\ t.flt[n].type = "PES" => Len(t.flt[n].ts) = 1
    BY DEF Typed, StateSet
  <1>3. FREE # SET /\ FREE # GO /\ ~(FREE >= GO)
    BY DEF FREE, SET, GO
  <1>4. CASE Sec(s, i) /\ s.flt[i].feed \in Feeds
    <2>1. /\ t \in StateSet
          /\ t.flt[i] = ToFeed(ToHalt(s.flt[i]), Null)
          /\ \A n \in Devs \ {i} : t.flt[n] = s.flt[n] \/ (Sec(s, n) /\ t.flt[n] = ToGo(s.flt[n]))
      BY <1>1, <1>4, FilterStopSec
    <2> HIDE DEF t
    <2>2. /\ t.flt[i].type = s.flt[i].type /\ t.flt[i].params = s.flt[i].params /\ t.flt[i].state = SET
          /\ t.flt[i].ts = s.flt[i].ts
      <3>1. s.flt[i] \in DevSet
        BY <1>1, DevTypes
      <3> DEFINE h == ToHalt(s.flt[i])
      <3>2. /\ h \in DevSet /\ h.type = s.flt[i].type /\ h.params = s.flt[i].params
            /\ h.state = SET /\ h.ts = s.flt[i].ts
        BY <3>1, DevUpdates
      <3> HIDE DEF h
      <3>3. /\ ToFeed(h, Null).type = h.type /\ ToFeed(h, Null).params = h.params
            /\ ToFeed(h, Null).state = h.state /\ ToFeed(h, Null).ts = h.ts
        BY <3>2 DEF ToFeed, DevSet
      <3>4. t.flt[i] = ToFeed(h, Null)
        BY <2>1 DEF h
      <3> QED
        BY <3>2, <3>3, <3>4
    <2>3. ASSUME NEW n \in Devs \ {i}
          PROVE  /\ t.flt[n].type = s.flt[n].type /\ t.flt[n].params = s.flt[n].params
                 /\ t.flt[n].state = FREE <=> s.flt[n].state = FREE
                 /\ t.flt[n].ts = s.flt[n].ts
      <3>1. s.flt[n] \in DevSet
        BY <1>1, DevTypes
      <3>2. CASE t.flt[n] = s.flt[n]
        BY <3>2
      <3>3. CASE Sec(s, n) /\ t.flt[n] = ToGo(s.flt[n])
        BY <1>3, <3>1, <3>3, DevUpdates DEF Sec
      <3> QED
        BY <2>1, <3>2, <3>3
    <2>4. s.flt[i].state # FREE
      BY <1>3, <1>4 DEF Sec
    <2> QED
      BY <1>1, <1>3, <2>1, <2>2, <2>3, <2>4
  <1>5. CASE Pes(s, i)
    <2> DEFINE f == s.flt[i]
               l == <<[f.ts[1] EXCEPT !.ts = Null]>>
    <2>1. Len(f.ts) = 1
      BY <1>1, <1>5 DEF Pes
    <2>2. /\ [f.ts[1] EXCEPT !.ts = Null] \in EntrySet
          /\ t \in StateSet /\ t.flt = [s.flt EXCEPT ![i] = ToTs(ToReady(f), l)]
      BY <1>1, <1>5, <2>1, FilterStopPes DEF IsState
    <2>3. f \in DevSet /\ s.flt \in [Devs -> DevSet]
      BY <1>1, DevTypes
    <2>4. l \in Seq(EntrySet) /\ Len(l) = 1
      BY <2>2
    <2>5. ToReady(f) \in DevSet /\ ToReady(f).type = f.type /\ ToReady(f).params = f.params /\ ToReady(f).state = SET
      BY <2>3, DevUpdates
    <2> HIDE DEF t, l
    <2>6. /\ t.flt[i].type = f.type /\ t.flt[i].params = f.params /\ t.flt[i].state = SET /\ t.flt[i].ts = l
      BY <2>2, <2>3, <2>4, <2>5, ToTsFacts
    <2>7. \A n \in Devs \ {i} : t.flt[n] = s.flt[n]
      BY <2>2, <2>3
    <2>8. f.state # FREE
      BY <1>3, <1>5 DEF Pes
    <2> QED
      BY <1>1, <1>3, <2>2, <2>4, <2>6, <2>7, <2>8
  <1>6. CASE ~(Sec(s, i) /\ s.flt[i].feed \in Feeds) /\ ~Pes(s, i)
    <2>1. t = s \/ t = Fail(s)
      BY <1>1, <1>6, FilterStopOther
    <2>2. t \in StateSet /\ t.flt = s.flt
      BY <1>1, <2>1, FailFacts DEF IsState
    <2> HIDE DEF t
    <2> QED
      BY <1>1, <2>2
  <1> QED
    BY <1>4, <1>5, <1>6

\* A filter that goes on, or is marked as going again.
LEMMA LikeGo ==
  ASSUME NEW f \in DevSet
  PROVE  /\ Like(f, f)
         /\ f.state >= GO => Like(f, ToGo(f))
  BY DevUpdates DEF Like, GO

\* What Stopped and Started leave in a feed.
LEMMA FeedFields ==
  ASSUME NEW f \in FeedSet
  PROVE  /\ ~Stopped(f).is_filtering /\ Stopped(f).state = DMX_READY /\ Stopped(f).filter = f.filter
         /\ Freed(f).state = DMX_FREE
         /\ Started(f).state = DMX_GO /\ Started(f).is_filtering /\ Started(f).filter = f.filter
         /\ Started(f).type = f.type /\ Started(f).pid = f.pid /\ Started(f).decoder = f.decoder
         /\ Started(f).pes = f.pes
         /\ f.state = DMX_GO /\ f.is_filtering =>
              /\ Started(Stopped(f)) = f
              /\ \A c \in Seq(Filters) : Started(WithChain(Stopped(f), c)) = WithChain(f, c)
  <1>1. ~Stopped(f).is_filtering /\ Stopped(f).state = DMX_READY /\ Stopped(f).filter = f.filter
    BY DEF Stopped, FeedSet
  <1>2. Freed(f).state = DMX_FREE
    BY DEF Freed, FeedSet
  <1>3. /\ Started(f).state = DMX_GO /\ Started(f).is_filtering /\ Started(f).filter = f.filter
        /\ Started(f).type = f.type /\ Started(f).pid = f.pid /\ Started(f).decoder = f.decoder
        /\ Started(f).pes = f.pes
    BY DEF Started, FeedSet
  <1>4. ASSUME f.state = DMX_GO, f.is_filtering PROVE Started(Stopped(f)) = f
    <2>1. f.is_filtering = TRUE
      BY <1>4 DEF FeedSet
    <2> QED
      BY <1>4, <2>1 DEF Started, Stopped, FeedSet
  <1>5. ASSUME f.state = DMX_GO, f.is_filtering, NEW c \in Seq(Filters)
        PROVE  Started(WithChain(Stopped(f), c)) = WithChain(f, c)
    <2>1. f.is_filtering = TRUE
      BY <1>5 DEF FeedSet
    <2> QED
      BY <1>5, <2>1 DEF Started, Stopped, WithChain, FeedSet
  <1> QED
    BY <1>1, <1>2, <1>3, <1>4, <1>5

\* Stopping a section filter: the feed goes with the last one on its PID.
LEMMA SecStopLinked ==
  ASSUME NEW s \in StateSet, Linked(s), NEW i \in Devs, Sec(s, i)
  PROVE  Linked(FilterStop(s, i, {})) /\ Idle(FilterStop(s, i, {}).flt[i])
  <1> DEFINE k == s.flt[i].feed
             j == s.flt[i].sec
             c == s.dmx.feed[k].filter
             t == FilterStop(s, i, {})
             d1 == SectionFeedStop(s.dmx, k)
             d2 == Unlinked(s, i)
  <1>1. SecLink(s.dmx, i, s.flt[i].params.pid, k, j)
    BY LinkedFacts
  <1>2. /\ k \in Feeds /\ j \in Filters /\ InChain(s.dmx, k, j) /\ s.dmx.feed[k].state = DMX_GO
        /\ s.dmx.feed[k].is_filtering /\ s.dmx.feed[k].type = "SEC"
        /\ s.dmx.filter[j].feed = k /\ s.dmx.filter[j].priv = i
    BY <1>1 DEF SecLink
  <1>3. /\ s.dmx \in DemuxSet /\ s.flt \in [Devs -> DevSet] /\ s.dmx.feed[k] \in FeedSet
        /\ s.dmx.feed \in [Feeds -> FeedSet] /\ s.dmx.filter \in [Filters -> SlotSet] /\ c \in Seq(Filters)
    <2>1. s.dmx \in DemuxSet /\ s.flt \in [Devs -> DevSet]
      BY DevTypes
    <2>2. s.dmx.feed[k] \in FeedSet /\ s.dmx.feed \in [Feeds -> FeedSet] /\ s.dmx.filter \in [Filters -> SlotSet]
      BY <1>2, <2>1, FieldTypes
    <2> QED
      BY <2>1, <2>2, FeedTypes
  <1>4. /\ t \in StateSet /\ d2 \in DemuxSet
        /\ t.flt[i] = ToFeed(ToHalt(s.flt[i]), Null)
        /\ \A n \in Devs \ {i} : t.flt[n] = s.flt[n] \/ (Sec(s, n) /\ t.flt[n] = ToGo(s.flt[n]))
        /\ IF Sharers(s, i) = {} THEN t.dmx = ReleaseSectionFeed(d2, k)
           ELSE \E m \in Sharers(s, i) : t.dmx = SectionFeedStart(d2, s.flt[m].feed, {})
    BY <1>2, FilterStopSec
  <1>5. Effect(s.dmx, d1, [s.dmx.feed EXCEPT ![k] = Stopped(s.dmx.feed[k])],
               s.dmx.filter, s.dmx.feed_list, s.dmx.pesfilter)
    BY <1>2, <1>3, SectionStop
  <1>6. d2 = ReleaseFilter(d1, k, j)
    <2>1. j # Null
      BY <1>2, Constants
    <2> QED
      BY <2>1 DEF Unlinked
  <1> HIDE DEF k, j, c, d1, d2, t
  <1>7. /\ d1 \in DemuxSet /\ d1.feed[k] = Stopped(s.dmx.feed[k]) /\ d1.filter = s.dmx.filter
        /\ \A m \in Feeds \ {k} : d1.feed[m] = s.dmx.feed[m]
        /\ d1.feed_list = s.dmx.feed_list /\ d1.pesfilter = s.dmx.pesfilter /\ d1.oops = s.dmx.oops
    BY <1>2, <1>3, <1>5 DEF Effect
  <1>8. ~d1.feed[k].is_filtering /\ d1.feed[k].filter = c /\ d1.feed[k].state = DMX_READY
    BY <1>3, <1>7, FeedFields DEF c
  <1>9. d1.filter[j].feed = k /\ InChain(d1, k, j)
    BY <1>2, <1>7, <1>8 DEF InChain, c
  <1>10. PICK n \in 1 .. Len(c) :
           /\ c[n] = j
           /\ Effect(d1, d2, [d1.feed EXCEPT ![k] = WithChain(d1.feed[k], RemoveAt(c, n))],
                     [d1.filter EXCEPT ![j] = Emptied(d1.filter[j])], d1.feed_list, d1.pesfilter)
    BY <1>2, <1>6, <1>7, <1>8, <1>9, FilterRelease
  <1> DEFINE r == RemoveAt(c, n)
  <1>11. r \in Seq(Filters)
    BY <1>3, RemoveFacts
  <1> HIDE DEF r
  <1>12. /\ d2 \in DemuxSet /\ d2.feed[k] = WithChain(Stopped(s.dmx.feed[k]), r)
         /\ \A m \in Feeds \ {k} : d2.feed[m] = s.dmx.feed[m]
         /\ d2.filter[j] = Emptied(s.dmx.filter[j])
         /\ \A m \in Filters \ {j} : d2.filter[m] = s.dmx.filter[m]
         /\ d2.feed_list = s.dmx.feed_list /\ d2.pesfilter = s.dmx.pesfilter /\ d2.oops = s.dmx.oops
    <2>1. d1.feed \in [Feeds -> FeedSet]
      BY <1>7, FieldTypes
    <2> QED
      BY <1>2, <1>3, <1>7, <1>10, <2>1 DEF Effect, r
  <1>13. d2.filter[j].state = DMX_FREE
    <2>1. s.dmx.filter[j] \in SlotSet
      BY <1>2, <1>3
    <2> QED
      BY <1>12, <2>1 DEF Emptied, SlotSet
  <1>14. Stopped(s.dmx.feed[k]) \in FeedSet
    BY <1>3, FeedTypes
  <1>15. d2.feed[k].filter = r /\ d2.feed[k].state = DMX_READY /\ ~d2.feed[k].is_filtering
    BY <1>7, <1>8, <1>11, <1>12, <1>14, ChainFields
  <1>16. OthersKept(s, t, i)
    <2> SUFFICES ASSUME NEW m \in Devs \ {i} PROVE Like(s.flt[m], t.flt[m])
      BY DEF OthersKept
    <2>1. s.flt[m] \in DevSet
      BY <1>3
    <2> QED
      BY <1>4, <2>1, LikeGo DEF Sec
  <1>17. Idle(t.flt[i])
    <2> DEFINE h == ToHalt(s.flt[i])
    <2>1. s.flt[i] \in DevSet /\ s.flt[i].type = "SEC"
      BY <1>3 DEF Sec
    <2>2. h \in DevSet /\ h.state = SET /\ h.timer = "off" /\ h.type = "SEC"
      BY <2>1, DevUpdates
    <2> HIDE DEF h
    <2>3. ToFeed(h, Null).state = SET /\ ToFeed(h, Null).timer = "off" /\ ToFeed(h, Null).type = "SEC"
      BY <2>2 DEF ToFeed, DevSet
    <2>4. t.flt[i] = ToFeed(h, Null)
      BY <1>4 DEF h
    <2> QED
      BY <2>3, <2>4 DEF Idle, SET, GO
  <1>18. \A m \in Devs \ {i} : Sec(s, m) /\ s.flt[m].feed = k => m \in Sharers(s, i)
    BY LinkedFacts DEF Sharers, k
  <1>19. DMX_READY # DMX_FREE
    BY StateNumbers
  <1>20. CASE Sharers(s, i) = {}
    <2>1. t.dmx = ReleaseSectionFeed(d2, k)
      BY <1>4, <1>20
    <2>2. Effect(d2, t.dmx, [d2.feed EXCEPT ![k] = Freed(d2.feed[k])],
                 d2.filter, d2.feed_list \ {k}, d2.pesfilter)
      BY <1>2, <1>12, <1>15, <1>19, <2>1, SectionRelease
    <2>3. d2.feed \in [Feeds -> FeedSet]
      BY <1>12, FieldTypes
    <2>4. /\ t.dmx.feed[k].state = DMX_FREE /\ t.dmx.filter = d2.filter
          /\ \A m \in Feeds \ {k} : t.dmx.feed[m] = s.dmx.feed[m]
          /\ t.dmx.feed_list = s.dmx.feed_list \ {k} /\ t.dmx.pesfilter = s.dmx.pesfilter
          /\ t.dmx.oops = s.dmx.oops
      BY <1>2, <1>12, <2>2, <2>3, FeedFields DEF Effect
    <2>5. Kept(s.dmx, t.dmx, k, j)
      BY <1>12, <2>4 DEF Kept
    <2>6. DecodersKept(s.dmx, t.dmx) /\ \A p \in PesTypes : t.dmx.pesfilter[p] # k
      <3>1. \A p \in PesTypes : s.dmx.pesfilter[p] = k => s.dmx.feed[k].type = "TS"
        <4>1. k # Null
          BY <1>2, Constants
        <4> QED
          BY <4>1 DEF Linked, ListInv
      <3> QED
        BY <1>2, <2>4, <3>1 DEF DecodersKept
    <2>7. \A m \in Devs \ {i} : /\ ~(Sec(s, m) /\ s.flt[m].feed = k)
                                /\ ~(Pes(s, m) /\ s.flt[m].ts[1].ts = k)
      BY <1>18, <1>20, LinkedFacts DEF k
    <2>8. Gone(s, t, i, k, j)
      BY <1>2, <1>12, <1>13, <1>16, <1>17, <2>4, <2>5, <2>6, <2>7 DEF Gone, k, j
    <2> QED
      BY <1>4, <1>17, <2>8, GoneLinked DEF t
  <1>21. CASE Sharers(s, i) # {}
    <2>1. PICK m \in Sharers(s, i) : t.dmx = SectionFeedStart(d2, s.flt[m].feed, {})
      BY <1>4, <1>21
    <2>2. m \in Devs \ {i} /\ Sec(s, m) /\ s.flt[m].feed = k
      BY DEF Sharers, Linked, ShareInv, k
    <2>3. r # <<>>
      <3>1. SecLink(s.dmx, m, s.flt[m].params.pid, k, s.flt[m].sec)
        BY <2>2, LinkedFacts
      <3>2. InChain(s.dmx, k, s.flt[m].sec) /\ s.flt[m].sec # j
        BY <1>2, <2>2, <3>1 DEF SecLink
      <3>3. \A a, b \in DOMAIN c : c[a] = c[b] => a = b
        <4>1. DMX_GO # DMX_FREE
          BY StateNumbers
        <4> QED
          BY <1>2, <4>1 DEF Linked, ChainInv, c
      <3>4. \A l : (\E a \in DOMAIN r : r[a] = l) <=> (l # c[n] /\ \E a \in DOMAIN c : c[a] = l)
        BY <1>3, <3>3, ChainRemove, Zenon DEF r
      <3>5. \E a \in DOMAIN c : c[a] = s.flt[m].sec
        BY <3>2 DEF InChain, c
      <3>6. \E a \in DOMAIN r : r[a] = s.flt[m].sec
        BY <1>10, <3>2, <3>4, <3>5
      <3> QED
        BY <3>6
    <2>4. Effect(d2, t.dmx, [d2.feed EXCEPT ![k] = Started(d2.feed[k])],
                 d2.filter, d2.feed_list, d2.pesfilter)
      BY <1>2, <1>12, <1>15, <2>1, <2>2, <2>3, SectionStart
    <2>5. d2.feed \in [Feeds -> FeedSet]
      BY <1>12, FieldTypes
    <2>6. Started(d2.feed[k]) = WithChain(s.dmx.feed[k], r)
      BY <1>2, <1>3, <1>11, <1>12, FeedFields
    <2>7. /\ t.dmx.feed[k] = WithChain(s.dmx.feed[k], r) /\ t.dmx.filter = d2.filter
          /\ \A l \in Feeds \ {k} : t.dmx.feed[l] = s.dmx.feed[l]
          /\ t.dmx.feed_list = s.dmx.feed_list /\ t.dmx.pesfilter = s.dmx.pesfilter
          /\ t.dmx.oops = s.dmx.oops
      BY <1>2, <1>12, <2>4, <2>5, <2>6 DEF Effect
    <2>8. Kept(s.dmx, t.dmx, k, j)
      BY <1>12, <2>7 DEF Kept
    <2>9. \E l \in 1 .. Len(s.dmx.feed[k].filter) :
            /\ s.dmx.feed[k].filter[l] = j
            /\ t.dmx.feed[k] = WithChain(s.dmx.feed[k], RemoveAt(s.dmx.feed[k].filter, l))
      BY <1>10, <2>7 DEF c, r
    <2>10. Shrunk(s, t, i, k, j)
      BY <1>2, <1>13, <1>16, <1>17, <2>2, <2>7, <2>8, <2>9 DEF Shrunk, k, j
    <2> QED
      BY <1>4, <1>17, <2>10, ShrunkLinked DEF t
  <1> QED
    BY <1>20, <1>21

\* Stopping a PES filter gives its feed, the filter of the feed and the decoder back.
LEMMA PesStopLinked ==
  ASSUME NEW s \in StateSet, Linked(s), NEW i \in Devs, Pes(s, i), Len(s.flt[i].ts) = 1
  PROVE  Linked(FilterStop(s, i, {})) /\ Idle(FilterStop(s, i, {}).flt[i])
  <1> DEFINE f == s.flt[i]
             k == f.ts[1].ts
             l == <<[f.ts[1] EXCEPT !.ts = Null]>>
             t == FilterStop(s, i, {})
             d1 == TsFeedStop(s.dmx, k)
             b == s.dmx.feed[k]
  <1>1. PesLink(s.dmx, i, f.ts[1].pid, k)
    BY LinkedFacts
  <1>2. /\ k \in Feeds /\ b.state = DMX_GO /\ b.type = "TS"
        /\ \E j \in Filters : /\ b.filter = <<j>>
                              /\ s.dmx.filter[j] = [state |-> DMX_READY, feed |-> k, priv |-> i]
    BY <1>1 DEF PesLink
  <1>3. PICK j \in Filters : /\ b.filter = <<j>>
                            /\ s.dmx.filter[j] = [state |-> DMX_READY, feed |-> k, priv |-> i]
    BY <1>2, Zenon
  <1>4. /\ s.dmx \in DemuxSet /\ s.flt \in [Devs -> DevSet] /\ f \in DevSet
    BY DevTypes
  <1>5. /\ b \in FeedSet /\ s.dmx.feed \in [Feeds -> FeedSet] /\ s.dmx.filter \in [Filters -> SlotSet]
    BY <1>2, <1>4, FieldTypes
  <1>6. /\ t \in StateSet /\ t.dmx = ReleaseTsFeed(d1, k) /\ t.flt = [s.flt EXCEPT ![i] = ToTs(ToReady(f), l)]
        /\ [f.ts[1] EXCEPT !.ts = Null] \in EntrySet
    BY FilterStopPes DEF IsState
  <1>7. Effect(s.dmx, d1, [s.dmx.feed EXCEPT ![k] = Halted(b)],
               s.dmx.filter, s.dmx.feed_list, s.dmx.pesfilter)
    BY <1>2, <1>4, TsStop
  <1>8. l \in Seq(EntrySet)
    BY <1>6
  <1> HIDE DEF f, k, l, t, d1, b
  <1>9. /\ Halted(b).state = DMX_ALLOCATED /\ Halted(b).filter = <<j>>
        /\ Halted(b).decoder = b.decoder /\ Halted(b).pes = b.pes
    BY <1>3, <1>5 DEF Halted, FeedSet
  <1>10. /\ d1 \in DemuxSet /\ d1.feed[k] = Halted(b) /\ d1.filter = s.dmx.filter
         /\ \A m \in Feeds \ {k} : d1.feed[m] = s.dmx.feed[m]
         /\ d1.feed_list = s.dmx.feed_list /\ d1.pesfilter = s.dmx.pesfilter /\ d1.oops = s.dmx.oops
    BY <1>2, <1>5, <1>7 DEF Effect
  <1>11. d1.feed[k].state # DMX_FREE /\ d1.feed[k].filter # <<>> /\ Head(d1.feed[k].filter) = j
    <2>1. <<j>> # <<>> /\ Head(<<j>>) = j
      OBVIOUS
    <2> QED
      BY <1>9, <1>10, <2>1, StateNumbers
  <1>12. PICK P : /\ Effect(d1, t.dmx, [d1.feed EXCEPT ![k] = Freed(d1.feed[k])],
                            [d1.filter EXCEPT ![j] = Emptied(d1.filter[j])], d1.feed_list \ {k}, P)
                  /\ \A p \in PesTypes : P[p] = d1.pesfilter[p] \/ P[p] = Null
                  /\ d1.feed[k].decoder /\ d1.feed[k].pes \in PesTypes => P[d1.feed[k].pes] = Null
    <2>1. LET r == ReleaseTsFeed(d1, k)
          IN  \E P : /\ Effect(d1, r, [d1.feed EXCEPT ![k] = Freed(@)], [d1.filter EXCEPT ![j] = Emptied(@)],
                               d1.feed_list \ {k}, P)
                     /\ \A p \in PesTypes : P[p] = d1.pesfilter[p] \/ P[p] = Null
                     /\ d1.feed[k].decoder /\ d1.feed[k].pes \in PesTypes => P[d1.feed[k].pes] = Null
      BY <1>2, <1>10, <1>11, TsRelease
    <2> QED
      BY <1>6, <2>1
  <1>13. d1.feed \in [Feeds -> FeedSet] /\ d1.feed[k] \in FeedSet
    BY <1>2, <1>10, FieldTypes
  <1>14. /\ t.dmx.feed[k].state = DMX_FREE
         /\ \A m \in Feeds \ {k} : t.dmx.feed[m] = s.dmx.feed[m]
         /\ t.dmx.filter[j] = Emptied(s.dmx.filter[j])
         /\ \A m \in Filters \ {j} : t.dmx.filter[m] = s.dmx.filter[m]
         /\ t.dmx.feed_list = s.dmx.feed_list \ {k} /\ t.dmx.pesfilter = P /\ t.dmx.oops = s.dmx.oops
    BY <1>2, <1>5, <1>10, <1>12, <1>13, FeedFields DEF Effect
  <1>15. t.dmx.filter[j].state = DMX_FREE
    <2>1. s.dmx.filter[j] \in SlotSet
      BY <1>5
    <2> QED
      BY <1>14, <2>1 DEF Emptied, SlotSet
  <1>16. Kept(s.dmx, t.dmx, k, j)
    BY <1>14 DEF Kept
  <1>17. DecodersKept(s.dmx, t.dmx)
    BY <1>10, <1>12, <1>14 DEF DecodersKept
  <1>18. ASSUME NEW p \in PesTypes PROVE t.dmx.pesfilter[p] # k
    <2>1. k # Null
      BY <1>2, Constants
    <2>2. s.dmx.pesfilter[p] = k => b.decoder /\ b.pes = p
      BY <2>1 DEF Linked, ListInv, b
    <2> QED
      BY <1>9, <1>10, <1>12, <1>14, <2>1, <2>2
  <1>19. OthersKept(s, t, i)
    <2> SUFFICES ASSUME NEW m \in Devs \ {i} PROVE Like(s.flt[m], t.flt[m])
      BY DEF OthersKept
    <2>1. s.flt[m] \in DevSet /\ t.flt[m] = s.flt[m]
      BY <1>4, <1>6
    <2> QED
      BY <2>1, LikeGo
  <1>20. Idle(t.flt[i])
    <2>1. f.type = "PES" /\ f.timer # "armed"
      BY DEF Pes, Sec, Linked, StatesInv, f
    <2>2. ToReady(f) \in DevSet /\ ToReady(f).state = SET /\ ToReady(f).timer = f.timer /\ ToReady(f).type = "PES"
      BY <1>4, <2>1, DevUpdates
    <2>3. t.flt[i] = ToTs(ToReady(f), l)
      BY <1>4, <1>6
    <2>4. t.flt[i].state = SET /\ t.flt[i].timer # "armed" /\ t.flt[i].type = "PES"
      BY <1>8, <2>1, <2>2, <2>3, ToTsFacts
    <2> QED
      BY <2>4 DEF Idle, SET, GO
  <1>21. \A m \in Devs \ {i} : /\ ~(Sec(s, m) /\ s.flt[m].feed = k)
                               /\ ~(Pes(s, m) /\ s.flt[m].ts[1].ts = k)
    BY LinkedFacts DEF k, f
  <1>22. Pes(s, i) /\ s.flt[i].ts[1].ts = k /\ s.dmx.feed[k].filter = <<j>>
    BY <1>3 DEF k, f, b
  <1>23. Gone(s, t, i, k, j)
    BY <1>2, <1>14, <1>15, <1>16, <1>17, <1>18, <1>19, <1>20, <1>21, <1>22 DEF Gone
  <1> QED
    BY <1>6, <1>20, <1>23, GoneLinked DEF t

\* filter_stop keeps the links, and leaves the filter without any.
LEMMA FilterStopLinked ==
  ASSUME NEW s, Typed(s), Linked(s), NEW i \in Devs
  PROVE  LET t == FilterStop(s, i, {})
         IN  Typed(t) /\ Linked(t) /\ Idle(t.flt[i])
  <1> DEFINE t == FilterStop(s, i, {})
  <1>1. s \in StateSet /\ \A n \in Devs : s.flt[n].type = "PES" => Len(s.flt[n].ts) = 1
    BY DEF Typed, StateSet
  <1>2. Typed(t)
    BY FilterStopTyped
  <1>3. CASE Sec(s, i)
    BY <1>1, <1>2, <1>3, SecStopLinked
  <1>4. CASE Pes(s, i)
    <2>1. Len(s.flt[i].ts) = 1
      BY <1>1, <1>4 DEF Pes
    <2> QED
      BY <1>1, <1>2, <1>4, <2>1, PesStopLinked
  <1>5. CASE ~Sec(s, i) /\ ~Pes(s, i)
    <2>1. s.flt[i].state \in Int /\ s.flt[i].type \in {"NONE", "SEC", "PES"}
      BY <1>1, DevTypes
    <2>2. s.flt[i].state < GO
      BY <1>5, <2>1 DEF Linked, StatesInv, Sec, Pes, SET, GO
    <2>3. t = s
      BY <1>1, <1>5, <2>2, FilterStopOther
    <2>4. Idle(s.flt[i])
      BY <1>5, <2>2 DEF Linked, StatesInv, Idle
    <2> QED
      BY <1>2, <2>3, <2>4
  <1> QED
    BY <1>3, <1>4, <1>5

-----------------------------------------------------------------------------
(* Starting a section filter.                                              *)

ToLink(f, k, j) == [f EXCEPT !.feed = k, !.sec = j]
ToSec(f, j) == [f EXCEPT !.sec = j]
ToRun(f, j, tm) == [f EXCEPT !.sec = j, !.timer = tm, !.state = GO]

LEMMA LinkUpdates ==
  ASSUME NEW f \in DevSet, NEW k \in Feeds \cup {Null}, NEW j \in Filters \cup {Null}, NEW tm \in {"off", "armed"}
  PROVE  /\ ToLink(f, k, j) \in DevSet /\ ToSec(f, j) \in DevSet /\ ToRun(f, j, tm) \in DevSet
         /\ ToLink(f, k, j).feed = k /\ ToLink(f, k, j).sec = j /\ ToLink(f, k, j).state = f.state
         /\ ToLink(f, k, j).timer = f.timer /\ ToLink(f, k, j).type = f.type
         /\ ToLink(f, k, j).params = f.params /\ ToLink(f, k, j).ts = f.ts
         /\ ToSec(f, j).state = f.state /\ ToSec(f, j).type = f.type /\ ToSec(f, j).params = f.params
         /\ ToSec(f, j).ts = f.ts
         /\ ToRun(f, j, tm).feed = f.feed /\ ToRun(f, j, tm).sec = j /\ ToRun(f, j, tm).state = GO
         /\ ToRun(f, j, tm).type = f.type /\ ToRun(f, j, tm).params = f.params /\ ToRun(f, j, tm).ts = f.ts
  <1>1. GO \in FREE .. TIMEDOUT
    BY DEF GO, FREE, TIMEDOUT
  <1>2. ToLink(f, k, j) \in DevSet
    BY DEF ToLink, DevSet
  <1>3. ToSec(f, j) \in DevSet
    BY DEF ToSec, DevSet
  <1>4. ToRun(f, j, tm) \in DevSet
    BY <1>1 DEF ToRun, DevSet
  <1>5. /\ ToLink(f, k, j).feed = k /\ ToLink(f, k, j).sec = j /\ ToLink(f, k, j).state = f.state
        /\ ToLink(f, k, j).timer = f.timer /\ ToLink(f, k, j).type = f.type
        /\ ToLink(f, k, j).params = f.params /\ ToLink(f, k, j).ts = f.ts
    BY DEF ToLink, DevSet
  <1>6. /\ ToSec(f, j).state = f.state /\ ToSec(f, j).type = f.type /\ ToSec(f, j).params = f.params
        /\ ToSec(f, j).ts = f.ts
    BY DEF ToSec, DevSet
  <1>7. /\ ToRun(f, j, tm).feed = f.feed /\ ToRun(f, j, tm).sec = j /\ ToRun(f, j, tm).state = GO
        /\ ToRun(f, j, tm).type = f.type /\ ToRun(f, j, tm).params = f.params /\ ToRun(f, j, tm).ts = f.ts
    BY DEF ToRun, DevSet
  <1> QED
    BY <1>2, <1>3, <1>4, <1>5, <1>6, <1>7

\* The feed of a running filter on the PID of filter i.
Shared(s, i) == LET same == Running(s, s.flt[i].params.pid)
                IN  IF same = {} THEN Null ELSE s.flt[Min(same)].feed

\* From state e, where filter i has feed k: a filter for the feed, and the feed started.
Attached(e, i, k, tm) ==
  LET d3 == AllocateFilter(e.dmx, k, i)
      d4 == SectionFeedStart(d3, k, {})
      e1 == FeedRestart([e EXCEPT !.dmx = d3], i, {})
      e4 == [e EXCEPT !.dmx = d4, !.flt[i].sec = d3.ret]
  IN  IF d3.ret < 0 THEN Fail([e1 EXCEPT !.dmx = SectionFeedStart(@, k, {})])
      ELSE IF d4.ret < 0 THEN e4
      ELSE [e4 EXCEPT !.flt[i].timer = tm, !.flt[i].state = GO]

LEMMA SharedType ==
  ASSUME NEW s \in StateSet, NEW i \in Devs
  PROVE  /\ Shared(s, i) \in Feeds \cup {Null}
         /\ Running(s, s.flt[i].params.pid) # {} =>
              \E m \in Running(s, s.flt[i].params.pid) : m \in Devs /\ Shared(s, i) = s.flt[m].feed
  <1> DEFINE same == Running(s, s.flt[i].params.pid)
  <1>1. same \subseteq Devs /\ Devs \subseteq Nat
    BY Constants DEF Running
  <1>2. CASE same = {}
    BY <1>2 DEF Shared
  <1>3. CASE same # {}
    <2>1. Min(same) \in same
      BY <1>1, <1>3, MinFacts
    <2>2. Shared(s, i) = s.flt[Min(same)].feed
      BY <1>3 DEF Shared
    <2>3. s.flt[Min(same)].feed \in Feeds \cup {Null}
      BY <1>1, <2>1, DevTypes
    <2> QED
      BY <1>1, <1>3, <2>1, <2>2, <2>3
  <1> QED
    BY <1>2, <1>3

\* dvb_dmxdev_filter_start for a section filter: no feed; a feed that does not take the PID;
\* a new feed; the feed of others.
LEMMA SecStartCases ==
  ASSUME NEW s \in StateSet, NEW i \in Devs, s.flt[i].type = "SEC"
  PROVE  LET u == SecFilterStart(s, i, {})
             f == s.flt[i]
             pid == f.params.pid
             d1 == AllocateSectionFeed(s.dmx)
             d2 == SectionFeedSet(d1, d1.ret, pid)
             tm == IF f.params.timed THEN "armed" ELSE "off"
             sh == Shared(s, i)
         IN  \/ /\ sh = Null
                /\ IsState(u, Err(s.dmx), [s.flt EXCEPT ![i] = ToLink(f, Null, Null)])
             \/ /\ sh = Null /\ d1.ret \in Feeds /\ d1.ret # Null
                /\ \E e : /\ IsState(e, d2, [s.flt EXCEPT ![i] = ToLink(f, d1.ret, Null)])
                          /\ \/ d2.ret < 0 /\ u = Fail(FeedRestart(e, i, {}))
                             \/ ~(d2.ret < 0) /\ u = Attached(e, i, d1.ret, tm)
             \/ /\ sh \in Feeds
                /\ \E e : /\ IsState(e, SectionFeedStop(s.dmx, sh), [s.flt EXCEPT ![i] = ToHalt(ToLink(f, sh, Null))])
                          /\ u = Attached(e, i, sh, tm)
  <1> DEFINE u == SecFilterStart(s, i, {})
             f == s.flt[i]
             pid == f.params.pid
             d1 == AllocateSectionFeed(s.dmx)
             d2 == SectionFeedSet(d1, d1.ret, pid)
             tm == IF f.params.timed THEN "armed" ELSE "off"
             sh == Shared(s, i)
             s1 == [s EXCEPT !.flt[i].sec = Null, !.flt[i].feed = sh]
             e1 == [s1 EXCEPT !.dmx = d2, !.flt[i].feed = d1.ret]
             e2 == FeedStop(s1, i)
  <1>1. /\ s.dmx \in DemuxSet /\ f \in DevSet /\ pid \in Nat \cup {NoPid} /\ s.flt \in [Devs -> DevSet]
    <2>1. f.params \in ParamSet
      BY DevTypes
    <2>2. pid \in Nat \cup {NoPid}
      BY <2>1 DEF ParamSet
    <2> QED
      BY <2>2, DevTypes
  <1>2. sh \in Feeds \cup {Null} /\ Null \notin Feeds /\ Null = 0 /\ \A n \in Feeds : n \in Int /\ ~(n < 0) /\ n # Null
    BY SharedType, Constants DEF Null
  <1>3. u = LET k == IF sh = Null THEN d1.ret ELSE sh
                d22 == SectionFeedSet(d1, k, pid)
                sFeed == IF sh = Null THEN [s1 EXCEPT !.dmx = d22, !.flt[i].feed = k] ELSE e2
            IN  IF k < 0 THEN Fail(s1)
                ELSE IF sh = Null /\ d22.ret < 0 THEN Fail(FeedRestart(sFeed, i, {}))
                ELSE Attached(sFeed, i, k, tm)
    BY DEF SecFilterStart, Shared, Attached
  <1>4. s1 = Make(s, s.dmx, i, ToLink(f, sh, Null))
    BY DEF Make, ToLink, StateSet
  <1> HIDE DEF u, sh, s1, e2, f
  <1>5. ToLink(f, sh, Null) \in DevSet /\ ToLink(f, sh, Null).feed = sh /\ ToLink(f, sh, Null).type = f.type
    BY <1>1, <1>2, LinkUpdates
  <1>6. IsState(s1, s.dmx, [s.flt EXCEPT ![i] = ToLink(f, sh, Null)])
    BY <1>1, <1>4, <1>5, MakeFacts
  <1>7. s1 \in StateSet /\ s1.dmx = s.dmx /\ s1.flt = [s.flt EXCEPT ![i] = ToLink(f, sh, Null)]
    BY <1>6 DEF IsState
  <1>8. CASE sh = Null
    <2>1. CASE d1 = Err(s.dmx)
      <3>1. d1.ret < 0
        BY <1>1, <2>1, Results
      <3>2. u = Fail(s1)
        BY <1>3, <1>8, <3>1
      <3>3. IsState(Fail(s1), Err(s1.dmx), s1.flt)
        BY <1>7, FailFacts
      <3> QED
        BY <1>7, <1>8, <3>2, <3>3 DEF u, sh, f
    <2>2. CASE d1.ret \in Feeds /\ d1 \in DemuxSet
      <3>1. ~(d1.ret < 0) /\ d1.ret # Null
        BY <1>2, <2>2
      <3>2. \/ d2.ret < 0 /\ u = Fail(FeedRestart(e1, i, {}))
            \/ ~(d2.ret < 0) /\ u = Attached(e1, i, d1.ret, tm)
        BY <1>3, <1>8, <3>1
      <3>3. d2 \in DemuxSet
        <4>1. d2 = Err(d1) \/ Effect(d1, d2, [d1.feed EXCEPT ![d1.ret] = WithPid(d1.feed[d1.ret], pid)],
                          d1.filter, d1.feed_list \cup {d1.ret}, d1.pesfilter)
          BY <1>1, <2>2, SectionSet
        <4>2. Err(d1) \in DemuxSet
          BY <2>2, Results DEF Effect
        <4> QED
          BY <4>1, <4>2 DEF Effect
      <3> HIDE DEF d1, d2
      <3>4. ToLink(f, d1.ret, Null) \in DevSet
        BY <1>1, <2>2, LinkUpdates
      <3>5. e1 = Make(s1, d2, i, ToFeed(s1.flt[i], d1.ret))
        BY <1>7 DEF Make, ToFeed, StateSet
      <3>6. s1.flt[i] = ToLink(f, sh, Null)
        BY <1>1, <1>7
      <3>7. ToFeed(ToLink(f, sh, Null), d1.ret) = ToLink(f, d1.ret, Null)
        BY <1>1 DEF ToFeed, ToLink, DevSet
      <3>8. [s1.flt EXCEPT ![i] = ToLink(f, d1.ret, Null)] = [s.flt EXCEPT ![i] = ToLink(f, d1.ret, Null)]
        BY <1>1, <1>7
      <3> HIDE DEF e1
      <3>9. IsState(Make(s1, d2, i, ToLink(f, d1.ret, Null)), d2, [s1.flt EXCEPT ![i] = ToLink(f, d1.ret, Null)])
        BY <1>7, <3>3, <3>4, MakeFacts
      <3>10. IsState(e1, d2, [s.flt EXCEPT ![i] = ToLink(f, d1.ret, Null)])
        BY <3>5, <3>6, <3>7, <3>8, <3>9
      <3> QED
        BY <1>8, <2>2, <3>1, <3>2, <3>10 DEF u, sh, f, d1, d2
    <2> QED
      BY <1>1, <2>1, <2>2, SectionAllocate DEF Effect
  <1>9. CASE sh \in Feeds
    <2>1. u = Attached(e2, i, sh, tm)
      BY <1>2, <1>3, <1>9
    <2>2. s1.flt[i] = ToLink(f, sh, Null)
      BY <1>1, <1>7
    <2>3. s1.flt[i].type = "SEC" /\ s1.flt[i].feed = sh
      BY <1>5, <2>2 DEF f
    <2>4. IsState(e2, SectionFeedStop(s1.dmx, sh), [s1.flt EXCEPT ![i] = ToHalt(ToLink(f, sh, Null))])
      BY <1>7, <2>2, <2>3, FeedStopSec DEF e2
    <2>5. [s1.flt EXCEPT ![i] = ToHalt(ToLink(f, sh, Null))] = [s.flt EXCEPT ![i] = ToHalt(ToLink(f, sh, Null))]
      BY <1>1, <1>7
    <2>6. IsState(e2, SectionFeedStop(s.dmx, sh), [s.flt EXCEPT ![i] = ToHalt(ToLink(f, sh, Null))])
      BY <1>7, <2>4, <2>5
    <2> QED
      BY <1>9, <2>1, <2>6 DEF u, sh, f
  <1> QED
    BY <1>2, <1>8, <1>9

LEMMA AttachCases ==
  ASSUME NEW e \in StateSet, NEW i \in Devs, NEW k \in Feeds, e.flt[i].feed = k, NEW tm \in {"off", "armed"}
  PROVE  LET u == Attached(e, i, k, tm)
             d3 == AllocateFilter(e.dmx, k, i)
             d4 == SectionFeedStart(d3, k, {})
             left == Running(e, e.flt[i].params.pid)
         IN  \/ /\ d3 = Err(e.dmx) /\ left = {}
                /\ IsState(u, Err(SectionFeedStart(ReleaseSectionFeed(d3, k), k, {})), e.flt)
             \/ /\ d3 = Err(e.dmx)
                /\ \E n \in left :
                     /\ n \in Devs
                     /\ IsState(u, Err(SectionFeedStart(SectionFeedStart(d3, e.flt[n].feed, {}), k, {})),
                                [e.flt EXCEPT ![n] = ToGo(e.flt[n])])
             \/ /\ d3.ret \in Filters /\ d3 \in DemuxSet /\ d4.ret < 0
                /\ IsState(u, d4, [e.flt EXCEPT ![i] = ToSec(e.flt[i], d3.ret)])
             \/ /\ d3.ret \in Filters /\ d3 \in DemuxSet /\ ~(d4.ret < 0)
                /\ IsState(u, d4, [e.flt EXCEPT ![i] = ToRun(e.flt[i], d3.ret, tm)])
  <1> DEFINE u == Attached(e, i, k, tm)
             d3 == AllocateFilter(e.dmx, k, i)
             d4 == SectionFeedStart(d3, k, {})
             left == Running(e, e.flt[i].params.pid)
             a == [e EXCEPT !.dmx = d3]
             b == FeedRestart(a, i, {})
             c == [b EXCEPT !.dmx = SectionFeedStart(@, k, {})]
             e4 == [e EXCEPT !.dmx = d4, !.flt[i].sec = d3.ret]
             e5 == [e4 EXCEPT !.flt[i].timer = tm, !.flt[i].state = GO]
  <1>1. e.dmx \in DemuxSet /\ e.flt[i] \in DevSet /\ e.flt \in [Devs -> DevSet]
    BY DevTypes
  <1>2. u = IF d3.ret < 0 THEN Fail(c) ELSE IF d4.ret < 0 THEN e4 ELSE e5
    BY DEF Attached
  <1>3. CASE d3 = Err(e.dmx)
    <2>1. d3.ret < 0 /\ d3 \in DemuxSet
      BY <1>1, <1>3, Results DEF Effect
    <2>2. u = Fail(c)
      BY <1>2, <2>1
    <2> HIDE DEF u, d3
    <2>3. IsState(a, d3, e.flt)
      BY <1>1, <2>1, MakeFacts
    <2> HIDE DEF a
    <2>4. a \in StateSet /\ a.dmx = d3 /\ a.flt = e.flt
      BY <2>3 DEF IsState
    <2>5. Running(a, a.flt[i].params.pid) = left
      BY <2>4 DEF Running
    <2> HIDE DEF left
    <2>6. \/ left = {} /\ IsState(b, ReleaseSectionFeed(d3, k), e.flt)
          \/ \E n \in left : /\ n \in Devs
                             /\ IsState(b, SectionFeedStart(d3, e.flt[n].feed, {}), [e.flt EXCEPT ![n] = ToGo(e.flt[n])])
      BY <2>4, <2>5, FeedRestartFacts
    <2> HIDE DEF b
    <2>7. ASSUME NEW D, NEW F, IsState(b, D, F) PROVE IsState(u, Err(SectionFeedStart(D, k, {})), F)
      <3>1. b \in StateSet /\ b.dmx = D /\ b.flt = F /\ D \in DemuxSet
        BY <2>7 DEF IsState, StateSet
      <3>2. SectionFeedStart(D, k, {}) \in DemuxSet
        BY <3>1, SectionTypes
      <3>3. IsState([b EXCEPT !.dmx = SectionFeedStart(D, k, {})], SectionFeedStart(D, k, {}), b.flt)
        BY <1>1, <3>1, <3>2, MakeFacts
      <3>4. IsState(c, SectionFeedStart(D, k, {}), F)
        BY <3>1, <3>3
      <3> HIDE DEF c
      <3>5. c \in StateSet /\ c.dmx = SectionFeedStart(D, k, {}) /\ c.flt = F
        BY <3>4 DEF IsState
      <3> QED
        BY <2>2, <3>5, FailFacts
    <2>8. CASE left = {} /\ IsState(b, ReleaseSectionFeed(d3, k), e.flt)
      BY <1>3, <2>7, <2>8 DEF u, left, d3
    <2>9. ASSUME NEW n \in left, n \in Devs,
                 IsState(b, SectionFeedStart(d3, e.flt[n].feed, {}), [e.flt EXCEPT ![n] = ToGo(e.flt[n])])
          PROVE  IsState(u, Err(SectionFeedStart(SectionFeedStart(d3, e.flt[n].feed, {}), k, {})),
                         [e.flt EXCEPT ![n] = ToGo(e.flt[n])])
      BY <2>7, <2>9
    <2> QED
      BY <1>3, <2>6, <2>8, <2>9 DEF u, left, d3
  <1>4. CASE d3.ret \in Filters /\ d3 \in DemuxSet
    <2>1. ~(d3.ret < 0)
      <3>1. \A n \in Filters : n \in Int /\ n > 0
        BY Constants
      <3> QED
        BY <1>4, <3>1
    <2>2. d4 \in DemuxSet
      BY <1>4, SectionTypes
    <2> HIDE DEF u, d3, d4
    <2>3. ToSec(e.flt[i], d3.ret) \in DevSet /\ ToRun(e.flt[i], d3.ret, tm) \in DevSet
      BY <1>1, <1>4, LinkUpdates
    <2>4. e4 = Make(e, d4, i, ToSec(e.flt[i], d3.ret))
      BY DEF Make, ToSec, StateSet
    <2>5. e5 = Make(e, d4, i, ToRun(e.flt[i], d3.ret, tm))
      BY DEF Make, ToRun, StateSet
    <2> HIDE DEF e4, e5
    <2>6. /\ IsState(e4, d4, [e.flt EXCEPT ![i] = ToSec(e.flt[i], d3.ret)])
          /\ IsState(e5, d4, [e.flt EXCEPT ![i] = ToRun(e.flt[i], d3.ret, tm)])
      BY <2>2, <2>3, <2>4, <2>5, MakeFacts
    <2> QED
      BY <1>2, <1>4, <2>1, <2>6 DEF u, d3, d4
  <1> QED
    BY <1>1, <1>3, <1>4, FilterAllocate DEF Effect

\* A handler for filter i keeps the types, the parameters and the number of PIDs of all
\* filters; it takes no slot away, and none but i's into use.
Survive(s, u, i) ==
  /\ u \in StateSet
  /\ \A n \in Devs : /\ u.flt[n].type = s.flt[n].type /\ u.flt[n].params = s.flt[n].params
                     /\ Len(u.flt[n].ts) = Len(s.flt[n].ts)
                     /\ s.flt[n].state # FREE => u.flt[n].state # FREE
                     /\ n # i /\ s.flt[n].state = FREE => u.flt[n].state = FREE

LEMMA SurviveSame ==
  ASSUME NEW s \in StateSet, NEW u, NEW D, NEW i, IsState(u, D, s.flt)
  PROVE  Survive(s, u, i)
  BY DEF IsState, Survive

LEMMA SurviveOne ==
  ASSUME NEW s \in StateSet, NEW u, NEW D, NEW i \in Devs, NEW n \in Devs, NEW g,
         IsState(u, D, [s.flt EXCEPT ![n] = g]),
         g.type = s.flt[n].type, g.params = s.flt[n].params, Len(g.ts) = Len(s.flt[n].ts),
         s.flt[n].state # FREE => g.state # FREE, n = i \/ s.flt[n].state # FREE
  PROVE  Survive(s, u, i)
  <1>1. s.flt \in [Devs -> DevSet]
    BY DevTypes
  <1>2. u \in StateSet /\ u.flt[n] = g /\ \A m \in Devs \ {n} : u.flt[m] = s.flt[m]
    BY <1>1 DEF IsState
  <1> QED
    BY <1>2 DEF Survive

LEMMA SurviveTrans ==
  ASSUME NEW s, NEW t, NEW u, NEW i \in Devs, Survive(s, t, i), Survive(t, u, i)
  PROVE  Survive(s, u, i)
  BY DEF Survive

LEMMA SurviveTyped ==
  ASSUME NEW s, Typed(s), NEW u, NEW i, Survive(s, u, i)
  PROVE  Typed(u)
  BY DEF Survive, Typed, StateSet

LEMMA AttachSurvive ==
  ASSUME NEW e \in StateSet, NEW i \in Devs, NEW k \in Feeds, e.flt[i].feed = k, NEW tm \in {"off", "armed"}
  PROVE  Survive(e, Attached(e, i, k, tm), i)
  <1> DEFINE u == Attached(e, i, k, tm)
             j == AllocateFilter(e.dmx, k, i).ret
             f == e.flt[i]
  <1>1. \/ \E D : IsState(u, D, e.flt)
        \/ \E n \in Running(e, e.flt[i].params.pid) :
             \E D : n \in Devs /\ IsState(u, D, [e.flt EXCEPT ![n] = ToGo(e.flt[n])])
        \/ \E D : j \in Filters /\ IsState(u, D, [e.flt EXCEPT ![i] = ToSec(f, j)])
        \/ \E D : j \in Filters /\ IsState(u, D, [e.flt EXCEPT ![i] = ToRun(f, j, tm)])
    BY AttachCases, Zenon
  <1> HIDE DEF u, j
  <1>2. f \in DevSet
    BY DevTypes
  <1>3. FREE # GO
    BY DEF FREE, GO
  <1>4. ASSUME NEW D, IsState(u, D, e.flt) PROVE Survive(e, u, i)
    BY <1>4, SurviveSame
  <1>5. ASSUME NEW D, NEW n \in Running(e, e.flt[i].params.pid), n \in Devs,
               IsState(u, D, [e.flt EXCEPT ![n] = ToGo(e.flt[n])])
        PROVE  Survive(e, u, i)
    <2>1. e.flt[n].state # FREE
      BY DEF Running, GO, FREE
    <2>2. e.flt[n] \in DevSet
      BY <1>5, DevTypes
    <2> DEFINE g == ToGo(e.flt[n])
    <2>3. g.state = GO /\ g.type = e.flt[n].type /\ g.params = e.flt[n].params /\ g.ts = e.flt[n].ts
      BY <2>2, DevUpdates
    <2> HIDE DEF g
    <2>4. IsState(u, D, [e.flt EXCEPT ![n] = g])
      BY <1>5 DEF g
    <2> QED
      BY <1>3, <1>5, <2>1, <2>3, <2>4, SurviveOne
  <1>6. ASSUME NEW D, j \in Filters, IsState(u, D, [e.flt EXCEPT ![i] = ToSec(f, j)]) PROVE Survive(e, u, i)
    <2> DEFINE g == ToSec(f, j)
    <2>1. g.state = f.state /\ g.type = f.type /\ g.params = f.params /\ g.ts = f.ts
      BY <1>2, <1>6, LinkUpdates
    <2> HIDE DEF g
    <2>2. IsState(u, D, [e.flt EXCEPT ![i] = g])
      BY <1>6 DEF g
    <2> QED
      BY <2>1, <2>2, SurviveOne
  <1>7. ASSUME NEW D, j \in Filters, IsState(u, D, [e.flt EXCEPT ![i] = ToRun(f, j, tm)]) PROVE Survive(e, u, i)
    <2> DEFINE g == ToRun(f, j, tm)
    <2>1. g.state = GO /\ g.type = f.type /\ g.params = f.params /\ g.ts = f.ts
      BY <1>2, <1>7, LinkUpdates
    <2> HIDE DEF g
    <2>2. IsState(u, D, [e.flt EXCEPT ![i] = g])
      BY <1>7 DEF g
    <2> QED
      BY <1>3, <2>1, <2>2, SurviveOne
  <1> QED
    BY <1>1, <1>4, <1>5, <1>6, <1>7 DEF u

\* Whatever the state, starting a section filter keeps the types.
LEMMA SecStartSurvive ==
  ASSUME NEW s \in StateSet, NEW i \in Devs, s.flt[i].type = "SEC"
  PROVE  Survive(s, SecFilterStart(s, i, {}), i)
  <1> DEFINE u == SecFilterStart(s, i, {})
             f == s.flt[i]
             tm == IF f.params.timed THEN "armed" ELSE "off"
             sh == Shared(s, i)
             k == AllocateSectionFeed(s.dmx).ret
  <1>1. \/ \E D : IsState(u, D, [s.flt EXCEPT ![i] = ToLink(f, Null, Null)])
        \/ k \in Feeds /\ \E D, e : /\ IsState(e, D, [s.flt EXCEPT ![i] = ToLink(f, k, Null)])
                                    /\ u = Fail(FeedRestart(e, i, {})) \/ u = Attached(e, i, k, tm)
        \/ sh \in Feeds /\ \E D, e : /\ IsState(e, D, [s.flt EXCEPT ![i] = ToHalt(ToLink(f, sh, Null))])
                                     /\ u = Attached(e, i, sh, tm)
    BY SecStartCases, Zenon
  <1>2. f \in DevSet /\ tm \in {"off", "armed"} /\ s.flt \in [Devs -> DevSet]
    BY DevTypes
  <1> HIDE DEF u, k, sh, tm
  <1>3. FREE # GO /\ FREE # SET
    BY DEF FREE, GO, SET
  <1>4. ASSUME NEW e, NEW D, NEW n \in Feeds \cup {Null}, IsState(e, D, [s.flt EXCEPT ![i] = ToLink(f, n, Null)])
        PROVE  Survive(s, e, i) /\ e \in StateSet /\ e.flt[i].feed = n
    <2> DEFINE g == ToLink(f, n, Null)
    <2>1. /\ g.state = f.state /\ g.type = f.type /\ g.params = f.params /\ g.ts = f.ts /\ g.feed = n
      BY <1>2 DEF ToLink, DevSet
    <2> HIDE DEF g
    <2>2. IsState(e, D, [s.flt EXCEPT ![i] = g])
      BY <1>4 DEF g
    <2>3. Survive(s, e, i)
      BY <2>1, <2>2, SurviveOne
    <2>4. e \in StateSet /\ e.flt[i] = g
      BY <1>2, <2>2 DEF IsState
    <2> QED
      BY <2>1, <2>3, <2>4
  <1>5. ASSUME NEW e, NEW D, NEW n \in Feeds, IsState(e, D, [s.flt EXCEPT ![i] = ToHalt(ToLink(f, n, Null))])
        PROVE  Survive(s, e, i) /\ e \in StateSet /\ e.flt[i].feed = n
    <2> DEFINE g == ToLink(f, n, Null)
               h == ToHalt(g)
    <2>1. /\ g \in DevSet /\ g.type = f.type /\ g.params = f.params /\ g.ts = f.ts /\ g.feed = n
      BY <1>2, LinkUpdates
    <2> HIDE DEF g
    <2>2. /\ h.state = SET /\ h.type = f.type /\ h.params = f.params /\ h.ts = f.ts /\ h.feed = n
      BY <2>1, DevUpdates
    <2> HIDE DEF h
    <2>3. IsState(e, D, [s.flt EXCEPT ![i] = h])
      BY <1>5 DEF g, h
    <2>4. Survive(s, e, i)
      BY <1>3, <2>2, <2>3, SurviveOne
    <2>5. e \in StateSet /\ e.flt[i] = h
      BY <1>2, <2>3 DEF IsState
    <2> QED
      BY <2>2, <2>4, <2>5
  <1>6. CASE \E D : IsState(u, D, [s.flt EXCEPT ![i] = ToLink(f, Null, Null)])
    BY <1>4, <1>6 DEF u
  <1>7. ASSUME k \in Feeds, NEW D, NEW e, IsState(e, D, [s.flt EXCEPT ![i] = ToLink(f, k, Null)]),
               u = Fail(FeedRestart(e, i, {}))
        PROVE  Survive(s, u, i)
    <2>1. Survive(s, e, i) /\ e \in StateSet /\ e.flt[i].feed = k
      BY <1>4, <1>7
    <2> DEFINE left == Running(e, e.flt[i].params.pid)
               n == Min(left)
               b == FeedRestart(e, i, {})
    <2>2. IF left = {} THEN IsState(b, ReleaseSectionFeed(e.dmx, e.flt[i].feed), e.flt)
          ELSE /\ n \in left /\ n \in Devs
               /\ IsState(b, SectionFeedStart(e.dmx, e.flt[n].feed, {}), [e.flt EXCEPT ![n] = ToGo(e.flt[n])])
      BY <1>7, <2>1, FeedRestartFacts
    <2> HIDE DEF b, n
    <2>3. Survive(e, b, i)
      <3>1. CASE left = {}
        BY <2>1, <2>2, <3>1, SurviveSame
      <3>2. CASE left # {}
        <4>1. n \in Devs /\ e.flt[n].state # FREE
          BY <2>2, <3>2 DEF Running, GO, FREE
        <4>2. e.flt[n] \in DevSet
          BY <2>1, <4>1, DevTypes
        <4> DEFINE g == ToGo(e.flt[n])
                   E == SectionFeedStart(e.dmx, e.flt[n].feed, {})
        <4>3. g.state = GO /\ g.type = e.flt[n].type /\ g.params = e.flt[n].params /\ g.ts = e.flt[n].ts
          BY <4>2, DevUpdates
        <4>4. IsState(b, E, [e.flt EXCEPT ![n] = g])
          BY <2>2, <3>2
        <4> HIDE DEF g, E
        <4> QED
          BY <1>3, <2>1, <4>1, <4>3, <4>4, SurviveOne
      <3> QED
        BY <3>1, <3>2
    <2>4. Survive(b, u, i)
      <3>1. b \in StateSet
        BY <2>3 DEF Survive
      <3>2. IsState(u, Err(b.dmx), b.flt)
        BY <1>7, <3>1, FailFacts DEF b
      <3> QED
        BY <3>1, <3>2, SurviveSame
    <2> QED
      BY <2>1, <2>3, <2>4, SurviveTrans
  <1>8. ASSUME NEW e, NEW n \in Feeds, Survive(s, e, i), e \in StateSet, e.flt[i].feed = n, u = Attached(e, i, n, tm)
        PROVE  Survive(s, u, i)
    <2>1. Survive(e, u, i)
      BY <1>2, <1>8, AttachSurvive
    <2> QED
      BY <1>8, <2>1, SurviveTrans
  <1>9. CASE k \in Feeds /\ \E D, e : /\ IsState(e, D, [s.flt EXCEPT ![i] = ToLink(f, k, Null)])
                                      /\ u = Fail(FeedRestart(e, i, {})) \/ u = Attached(e, i, k, tm)
    BY <1>4, <1>7, <1>8, <1>9 DEF u
  <1>10. CASE sh \in Feeds /\ \E D, e : /\ IsState(e, D, [s.flt EXCEPT ![i] = ToHalt(ToLink(f, sh, Null))])
                                        /\ u = Attached(e, i, sh, tm)
    BY <1>5, <1>8, <1>10 DEF u
  <1> QED
    BY <1>1, <1>6, <1>9, <1>10 DEF u

\* Demux e is d but for feed k, and its list is L.
ButFeed(d, e, k, L) ==
  /\ e \in DemuxSet /\ \A m \in Feeds \ {k} : e.feed[m] = d.feed[m]
  /\ e.filter = d.filter /\ e.feed_list = L /\ e.pesfilter = d.pesfilter /\ e.oops = d.oops

LEMMA ButFeedStep ==
  ASSUME NEW d \in DemuxSet, NEW e, NEW k \in Feeds, NEW L, NEW r, NEW x, NEW M,
         ButFeed(d, e, k, L), Effect(e, r, [e.feed EXCEPT ![k] = x], e.filter, M, e.pesfilter)
  PROVE  ButFeed(d, r, k, M) /\ r.feed[k] = x
  <1>1. e \in DemuxSet
    BY DEF ButFeed
  <1>2. e.feed \in [Feeds -> FeedSet]
    BY <1>1, FieldTypes
  <1> QED
    BY <1>2 DEF ButFeed, Effect

LEMMA ButFeedErr ==
  ASSUME NEW d \in DemuxSet, NEW e, NEW k \in Feeds, NEW L, ButFeed(d, e, k, L)
  PROVE  ButFeed(d, Err(e), k, L) /\ Err(e).feed[k] = e.feed[k] /\ e \in DemuxSet /\ e.feed[k] \in FeedSet
  <1>1. e \in DemuxSet
    BY DEF ButFeed
  <1>2. Effect(e, Err(e), e.feed, e.filter, e.feed_list, e.pesfilter)
    BY <1>1, Results
  <1>3. e.feed[k] \in FeedSet
    BY <1>1, FieldTypes
  <1> QED
    BY <1>1, <1>2, <1>3 DEF ButFeed, Effect

\* Filter i remains idle, the others as they are; a feed that was free is free again.
LEMMA QuietOne ==
  ASSUME NEW s \in StateSet, NEW t \in StateSet, Linked(s), NEW i \in Devs, s.flt[i].state < GO,
         OthersKept(s, t, i), Idle(t.flt[i]), NEW k \in Feeds,
         ButFeed(s.dmx, t.dmx, k, s.dmx.feed_list),
         t.dmx.feed[k] = s.dmx.feed[k] \/ (s.dmx.feed[k].state = DMX_FREE /\ t.dmx.feed[k].state = DMX_FREE)
  PROVE  Linked(t)
  <1>1. Kept(s.dmx, t.dmx, Null, Null)
    BY DEF ButFeed, Kept
  <1>2. DecodersKept(s.dmx, t.dmx)
    BY DEF ButFeed, DecodersKept
  <1>3. \A n \in Devs : Like(s.flt[n], t.flt[n]) \/ (s.flt[n].state < GO /\ Idle(t.flt[n]))
    BY DEF OthersKept
  <1>4. Quiet(s, t)
    BY <1>1, <1>2, <1>3 DEF Quiet, ButFeed
  <1> QED
    BY <1>4, QuietLinked

\* The same for a demux that does not change.
LEMMA QuietDevice ==
  ASSUME NEW s \in StateSet, NEW t \in StateSet, Linked(s), NEW i \in Devs, s.flt[i].state < GO,
         OthersKept(s, t, i), Idle(t.flt[i]), t.dmx = s.dmx \/ t.dmx = Err(s.dmx) \/ t.dmx = Ok(s.dmx)
  PROVE  Linked(t)
  <1>1. s.dmx \in DemuxSet
    BY DevTypes
  <1>2. /\ t.dmx.feed = s.dmx.feed /\ t.dmx.filter = s.dmx.filter /\ t.dmx.feed_list = s.dmx.feed_list
        /\ t.dmx.pesfilter = s.dmx.pesfilter /\ t.dmx.oops = s.dmx.oops
    BY <1>1, Results DEF Effect
  <1>3. Kept(s.dmx, t.dmx, Null, Null)
    BY <1>2 DEF Kept
  <1>4. DecodersKept(s.dmx, t.dmx)
    BY <1>2 DEF DecodersKept
  <1>5. \A n \in Devs : Like(s.flt[n], t.flt[n]) \/ (s.flt[n].state < GO /\ Idle(t.flt[n]))
    BY DEF OthersKept
  <1>6. Quiet(s, t)
    BY <1>2, <1>3, <1>4, <1>5 DEF Quiet
  <1> QED
    BY <1>6, QuietLinked

\* A section filter that is set and does not run.
LEMMA IdleSec ==
  ASSUME NEW s \in StateSet, Linked(s), NEW i \in Devs, s.flt[i].type = "SEC", s.flt[i].state < GO, NEW g,
         g.type = "SEC", \/ g.state = s.flt[i].state /\ g.timer = s.flt[i].timer
                         \/ g.state = SET /\ g.timer = "off"
  PROVE  Idle(g)
  <1>1. s.flt[i].state \in Int /\ s.flt[i].timer # "armed" /\ ~(s.flt[i].state < SET)
    <2>1. s.flt[i].state \in Int
      BY DevTypes
    <2>2. ~(s.flt[i].state < SET)
      BY DEF Linked, StatesInv
    <2>3. ~(s.flt[i].state >= GO)
      BY <2>1 DEF GO
    <2>4. s.flt[i].timer # "armed"
      BY <2>3 DEF Linked, StatesInv, Sec
    <2> QED
      BY <2>1, <2>2, <2>4
  <1> QED
    BY <1>1 DEF Idle, SET, GO

\* The running filters, when filter i is not one of them.
LEMMA RunningOthers ==
  ASSUME NEW s \in StateSet, NEW e, NEW i \in Devs, NEW g, e.flt = [s.flt EXCEPT ![i] = g],
         g.state = SET \/ g.state = s.flt[i].state, s.flt[i].state < GO, NEW pid
  PROVE  Running(e, pid) = Running(s, pid) /\ i \notin Running(s, pid)
  <1>1. s.flt \in [Devs -> DevSet] /\ s.flt[i].state \in Int
    BY DevTypes
  <1>2. ~(s.flt[i].state >= GO) /\ ~(g.state >= GO)
    BY <1>1 DEF GO, SET
  <1>3. e.flt[i] = g /\ \A n \in Devs \ {i} : e.flt[n] = s.flt[n]
    BY <1>1
  <1> QED
    BY <1>2, <1>3 DEF Running

\* Demux r is d with filter j added to feed k for the device's filter i, and the feed started.
Joined(d, r, k, i, j) ==
  /\ r \in DemuxSet /\ d.filter[j].state = DMX_FREE
  /\ <<j>> \o d.feed[k].filter \in Seq(Filters)
  /\ r.feed[k] = Started(WithChain(d.feed[k], <<j>> \o d.feed[k].filter))
  /\ \A m \in Feeds \ {k} : r.feed[m] = d.feed[m]
  /\ r.filter[j] = InUse(k, i) /\ \A m \in Filters \ {j} : r.filter[m] = d.filter[m]
  /\ r.feed_list = d.feed_list /\ r.pesfilter = d.pesfilter /\ r.oops = d.oops

\* A filter that is added to a feed which is stopped, and the feed started.
LEMMA AttachDone ==
  ASSUME NEW d \in DemuxSet, NEW k \in Feeds, NEW i \in Devs, ~d.feed[k].is_filtering,
         AllocateFilter(d, k, i).ret \in Filters
  PROVE  LET d3 == AllocateFilter(d, k, i)
             d4 == SectionFeedStart(d3, k, {})
         IN  ~(d4.ret < 0) /\ Joined(d, d4, k, i, d3.ret)
  <1> DEFINE d3 == AllocateFilter(d, k, i)
             j == d3.ret
             d4 == SectionFeedStart(d3, k, {})
             b == d.feed[k]
             c == <<j>> \o b.filter
  <1>1. b \in FeedSet /\ d.feed \in [Feeds -> FeedSet] /\ d.filter \in [Filters -> SlotSet]
    BY FieldTypes
  <1>2. b.filter \in Seq(Filters)
    BY <1>1, FeedTypes
  <1>3. /\ d.filter[j].state = DMX_FREE
        /\ Effect(d, d3, [d.feed EXCEPT ![k] = WithChain(b, c)],
                  [d.filter EXCEPT ![j] = InUse(k, i)], d.feed_list, d.pesfilter)
    <2>1. Err(d).ret \notin Filters
      <3>1. \A n \in Filters : n \in Int /\ n > 0
        BY Constants
      <3>2. Err(d).ret = -1
        BY Results
      <3> QED
        BY <3>1, <3>2
    <2> QED
      BY <2>1, FilterAllocate
  <1>4. c \in Seq(Filters) /\ c # <<>>
    <2>1. <<j>> \in Seq(Filters) /\ Len(<<j>>) = 1
      OBVIOUS
    <2> HIDE DEF j, b
    <2>2. c \in Seq(Filters) /\ Len(c) = Len(<<j>>) + Len(b.filter) /\ Len(b.filter) \in Nat
      BY <1>2, <2>1
    <2> QED
      BY <2>1, <2>2
  <1> HIDE DEF d3, d4, c, b, j
  <1>5. /\ d3 \in DemuxSet /\ d3.feed[k] = WithChain(b, c)
        /\ \A m \in Feeds \ {k} : d3.feed[m] = d.feed[m]
        /\ d3.filter = [d.filter EXCEPT ![j] = InUse(k, i)]
        /\ d3.feed_list = d.feed_list /\ d3.pesfilter = d.pesfilter /\ d3.oops = d.oops
    BY <1>1, <1>3 DEF Effect
  <1>6. ~d3.feed[k].is_filtering /\ d3.feed[k].filter # <<>>
    <2>1. ~b.is_filtering
      BY DEF b
    <2> QED
      BY <1>1, <1>4, <1>5, <2>1, ChainFields
  <1>7. /\ Effect(d3, d4, [d3.feed EXCEPT ![k] = Started(d3.feed[k])], d3.filter, d3.feed_list, d3.pesfilter)
        /\ d4.ret = 0
    BY <1>5, <1>6, SectionStart DEF d4
  <1>8. d3.feed \in [Feeds -> FeedSet]
    BY <1>5, FieldTypes
  <1>9. /\ d4 \in DemuxSet /\ d4.feed[k] = Started(WithChain(b, c))
        /\ \A m \in Feeds \ {k} : d4.feed[m] = d.feed[m]
        /\ d4.filter = [d.filter EXCEPT ![j] = InUse(k, i)]
        /\ d4.feed_list = d.feed_list /\ d4.pesfilter = d.pesfilter /\ d4.oops = d.oops
    BY <1>5, <1>7, <1>8 DEF Effect
  <1>10. j \in Filters
    BY DEF j, d3
  <1>11. d4.filter[j] = InUse(k, i) /\ \A m \in Filters \ {j} : d4.filter[m] = d.filter[m]
    BY <1>1, <1>9, <1>10
  <1>12. Joined(d, d4, k, i, j)
    BY <1>3, <1>4, <1>9, <1>11 DEF Joined, c, b
  <1> QED
    BY <1>7, <1>12 DEF d3, d4, j

\* A filter with a new feed.
LEMMA AttachNew ==
  ASSUME NEW s \in StateSet, Linked(s), NEW i \in Devs, s.flt[i].type = "SEC", s.flt[i].state < GO,
         Running(s, s.flt[i].params.pid) = {}, NEW k \in Feeds, s.dmx.feed[k].state = DMX_FREE,
         NEW e \in StateSet, e.flt = [s.flt EXCEPT ![i] = ToLink(s.flt[i], k, Null)],
         ButFeed(s.dmx, e.dmx, k, s.dmx.feed_list \cup {k}),
         e.dmx.feed[k].state # DMX_FREE, e.dmx.feed[k].type = "SEC", e.dmx.feed[k].filter = <<>>,
         ~e.dmx.feed[k].is_filtering, e.dmx.feed[k].pid = s.flt[i].params.pid, NEW tm \in {"off", "armed"}
  PROVE  Linked(Attached(e, i, k, tm))
  <1> DEFINE u == Attached(e, i, k, tm)
             f == s.flt[i]
             g == ToLink(f, k, Null)
             d3 == AllocateFilter(e.dmx, k, i)
             d4 == SectionFeedStart(d3, k, {})
             j == d3.ret
             b == e.dmx.feed[k]
             L == s.dmx.feed_list
  <1>1. f \in DevSet /\ s.flt \in [Devs -> DevSet] /\ s.dmx \in DemuxSet /\ e.dmx \in DemuxSet
    BY DevTypes
  <1>2. /\ g \in DevSet /\ g.state = f.state /\ g.timer = f.timer /\ g.type = "SEC" /\ g.params = f.params
        /\ g.feed = k
    BY <1>1, LinkUpdates
  <1>3. e.flt[i] = g /\ \A n \in Devs \ {i} : e.flt[n] = s.flt[n]
    BY <1>1
  <1>4. b \in FeedSet
    BY <1>1, FieldTypes
  <1>5. k \notin L
    BY DEF Linked, ListInv
  <1>6. Running(e, e.flt[i].params.pid) = {}
    <2> HIDE DEF g
    <2>1. e.flt = [s.flt EXCEPT ![i] = g]
      BY DEF g
    <2> QED
      BY <1>2, <1>3, <2>1, RunningOthers
  <1>7. \/ /\ d3 = Err(e.dmx)
           /\ IsState(u, Err(SectionFeedStart(ReleaseSectionFeed(d3, k), k, {})), e.flt)
        \/ j \in Filters /\ d4.ret < 0
        \/ j \in Filters /\ IsState(u, d4, [e.flt EXCEPT ![i] = ToRun(g, j, tm)])
    <2>1. e.flt[i].feed = k
      BY <1>2, <1>3
    <2> QED
      BY <1>3, <1>6, <2>1, AttachCases
  <1> HIDE DEF u, f, g, d3, d4, j, L
  <1>8. CASE /\ d3 = Err(e.dmx)
             /\ IsState(u, Err(SectionFeedStart(ReleaseSectionFeed(d3, k), k, {})), e.flt)
    <2> DEFINE x2 == ReleaseSectionFeed(d3, k)
               x3 == SectionFeedStart(x2, k, {})
    <2>1. ButFeed(s.dmx, d3, k, L \cup {k}) /\ d3.feed[k] = b /\ d3 \in DemuxSet
      <3>1. ButFeed(s.dmx, Err(e.dmx), k, L \cup {k}) /\ Err(e.dmx).feed[k] = b
        BY <1>1, ButFeedErr DEF L
      <3> QED
        BY <1>8, <3>1 DEF ButFeed
    <2>2. Effect(d3, x2, [d3.feed EXCEPT ![k] = Freed(b)], d3.filter, d3.feed_list \ {k}, d3.pesfilter)
      BY <2>1, SectionRelease
    <2> HIDE DEF x2
    <2>3. ButFeed(s.dmx, x2, k, d3.feed_list \ {k}) /\ x2.feed[k] = Freed(b)
      <3>1. d3.feed \in [Feeds -> FeedSet]
        BY <2>1, FieldTypes
      <3> QED
        BY <2>1, <2>2, <3>1 DEF ButFeed, Effect
    <2>4. d3.feed_list \ {k} = L
      BY <1>5, <2>1 DEF ButFeed
    <2>5. Freed(b).filter = <<>> /\ Freed(b).state = DMX_FREE
      BY <1>4 DEF Freed, FeedSet
    <2>6. x3 = Err(x2)
      <3>1. k # Null
        BY Constants
      <3> QED
        BY <2>3, <2>5, <3>1 DEF SectionFeedStart
    <2>7. ButFeed(s.dmx, x3, k, L) /\ x3.feed[k] = Freed(b)
      <3>1. ButFeed(s.dmx, x2, k, L)
        BY <2>3, <2>4
      <3>2. ButFeed(s.dmx, Err(x2), k, L) /\ Err(x2).feed[k] = x2.feed[k]
        BY <1>1, <3>1, ButFeedErr
      <3> QED
        BY <2>3, <2>6, <3>2
    <2>8. u.dmx = Err(x3) /\ u.flt = e.flt /\ u \in StateSet
      BY <1>8 DEF IsState, x2
    <2> HIDE DEF x3
    <2>9. ButFeed(s.dmx, u.dmx, k, L) /\ u.dmx.feed[k].state = DMX_FREE
      BY <1>1, <2>5, <2>7, <2>8, ButFeedErr
    <2>10. OthersKept(s, u, i)
      BY <1>1, <1>3, <2>8, LikeGo DEF OthersKept
    <2>11. Idle(u.flt[i])
      BY <1>2, <1>3, <2>8, IdleSec DEF f
    <2> QED
      BY <2>8, <2>9, <2>10, <2>11, QuietOne DEF L, u
  <1>9. CASE j \in Filters
    <2> DEFINE c == <<j>> \o b.filter
               h == ToRun(g, j, tm)
    <2>1. /\ d4 \in DemuxSet /\ ~(d4.ret < 0) /\ e.dmx.filter[j].state = DMX_FREE
          /\ c \in Seq(Filters) /\ d4.feed[k] = Started(WithChain(b, c))
          /\ \A m \in Feeds \ {k} : d4.feed[m] = e.dmx.feed[m]
          /\ d4.filter[j] = InUse(k, i) /\ \A m \in Filters \ {j} : d4.filter[m] = e.dmx.filter[m]
          /\ d4.feed_list = e.dmx.feed_list /\ d4.pesfilter = e.dmx.pesfilter /\ d4.oops = e.dmx.oops
      <3>1. AllocateFilter(e.dmx, k, i).ret \in Filters /\ ~e.dmx.feed[k].is_filtering
        BY <1>9 DEF d3, j
      <3>2. ~(d4.ret < 0) /\ Joined(e.dmx, d4, k, i, j)
        BY <1>1, <3>1, AttachDone DEF d4, d3, j
      <3> QED
        BY <3>2 DEF Joined
    <2>2. c = <<j>>
      <3>1. b.filter = <<>>
        OBVIOUS
      <3>2. <<j>> \o <<>> = <<j>>
        OBVIOUS
      <3> QED
        BY <3>1, <3>2
    <2>3. IsState(u, d4, [e.flt EXCEPT ![i] = h]) /\ d3 # Err(e.dmx)
      <3>1. d3 # Err(e.dmx)
        <4>1. \A n \in Filters : n \in Int /\ n > 0
          BY Constants
        <4>2. Err(e.dmx).ret = -1
          BY <1>1, Results
        <4> QED
          BY <1>9, <4>1, <4>2 DEF j
      <3> QED
        BY <1>7, <2>1, <3>1
    <2>4. /\ h.state = GO /\ h.type = "SEC" /\ h.params = f.params /\ h.feed = k /\ h.sec = j
      BY <1>2, <1>9, LinkUpdates
    <2> HIDE DEF c, h
    <2>5. WithChain(b, c) \in FeedSet /\ WithChain(b, c).filter = c /\ WithChain(b, c).type = "SEC" /\ WithChain(b, c).pid = f.params.pid
      <3>1. WithChain(b, c) \in FeedSet
        BY <1>4, <2>1 DEF WithChain, FeedSet
      <3> QED
        BY <1>4, <2>1, <3>1, ChainFields DEF f
    <2>6. /\ d4.feed[k].state = DMX_GO /\ d4.feed[k].is_filtering /\ d4.feed[k].filter = <<j>>
          /\ d4.feed[k].type = "SEC" /\ d4.feed[k].pid = f.params.pid
      BY <2>1, <2>2, <2>5, FeedFields
    <2>7. /\ u \in StateSet /\ u.dmx = d4 /\ u.flt[i] = h /\ \A n \in Devs \ {i} : u.flt[n] = s.flt[n]
      <3>1. e.flt \in [Devs -> DevSet]
        BY DevTypes
      <3> QED
        BY <1>3, <2>3, <3>1 DEF IsState
    <2>8. OthersKept(s, u, i)
      BY <1>1, <2>7, LikeGo DEF OthersKept
    <2>9. Kept(s.dmx, u.dmx, k, j) /\ s.dmx.filter[j].state = DMX_FREE
      BY <2>1, <2>7 DEF Kept, ButFeed
    <2>10. u.dmx.feed_list = s.dmx.feed_list \cup {k} /\ u.dmx.pesfilter = s.dmx.pesfilter
      BY <2>1, <2>7 DEF ButFeed
    <2>11. Sec(u, i) /\ u.flt[i].feed = k /\ u.flt[i].sec = j /\ u.flt[i].params = f.params
      BY <2>4, <2>7 DEF Sec, GO
    <2>12. \A p \in PesTypes : u.dmx.pesfilter[p] \in {s.dmx.pesfilter[p], Null}
      BY <2>10
    <2>13. Born(s, u, i, k, j)
      BY <1>9, <2>1, <2>6, <2>7, <2>8, <2>9, <2>10, <2>11, <2>12 DEF Born, f
    <2> QED
      BY <2>7, <2>13, BornLinked DEF u
  <1> QED
    BY <1>7, <1>8, <1>9

\* A filter with the feed of others: the feed is stopped meanwhile.
LEMMA AttachShared ==
  ASSUME NEW s \in StateSet, Linked(s), NEW i \in Devs, s.flt[i].type = "SEC", s.flt[i].state < GO,
         NEW m \in Running(s, s.flt[i].params.pid), NEW k, s.flt[m].feed = k,
         NEW e \in StateSet, e.flt = [s.flt EXCEPT ![i] = ToHalt(ToLink(s.flt[i], k, Null))],
         e.dmx = SectionFeedStop(s.dmx, k), NEW tm \in {"off", "armed"}
  PROVE  Linked(Attached(e, i, k, tm))
  <1> DEFINE u == Attached(e, i, k, tm)
             f == s.flt[i]
             pid == f.params.pid
             g == ToHalt(ToLink(f, k, Null))
             d3 == AllocateFilter(e.dmx, k, i)
             d4 == SectionFeedStart(d3, k, {})
             j == d3.ret
             b == s.dmx.feed[k]
             L == s.dmx.feed_list
             same == Running(s, pid)
  <1>1. m \in Devs /\ Sec(s, m) /\ s.flt[m].params.pid = pid
    BY DEF Running, Sec
  <1>2. /\ k \in Feeds /\ b.state = DMX_GO /\ b.is_filtering /\ b.type = "SEC"
    <2>1. SecLink(s.dmx, m, s.flt[m].params.pid, s.flt[m].feed, s.flt[m].sec)
      BY <1>1, LinkedFacts
    <2> QED
      BY <2>1 DEF SecLink
  <1>3. f \in DevSet /\ s.flt \in [Devs -> DevSet] /\ s.dmx \in DemuxSet /\ e.dmx \in DemuxSet
    BY DevTypes
  <1>4. /\ g \in DevSet /\ g.state = SET /\ g.timer = "off" /\ g.type = "SEC" /\ g.params = f.params
        /\ g.feed = k
    <2> DEFINE g1 == ToLink(f, k, Null)
    <2>1. g1 \in DevSet /\ g1.type = "SEC" /\ g1.params = f.params /\ g1.feed = k
      BY <1>2, <1>3, LinkUpdates
    <2> HIDE DEF g1
    <2>2. /\ ToHalt(g1) \in DevSet /\ ToHalt(g1).state = SET /\ ToHalt(g1).timer = "off"
          /\ ToHalt(g1).type = g1.type /\ ToHalt(g1).params = g1.params /\ ToHalt(g1).feed = g1.feed
      BY <2>1, DevUpdates
    <2> QED
      BY <2>1, <2>2 DEF g1
  <1>5. e.flt[i] = g /\ \A n \in Devs \ {i} : e.flt[n] = s.flt[n]
    BY <1>3
  <1>6. b \in FeedSet
    BY <1>2, <1>3, FieldTypes
  <1>7. ButFeed(s.dmx, e.dmx, k, L) /\ e.dmx.feed[k] = Stopped(b)
    <2>1. Effect(s.dmx, e.dmx, [s.dmx.feed EXCEPT ![k] = Stopped(b)], s.dmx.filter, L, s.dmx.pesfilter)
      BY <1>2, <1>3, SectionStop
    <2>2. s.dmx.feed \in [Feeds -> FeedSet]
      BY <1>3, FieldTypes
    <2> QED
      BY <1>2, <2>1, <2>2 DEF ButFeed, Effect
  <1>8. ~Stopped(b).is_filtering /\ Stopped(b).filter = b.filter
    BY <1>6, FeedFields
  <1> HIDE DEF g
  <1>9. Running(e, e.flt[i].params.pid) = same /\ i \notin same
    <2>1. e.flt = [s.flt EXCEPT ![i] = g]
      BY DEF g
    <2>2. Running(e, pid) = same /\ i \notin same
      BY <1>4, <2>1, RunningOthers
    <2> QED
      BY <1>4, <1>5, <2>2
  <1>10. \A n \in same : n \in Devs \ {i} /\ Sec(s, n) /\ s.flt[n].feed = k
    <2>1. \A n \in same : n \in Devs /\ Sec(s, n) /\ s.flt[n].params.pid = pid
      BY DEF Running, Sec
    <2> QED
      BY <1>1, <1>9, <2>1 DEF Linked, ShareInv
  <1>11. \/ /\ d3 = Err(e.dmx)
            /\ \E n \in same : IsState(u, Err(SectionFeedStart(SectionFeedStart(d3, e.flt[n].feed, {}), k, {})),
                                       [e.flt EXCEPT ![n] = ToGo(e.flt[n])])
         \/ j \in Filters /\ d4.ret < 0
         \/ j \in Filters /\ IsState(u, d4, [e.flt EXCEPT ![i] = ToRun(g, j, tm)])
    <2>1. e.flt[i].feed = k /\ same # {}
      BY <1>4, <1>5
    <2> QED
      BY <1>2, <1>5, <1>9, <2>1, AttachCases
  <1> HIDE DEF u, f, d3, d4, j, L, b, same
  <1>12. ASSUME NEW n \in same, d3 = Err(e.dmx),
                IsState(u, Err(SectionFeedStart(SectionFeedStart(d3, e.flt[n].feed, {}), k, {})),
                        [e.flt EXCEPT ![n] = ToGo(e.flt[n])])
         PROVE  Linked(u)
    <2> DEFINE x2 == SectionFeedStart(d3, k, {})
               x3 == SectionFeedStart(x2, k, {})
    <2>1. n \in Devs \ {i} /\ Sec(s, n) /\ e.flt[n] = s.flt[n] /\ e.flt[n].feed = k
      BY <1>5, <1>10
    <2>2. ButFeed(s.dmx, d3, k, L) /\ d3.feed[k] = Stopped(b) /\ d3 \in DemuxSet
      <3>1. ButFeed(s.dmx, Err(e.dmx), k, L) /\ Err(e.dmx).feed[k] = e.dmx.feed[k]
        BY <1>2, <1>3, <1>7, ButFeedErr
      <3> QED
        BY <1>7, <1>12, <3>1 DEF ButFeed
    <2>3. Started(Stopped(b)) = b /\ b.filter # <<>>
      <3>1. b.filter # <<>>
        <4>1. DMX_GO # DMX_FREE
          BY StateNumbers
        <4> QED
          BY <1>2, <4>1 DEF Linked, ChainInv, b
      <3> QED
        BY <1>2, <1>6, <3>1, FeedFields
    <2>4. Effect(d3, x2, [d3.feed EXCEPT ![k] = Started(d3.feed[k])], d3.filter, d3.feed_list, d3.pesfilter)
      BY <1>2, <1>8, <2>2, <2>3, SectionStart
    <2> HIDE DEF x2
    <2>5. ButFeed(s.dmx, x2, k, L) /\ x2.feed[k] = b
      <3>1. d3.feed \in [Feeds -> FeedSet]
        BY <2>2, FieldTypes
      <3> QED
        BY <1>2, <2>2, <2>3, <2>4, <3>1 DEF ButFeed, Effect
    <2>6. x3 = Err(x2)
      <3>1. k # Null
        BY <1>2, Constants
      <3> QED
        BY <1>2, <2>5, <3>1 DEF SectionFeedStart
    <2>7. ButFeed(s.dmx, x3, k, L) /\ x3.feed[k] = b
      <3>1. ButFeed(s.dmx, Err(x2), k, L) /\ Err(x2).feed[k] = x2.feed[k]
        BY <1>2, <1>3, <2>5, ButFeedErr
      <3> QED
        BY <2>5, <2>6, <3>1
    <2>8. u \in StateSet /\ u.dmx = Err(x3) /\ u.flt = [e.flt EXCEPT ![n] = ToGo(s.flt[n])]
      BY <1>12, <2>1 DEF IsState, x2
    <2> HIDE DEF x3
    <2>9. ButFeed(s.dmx, u.dmx, k, L) /\ u.dmx.feed[k] = b
      <3>1. ButFeed(s.dmx, Err(x3), k, L) /\ Err(x3).feed[k] = x3.feed[k]
        BY <1>2, <1>3, <2>7, ButFeedErr
      <3> QED
        BY <2>7, <2>8, <3>1
    <2>10. u.flt[i] = g /\ \A l \in Devs \ {i} : u.flt[l] = s.flt[l] \/ (Sec(s, l) /\ u.flt[l] = ToGo(s.flt[l]))
      <3>1. e.flt \in [Devs -> DevSet]
        BY DevTypes
      <3> QED
        BY <1>5, <2>1, <2>8, <3>1
    <2>11. OthersKept(s, u, i)
      <3> SUFFICES ASSUME NEW l \in Devs \ {i} PROVE Like(s.flt[l], u.flt[l])
        BY DEF OthersKept
      <3>1. s.flt[l] \in DevSet
        BY <1>3
      <3> QED
        BY <2>10, <3>1, LikeGo DEF Sec
    <2>12. Idle(u.flt[i])
      BY <1>4, <2>10, IdleSec
    <2> QED
      BY <1>2, <2>8, <2>9, <2>11, <2>12, QuietOne DEF L, b
  <1>13. CASE j \in Filters
    <2> DEFINE c == <<j>> \o b.filter
               h == ToRun(g, j, tm)
    <2>1. ~(d4.ret < 0) /\ Joined(e.dmx, d4, k, i, j)
      <3>1. AllocateFilter(e.dmx, k, i).ret \in Filters /\ ~e.dmx.feed[k].is_filtering
        BY <1>7, <1>8, <1>13 DEF d3, j
      <3> QED
        BY <1>2, <1>3, <3>1, AttachDone DEF d4, d3, j
    <2>2. /\ d4 \in DemuxSet /\ e.dmx.filter[j].state = DMX_FREE
          /\ c \in Seq(Filters) /\ d4.feed[k] = Started(WithChain(Stopped(b), c))
          /\ \A n \in Feeds \ {k} : d4.feed[n] = e.dmx.feed[n]
          /\ d4.filter[j] = InUse(k, i) /\ \A n \in Filters \ {j} : d4.filter[n] = e.dmx.filter[n]
          /\ d4.feed_list = e.dmx.feed_list /\ d4.pesfilter = e.dmx.pesfilter /\ d4.oops = e.dmx.oops
      BY <1>7, <1>8, <2>1 DEF Joined
    <2>3. IsState(u, d4, [e.flt EXCEPT ![i] = h])
      <3>1. d3 # Err(e.dmx)
        <4>1. \A n \in Filters : n \in Int /\ n > 0
          BY Constants
        <4>2. Err(e.dmx).ret = -1
          BY <1>3, Results
        <4> QED
          BY <1>13, <4>1, <4>2 DEF j
      <3> QED
        BY <1>11, <2>1, <3>1
    <2>4. /\ h.state = GO /\ h.type = "SEC" /\ h.params = f.params /\ h.feed = k /\ h.sec = j
      BY <1>4, <1>13, LinkUpdates
    <2> HIDE DEF c, h
    <2>5. d4.feed[k] = WithChain(b, c)
      BY <1>2, <1>6, <2>2, FeedFields
    <2>6. /\ u \in StateSet /\ u.dmx = d4 /\ u.flt[i] = h /\ \A n \in Devs \ {i} : u.flt[n] = s.flt[n]
      <3>1. e.flt \in [Devs -> DevSet]
        BY DevTypes
      <3> QED
        BY <1>5, <2>3, <3>1 DEF IsState
    <2>7. OthersKept(s, u, i)
      BY <1>3, <2>6, LikeGo DEF OthersKept
    <2>8. Kept(s.dmx, u.dmx, k, j) /\ s.dmx.filter[j].state = DMX_FREE
      BY <1>7, <2>2, <2>6 DEF Kept, ButFeed
    <2>9. u.dmx.feed_list = s.dmx.feed_list /\ u.dmx.pesfilter = s.dmx.pesfilter
      BY <1>7, <2>2, <2>6 DEF ButFeed, L
    <2>10. Sec(u, i) /\ u.flt[i].feed = k /\ u.flt[i].sec = j /\ u.flt[i].params = f.params
      BY <2>4, <2>6 DEF Sec, GO
    <2>11. \E n \in Running(s, u.flt[i].params.pid) : s.flt[n].feed = k
      BY <2>10 DEF f
    <2>12. u.dmx.feed[k] = WithChain(s.dmx.feed[k], <<j>> \o s.dmx.feed[k].filter)
      BY <2>5, <2>6 DEF c, b
    <2>13. Grown(s, u, i, k, j)
      BY <1>2, <1>13, <2>2, <2>6, <2>7, <2>8, <2>9, <2>10, <2>11, <2>12 DEF Grown
    <2> QED
      BY <2>6, <2>13, GrownLinked DEF u
  <1> QED
    BY <1>11, <1>12, <1>13 DEF u

\* Starting a section filter keeps the links, whatever it is refused for.
LEMMA SecStartLinked ==
  ASSUME NEW s \in StateSet, Linked(s), NEW i \in Devs, s.flt[i].type = "SEC", s.flt[i].state < GO
  PROVE  Linked(SecFilterStart(s, i, {}))
  <1> DEFINE u == SecFilterStart(s, i, {})
             f == s.flt[i]
             pid == f.params.pid
             d1 == AllocateSectionFeed(s.dmx)
             k == d1.ret
             d2 == SectionFeedSet(d1, k, pid)
             tm == IF f.params.timed THEN "armed" ELSE "off"
             sh == Shared(s, i)
             L == s.dmx.feed_list
  <1>1. \/ sh = Null /\ IsState(u, Err(s.dmx), [s.flt EXCEPT ![i] = ToLink(f, Null, Null)])
        \/ /\ sh = Null /\ k \in Feeds
           /\ \E e : /\ IsState(e, d2, [s.flt EXCEPT ![i] = ToLink(f, k, Null)])
                     /\ \/ d2.ret < 0 /\ u = Fail(FeedRestart(e, i, {}))
                        \/ ~(d2.ret < 0) /\ u = Attached(e, i, k, tm)
        \/ /\ sh \in Feeds
           /\ \E e : /\ IsState(e, SectionFeedStop(s.dmx, sh), [s.flt EXCEPT ![i] = ToHalt(ToLink(f, sh, Null))])
                     /\ u = Attached(e, i, sh, tm)
    BY SecStartCases
  <1>2. /\ f \in DevSet /\ s.flt \in [Devs -> DevSet] /\ s.dmx \in DemuxSet /\ tm \in {"off", "armed"}
    BY DevTypes
  <1>3. pid \in Nat \cup {NoPid}
    <2>1. f.params \in ParamSet
      BY DevTypes
    <2> QED
      BY <2>1 DEF ParamSet
  <1>4. ASSUME NEW m \in Running(s, pid) PROVE s.flt[m].feed \in Feeds
    <2>1. m \in Devs /\ Sec(s, m)
      BY <1>4 DEF Running, Sec
    <2>2. SecLink(s.dmx, m, s.flt[m].params.pid, s.flt[m].feed, s.flt[m].sec)
      BY <2>1, LinkedFacts
    <2> QED
      BY <2>2 DEF SecLink
  <1>5. sh = Null => Running(s, pid) = {}
    <2>1. Null \notin Feeds
      BY Constants
    <2> QED
      BY <1>4, <2>1, SharedType
  <1>6. sh \in Feeds => \E m \in Running(s, pid) : s.flt[m].feed = sh
    <2>1. Running(s, pid) = {} => sh = Null
      BY DEF Shared
    <2>2. Null \notin Feeds
      BY Constants
    <2> QED
      BY <2>1, <2>2, SharedType
  <1> HIDE DEF u, sh, tm
  <1>7. CASE sh = Null /\ IsState(u, Err(s.dmx), [s.flt EXCEPT ![i] = ToLink(f, Null, Null)])
    <2> DEFINE g == ToLink(f, Null, Null)
    <2>1. g.state = f.state /\ g.timer = f.timer /\ g.type = "SEC"
      BY <1>2 DEF ToLink, DevSet
    <2>2. u \in StateSet /\ u.dmx = Err(s.dmx) /\ u.flt[i] = g /\ \A n \in Devs \ {i} : u.flt[n] = s.flt[n]
      BY <1>2, <1>7 DEF IsState
    <2> HIDE DEF g
    <2>3. OthersKept(s, u, i)
      BY <1>2, <2>2, LikeGo DEF OthersKept
    <2>4. Idle(u.flt[i])
      BY <2>1, <2>2, IdleSec
    <2> QED
      BY <2>2, <2>3, <2>4, QuietDevice DEF u
  <1>8. CASE /\ sh = Null /\ k \in Feeds
             /\ \E e : /\ IsState(e, d2, [s.flt EXCEPT ![i] = ToLink(f, k, Null)])
                       /\ \/ d2.ret < 0 /\ u = Fail(FeedRestart(e, i, {}))
                          \/ ~(d2.ret < 0) /\ u = Attached(e, i, k, tm)
    <2> DEFINE b == Fresh(s.dmx.feed[k], DMX_ALLOCATED, "SEC", <<>>)
               g == ToLink(f, k, Null)
    <2>1. s.dmx.feed[k] \in FeedSet /\ s.dmx.feed \in [Feeds -> FeedSet]
      BY <1>2, <1>8, FieldTypes
    <2>2. /\ s.dmx.feed[k].state = DMX_FREE
          /\ Effect(s.dmx, d1, [s.dmx.feed EXCEPT ![k] = b], s.dmx.filter, L, s.dmx.pesfilter)
      <3>1. Err(s.dmx).ret \notin Feeds
        <4>1. \A n \in Feeds : n \in Int /\ n > 0
          BY Constants
        <4>2. Err(s.dmx).ret = -1
          BY <1>2, Results
        <4> QED
          BY <4>1, <4>2
      <3> QED
        BY <1>2, <1>8, <3>1, SectionAllocate
    <2>3. /\ b \in FeedSet /\ b.state = DMX_ALLOCATED /\ b.type = "SEC" /\ b.filter = <<>> /\ ~b.is_filtering
      <3>1. <<>> \in Seq(Filters)
        OBVIOUS
      <3> QED
        BY <2>1, <3>1 DEF Fresh, FeedSet
    <2>4. \/ d2 = Err(d1)
          \/ /\ d2.ret = 0
             /\ Effect(d1, d2, [d1.feed EXCEPT ![k] = WithPid(d1.feed[k], pid)],
                       d1.filter, d1.feed_list \cup {k}, d1.pesfilter)
      <3>1. d1 \in DemuxSet /\ k \in Feeds
        BY <1>8, <2>2 DEF Effect
      <3> HIDE DEF d1
      <3> QED
        BY <1>3, <3>1, SectionSet
    <2>5. k \notin L
      BY <1>8, <2>2 DEF Linked, ListInv
    <2>6. g.state = f.state /\ g.timer = f.timer /\ g.type = "SEC" /\ g.params = f.params /\ g.feed = k
      BY <1>2 DEF ToLink, DevSet
    <2>7. PICK e : /\ IsState(e, d2, [s.flt EXCEPT ![i] = g])
                   /\ \/ d2.ret < 0 /\ u = Fail(FeedRestart(e, i, {}))
                      \/ ~(d2.ret < 0) /\ u = Attached(e, i, k, tm)
      BY <1>8
    <2> HIDE DEF g, b, d1, d2, k
    <2>8. ButFeed(s.dmx, d1, k, L) /\ d1.feed[k] = b /\ d1 \in DemuxSet
      BY <1>8, <2>1, <2>2 DEF ButFeed, Effect
    <2>9. /\ e \in StateSet /\ e.dmx = d2 /\ e.flt = [s.flt EXCEPT ![i] = g]
          /\ e.flt[i] = g /\ \A n \in Devs \ {i} : e.flt[n] = s.flt[n]
      BY <1>2, <2>7 DEF IsState
    <2>10. CASE d2 = Err(d1)
      <3>1. d2.ret = -1
        BY <2>8, <2>10, Results
      <3>2. u = Fail(FeedRestart(e, i, {}))
        BY <2>7, <3>1
      <3>3. ButFeed(s.dmx, d2, k, L) /\ d2.feed[k] = b /\ d2 \in DemuxSet
        <4>1. ButFeed(s.dmx, Err(d1), k, L) /\ Err(d1).feed[k] = d1.feed[k]
          BY <1>2, <1>8, <2>8, ButFeedErr
        <4> QED
          BY <2>8, <2>10, <4>1 DEF ButFeed
      <3>4. Running(e, e.flt[i].params.pid) = {}
        <4>1. Running(e, pid) = Running(s, pid)
          BY <2>6, <2>9, RunningOthers
        <4> QED
          BY <1>5, <1>8, <2>6, <2>9, <4>1
      <3> DEFINE r == FeedRestart(e, i, {})
                 x == ReleaseSectionFeed(d2, k)
      <3>5. IsState(r, x, e.flt)
        BY <1>8, <2>6, <2>9, <3>4, FeedRestartFacts
      <3>6. Effect(d2, x, [d2.feed EXCEPT ![k] = Freed(b)], d2.filter, d2.feed_list \ {k}, d2.pesfilter)
        BY <1>8, <2>3, <3>3, SectionRelease, StateNumbers
      <3> HIDE DEF r, x
      <3>7. r \in StateSet /\ r.dmx = x /\ r.flt = e.flt
        BY <3>5 DEF IsState
      <3>8. IsState(u, Err(x), e.flt)
        BY <3>2, <3>7, FailFacts DEF r
      <3>9. ButFeed(s.dmx, x, k, L) /\ x.feed[k] = Freed(b)
        <4>1. d2.feed \in [Feeds -> FeedSet]
          BY <3>3, FieldTypes
        <4> QED
          BY <1>8, <2>5, <3>3, <3>6, <4>1 DEF ButFeed, Effect
      <3>10. ButFeed(s.dmx, u.dmx, k, L) /\ u.dmx.feed[k].state = DMX_FREE
        <4>1. ButFeed(s.dmx, Err(x), k, L) /\ Err(x).feed[k] = x.feed[k]
          BY <1>2, <1>8, <3>9, ButFeedErr
        <4>2. Freed(b).state = DMX_FREE
          BY <2>3, FeedFields
        <4> QED
          BY <3>8, <3>9, <4>1, <4>2 DEF IsState
      <3>11. u \in StateSet /\ u.flt[i] = g /\ \A n \in Devs \ {i} : u.flt[n] = s.flt[n]
        BY <2>9, <3>8 DEF IsState
      <3>12. OthersKept(s, u, i)
        BY <1>2, <3>11, LikeGo DEF OthersKept
      <3>13. Idle(u.flt[i])
        BY <2>6, <3>11, IdleSec
      <3> QED
        BY <1>8, <2>2, <3>10, <3>11, <3>12, <3>13, QuietOne DEF u
    <2>11. CASE /\ d2.ret = 0
                /\ Effect(d1, d2, [d1.feed EXCEPT ![k] = WithPid(d1.feed[k], pid)],
                          d1.filter, d1.feed_list \cup {k}, d1.pesfilter)
      <3>1. u = Attached(e, i, k, tm)
        BY <2>7, <2>11
      <3> DEFINE w == WithPid(b, pid)
      <3>2. ButFeed(s.dmx, e.dmx, k, L \cup {k}) /\ e.dmx.feed[k] = w
        <4>1. d1.feed \in [Feeds -> FeedSet]
          BY <2>8, FieldTypes
        <4> QED
          BY <1>8, <2>8, <2>9, <2>11, <4>1 DEF ButFeed, Effect
      <3>3. w.state = DMX_READY /\ w.type = "SEC" /\ w.filter = <<>> /\ ~w.is_filtering /\ w.pid = pid
        BY <2>3 DEF WithPid, FeedSet
      <3> HIDE DEF w
      <3>4. Running(s, pid) = {} /\ DMX_READY # DMX_FREE
        BY <1>5, <1>8, StateNumbers
      <3>5. /\ e.dmx.feed[k].state # DMX_FREE /\ e.dmx.feed[k].type = "SEC" /\ e.dmx.feed[k].filter = <<>>
            /\ ~e.dmx.feed[k].is_filtering /\ e.dmx.feed[k].pid = s.flt[i].params.pid
        BY <3>2, <3>3, <3>4
      <3>6. e.flt = [s.flt EXCEPT ![i] = ToLink(s.flt[i], k, Null)]
        BY <2>9 DEF g
      <3>7. /\ k \in Feeds /\ s.dmx.feed[k].state = DMX_FREE /\ Running(s, s.flt[i].params.pid) = {}
            /\ e \in StateSet /\ ButFeed(s.dmx, e.dmx, k, s.dmx.feed_list \cup {k})
        BY <1>8, <2>2, <2>9, <3>2, <3>4
      <3> HIDE DEF f, pid, L
      <3>8. Linked(Attached(e, i, k, tm))
        BY <1>2, <3>5, <3>6, <3>7, AttachNew
      <3> QED
        BY <3>1, <3>8 DEF u
    <2> QED
      BY <2>4, <2>10, <2>11
  <1>9. CASE /\ sh \in Feeds
             /\ \E e : /\ IsState(e, SectionFeedStop(s.dmx, sh), [s.flt EXCEPT ![i] = ToHalt(ToLink(f, sh, Null))])
                       /\ u = Attached(e, i, sh, tm)
    <2>1. PICK m \in Running(s, pid) : s.flt[m].feed = sh
      BY <1>6, <1>9
    <2>2. PICK e : /\ IsState(e, SectionFeedStop(s.dmx, sh), [s.flt EXCEPT ![i] = ToHalt(ToLink(f, sh, Null))])
                   /\ u = Attached(e, i, sh, tm)
      BY <1>9
    <2>3. e \in StateSet /\ e.dmx = SectionFeedStop(s.dmx, sh) /\ e.flt = [s.flt EXCEPT ![i] = ToHalt(ToLink(f, sh, Null))]
      BY <2>2 DEF IsState
    <2> QED
      BY <1>2, <2>1, <2>2, <2>3, AttachShared DEF u
  <1> QED
    BY <1>1, <1>7, <1>8, <1>9

-----------------------------------------------------------------------------
(* Starting a PES filter.                                                  *)

\* The one PID of the list, with feed x.
Entry(l, x) == <<[l[1] EXCEPT !.ts = x]>>

LEMMA EntryFacts ==
  ASSUME NEW l \in Seq(EntrySet), Len(l) = 1, NEW x \in Feeds \cup {Null}
  PROVE  /\ [l EXCEPT ![1].ts = x] = Entry(l, x) /\ Entry(l, x) \in Seq(EntrySet) /\ Len(Entry(l, x)) = 1
         /\ Entry(l, x)[1].ts = x /\ Entry(l, x)[1].pid = l[1].pid
         /\ l[1] \in EntrySet /\ l[1].pid \in Nat /\ DOMAIN l = {1}
  <1> DEFINE e == [l[1] EXCEPT !.ts = x]
  <1>1. l[1] \in EntrySet /\ DOMAIN l = {1} /\ l = <<l[1]>>
    OBVIOUS
  <1>2. e \in EntrySet /\ e.ts = x /\ e.pid = l[1].pid
    BY <1>1 DEF EntrySet
  <1>3. l[1].pid \in Nat
    BY <1>1, DmxdevAssumption DEF EntrySet
  <1>4. [l EXCEPT ![1].ts = x] = [l EXCEPT ![1] = e]
    OBVIOUS
  <1> HIDE DEF e
  <1>5. [l EXCEPT ![1] = e] = <<e>>
    <2>1. [l EXCEPT ![1] = e] = [n \in {1} |-> e]
      BY <1>1
    <2>2. <<e>> = [n \in {1} |-> e]
      OBVIOUS
    <2> QED
      BY <2>1, <2>2
  <1>6. <<e>> \in Seq(EntrySet) /\ Len(<<e>>) = 1 /\ <<e>>[1] = e
    BY <1>2
  <1>7. Entry(l, x) = <<e>>
    BY DEF Entry, e
  <1> QED
    BY <1>1, <1>2, <1>3, <1>4, <1>5, <1>6, <1>7

\* The demux once filter i has asked for its feed: d1, set: d2, started: d3.
TsD1(s, i) == AllocateTsFeed(Ok(s.dmx), i)
TsD2(s, i) == TsFeedSet(TsD1(s, i), TsD1(s, i).ret, s.flt[i].ts[1].pid, s.flt[i].params.pes)
TsD3(s, i) == IF TsD2(s, i).ret < 0 THEN TsD2(s, i) ELSE TsFeedStart(TsD2(s, i), TsD1(s, i).ret, {})

\* What is allocated: nothing; a feed, which is not kept; a feed k and its filter j.
LEMMA TsD1Cases ==
  ASSUME NEW s \in StateSet, NEW i \in Devs
  PROVE  LET d == s.dmx
             r == TsD1(s, i)
         IN  /\ r \in DemuxSet /\ (r.ret < 0 \/ r.ret \in Feeds)
             /\ r.ret < 0 =>
                  \/ r.feed = d.feed /\ r.filter = d.filter /\ r.feed_list = d.feed_list
                     /\ r.pesfilter = d.pesfilter /\ r.oops = d.oops
                  \/ \E k \in Feeds : d.feed[k].state = DMX_FREE /\ ButFeed(d, r, k, d.feed_list)
                                      /\ r.feed[k].state = DMX_FREE
             /\ r.ret \in Feeds =>
                  /\ d.feed[r.ret].state = DMX_FREE
                  /\ \E j \in Filters :
                       /\ d.filter[j].state = DMX_FREE
                       /\ r.feed[r.ret] = Fresh(d.feed[r.ret], DMX_ALLOCATED, "TS", <<j>>)
                       /\ \A m \in Feeds \ {r.ret} : r.feed[m] = d.feed[m]
                       /\ r.filter[j] = InUse(r.ret, i) /\ \A m \in Filters \ {j} : r.filter[m] = d.filter[m]
                       /\ r.feed_list = d.feed_list /\ r.pesfilter = d.pesfilter /\ r.oops = d.oops
  <1> DEFINE d == s.dmx
             d0 == Ok(d)
             r == TsD1(s, i)
  <1>1. d \in DemuxSet
    BY DevTypes
  <1>2. /\ d0 \in DemuxSet /\ d0.feed = d.feed /\ d0.filter = d.filter /\ d0.feed_list = d.feed_list
        /\ d0.pesfilter = d.pesfilter /\ d0.oops = d.oops
    BY <1>1, Results DEF Effect
  <1>3. r = AllocateTsFeed(d0, i)
    BY DEF TsD1
  <1> HIDE DEF d, d0, r
  <1>4. d.feed \in [Feeds -> FeedSet] /\ d.filter \in [Filters -> SlotSet]
    BY <1>1, FieldTypes
  <1>5. \A n \in Feeds : n \in Int /\ n > 0 /\ ~(n < 0)
    BY Constants
  <1>6. \/ r = Err(d0)
        \/ /\ r.ret = -1
           /\ \E k \in Feeds :
                /\ d0.feed[k].state = DMX_FREE
                /\ Effect(d0, r, [d0.feed EXCEPT ![k] = Fresh(d0.feed[k], DMX_FREE, "TS", <<>>)],
                          d0.filter, d0.feed_list, d0.pesfilter)
        \/ /\ r.ret \in Feeds /\ d0.feed[r.ret].state = DMX_FREE
           /\ \E j \in Filters :
                /\ d0.filter[j].state = DMX_FREE
                /\ Effect(d0, r, [d0.feed EXCEPT ![r.ret] = Fresh(d0.feed[r.ret], DMX_ALLOCATED, "TS", <<j>>)],
                          [d0.filter EXCEPT ![j] = InUse(r.ret, i)], d0.feed_list, d0.pesfilter)
    BY <1>2, <1>3, TsAllocate
  <1>7. CASE r = Err(d0)
    <2>1. Effect(d0, r, d0.feed, d0.filter, d0.feed_list, d0.pesfilter) /\ r.ret = -1
      BY <1>2, <1>7, Results
    <2>2. r.ret < 0 /\ r.ret \notin Feeds
      BY <1>5, <2>1
    <2> QED
      BY <1>2, <2>1, <2>2 DEF Effect, r, d
  <1>8. CASE /\ r.ret = -1
             /\ \E k \in Feeds :
                  /\ d0.feed[k].state = DMX_FREE
                  /\ Effect(d0, r, [d0.feed EXCEPT ![k] = Fresh(d0.feed[k], DMX_FREE, "TS", <<>>)],
                            d0.filter, d0.feed_list, d0.pesfilter)
    <2>1. PICK k \in Feeds :
            /\ d.feed[k].state = DMX_FREE
            /\ Effect(d0, r, [d.feed EXCEPT ![k] = Fresh(d.feed[k], DMX_FREE, "TS", <<>>)],
                      d.filter, d.feed_list, d.pesfilter)
      BY <1>2, <1>8
    <2>2. d.feed[k] \in FeedSet
      BY <1>4
    <2>3. Fresh(d.feed[k], DMX_FREE, "TS", <<>>).state = DMX_FREE
      BY <2>2 DEF Fresh, FeedSet
    <2>4. r \in DemuxSet /\ ButFeed(d, r, k, d.feed_list) /\ r.feed[k].state = DMX_FREE
      BY <1>2, <1>4, <2>1, <2>3 DEF Effect, ButFeed
    <2>5. r.ret < 0 /\ r.ret \notin Feeds
      BY <1>5, <1>8
    <2> QED
      BY <2>1, <2>4, <2>5 DEF r, d
  <1>9. CASE /\ r.ret \in Feeds /\ d0.feed[r.ret].state = DMX_FREE
             /\ \E j \in Filters :
                  /\ d0.filter[j].state = DMX_FREE
                  /\ Effect(d0, r, [d0.feed EXCEPT ![r.ret] = Fresh(d0.feed[r.ret], DMX_ALLOCATED, "TS", <<j>>)],
                            [d0.filter EXCEPT ![j] = InUse(r.ret, i)], d0.feed_list, d0.pesfilter)
    <2>1. PICK j \in Filters :
            /\ d.filter[j].state = DMX_FREE
            /\ Effect(d0, r, [d.feed EXCEPT ![r.ret] = Fresh(d.feed[r.ret], DMX_ALLOCATED, "TS", <<j>>)],
                      [d.filter EXCEPT ![j] = InUse(r.ret, i)], d.feed_list, d.pesfilter)
      BY <1>2, <1>9
    <2>2. /\ r \in DemuxSet /\ r.feed[r.ret] = Fresh(d.feed[r.ret], DMX_ALLOCATED, "TS", <<j>>)
          /\ \A m \in Feeds \ {r.ret} : r.feed[m] = d.feed[m]
          /\ r.filter[j] = InUse(r.ret, i) /\ \A m \in Filters \ {j} : r.filter[m] = d.filter[m]
          /\ r.feed_list = d.feed_list /\ r.pesfilter = d.pesfilter /\ r.oops = d.oops
      BY <1>2, <1>4, <1>9, <2>1 DEF Effect
    <2>3. ~(r.ret < 0) /\ d.feed[r.ret].state = DMX_FREE
      BY <1>2, <1>5, <1>9
    <2> QED
      BY <1>9, <2>1, <2>2, <2>3 DEF r, d
  <1> QED
    BY <1>6, <1>7, <1>8, <1>9

\* The feed is set and runs, or is refused.
LEMMA TsD3Cases ==
  ASSUME NEW s \in StateSet, NEW i \in Devs, s.flt[i].type = "PES", Len(s.flt[i].ts) = 1, TsD1(s, i).ret \in Feeds
  PROVE  LET d1 == TsD1(s, i)
             d3 == TsD3(s, i)
             k == d1.ret
             pid == s.flt[i].ts[1].pid
             pes == s.flt[i].params.pes
         IN  \/ d3 = Err(d1) /\ d3.ret < 0
             \/ /\ d3.ret = 0 /\ d3 \in DemuxSet
                /\ d3.feed[k] = Started(TsSet(d1.feed[k], pid, pes))
                /\ \A m \in Feeds \ {k} : d3.feed[m] = d1.feed[m]
                /\ d3.filter = d1.filter /\ d3.feed_list = d1.feed_list \cup {k} /\ d3.oops = d1.oops
                /\ \A p \in PesTypes : d3.pesfilter[p] = d1.pesfilter[p] \/ (d3.pesfilter[p] = k /\ p = pes)
  <1> DEFINE d1 == TsD1(s, i)
             d2 == TsD2(s, i)
             d3 == TsD3(s, i)
             k == d1.ret
             pid == s.flt[i].ts[1].pid
             pes == s.flt[i].params.pes
             b == TsSet(d1.feed[k], pid, pes)
  <1>1. d1 \in DemuxSet
    BY TsD1Cases
  <1>2. pid \in Nat /\ pes \in PesTypes \cup {Other}
    <2>1. s.flt[i].ts \in Seq(EntrySet) /\ s.flt[i].params \in ParamSet
      BY DevTypes
    <2>2. pid \in Nat
      <3>1. Null \in Feeds \cup {Null}
        OBVIOUS
      <3> QED
        BY <2>1, <3>1, EntryFacts
    <2>3. pes \in PesTypes \cup {Other}
      BY <2>1 DEF ParamSet
    <2> QED
      BY <2>2, <2>3
  <1>3. d2 = TsFeedSet(d1, k, pid, pes)
    BY DEF TsD2
  <1>4. d3 = IF d2.ret < 0 THEN d2 ELSE TsFeedStart(d2, k, {})
    BY DEF TsD3
  <1>5. k \in Feeds
    OBVIOUS
  <1> HIDE DEF d1, d2, d3, pid, pes, b, k
  <1>6. \/ d2 = Err(d1)
        \/ /\ d2.ret = 0
           /\ \E P : /\ Effect(d1, d2, [d1.feed EXCEPT ![k] = TsSet(d1.feed[k], pid, pes)],
                               d1.filter, d1.feed_list \cup {k}, P)
                     /\ \A p \in PesTypes : P[p] = d1.pesfilter[p] \/ (P[p] = k /\ p = pes)
    <2>1. TsSets(d1, TsFeedSet(d1, k, pid, pes), k, pid, pes)
      BY <1>1, <1>2, <1>5, TsFeedSetFacts
    <2> QED
      BY <1>3, <2>1 DEF TsSets
  <1>7. CASE d2 = Err(d1)
    <2>1. d2.ret < 0
      BY <1>1, <1>7, Results
    <2> QED
      BY <1>4, <1>7, <2>1 DEF d1, d3
  <1>8. ASSUME d2.ret = 0, NEW P,
               Effect(d1, d2, [d1.feed EXCEPT ![k] = TsSet(d1.feed[k], pid, pes)], d1.filter, d1.feed_list \cup {k}, P),
               \A p \in PesTypes : P[p] = d1.pesfilter[p] \/ (P[p] = k /\ p = pes)
        PROVE  /\ d3.ret = 0 /\ d3 \in DemuxSet
               /\ d3.feed[k] = Started(b)
               /\ \A m \in Feeds \ {k} : d3.feed[m] = d1.feed[m]
               /\ d3.filter = d1.filter /\ d3.feed_list = d1.feed_list \cup {k} /\ d3.oops = d1.oops
               /\ \A p \in PesTypes : d3.pesfilter[p] = d1.pesfilter[p] \/ (d3.pesfilter[p] = k /\ p = pes)
    <2>1. d1.feed \in [Feeds -> FeedSet] /\ d1.feed[k] \in FeedSet
      BY <1>1, <1>5, FieldTypes
    <2>2. /\ d2 \in DemuxSet /\ d2.feed[k] = b /\ \A m \in Feeds \ {k} : d2.feed[m] = d1.feed[m]
          /\ d2.filter = d1.filter /\ d2.feed_list = d1.feed_list \cup {k} /\ d2.oops = d1.oops /\ d2.pesfilter = P
      BY <1>5, <1>8, <2>1 DEF Effect, b
    <2>3. b.state = DMX_READY /\ b.type = d1.feed[k].type
      BY <2>1 DEF b, TsSet, FeedSet
    <2>4. d1.feed[k].type = "TS"
      <3>1. PICK j \in Filters : d1.feed[k] = Fresh(s.dmx.feed[k], DMX_ALLOCATED, "TS", <<j>>)
        BY TsD1Cases DEF d1, k
      <3>2. s.dmx.feed[k] \in FeedSet
        BY <1>5, DevTypes, FieldTypes
      <3> QED
        BY <3>1, <3>2 DEF Fresh, FeedSet
    <2>5. d3 = TsFeedStart(d2, k, {})
      BY <1>4, <1>8
    <2>6. /\ Effect(d2, d3, [d2.feed EXCEPT ![k] = Started(d2.feed[k])], d2.filter, d2.feed_list, d2.pesfilter)
          /\ d3.ret = 0
      BY <1>5, <2>2, <2>3, <2>4, <2>5, TsStart
    <2>7. d2.feed \in [Feeds -> FeedSet]
      BY <2>2, FieldTypes
    <2> QED
      BY <1>5, <1>8, <2>2, <2>6, <2>7 DEF Effect
  <1>9. CASE /\ d2.ret = 0
             /\ \E P : /\ Effect(d1, d2, [d1.feed EXCEPT ![k] = TsSet(d1.feed[k], pid, pes)],
                                 d1.filter, d1.feed_list \cup {k}, P)
                       /\ \A p \in PesTypes : P[p] = d1.pesfilter[p] \/ (P[p] = k /\ p = pes)
    BY <1>8, <1>9 DEF d1, d3, k, pid, pes, b
  <1> QED
    BY <1>6, <1>7, <1>9

\* Where feed->ts points when nothing could be allocated.
Pointed(s) == FirstFree(s.dmx.feed)

LEMMA PointedType ==
  ASSUME NEW s \in StateSet
  PROVE  Pointed(s) \in Feeds \cup {Null}
  <1>1. s.dmx \in DemuxSet
    BY DEF StateSet
  <1>2. s.dmx.feed \in [Feeds -> FeedSet]
    BY <1>1, FieldTypes
  <1>3. DOMAIN s.dmx.feed = 1 .. FeedNum /\ FeedNum \in Nat
    BY <1>2, Constants DEF Feeds
  <1> QED
    BY <1>3, FirstFreeFacts DEF Pointed, Feeds

\* dvb_dmxdev_filter_start for a PES filter: no feed; a feed that is refused; a feed that runs.
LEMMA PesStartCases ==
  ASSUME NEW s \in StateSet, NEW i \in Devs, s.flt[i].type = "PES", Len(s.flt[i].ts) = 1, s.flt[i].state < GO
  PROVE  LET u == PesFilterStart(s, i, {})
             f == s.flt[i]
             d1 == TsD1(s, i)
             k == d1.ret
             d3 == TsD3(s, i)
         IN  \/ k < 0 /\ IsState(u, Err(d1), [s.flt EXCEPT ![i] = ToTs(f, Entry(f.ts, Pointed(s)))])
             \/ /\ k \in Feeds /\ d3.ret < 0
                /\ IsState(u, Err(Err(ReleaseTsFeed(d3, k))), [s.flt EXCEPT ![i] = ToTs(f, Entry(f.ts, k))])
             \/ /\ k \in Feeds /\ d3.ret = 0
                /\ IsState(u, d3, [s.flt EXCEPT ![i] = ToGo(ToTs(f, Entry(f.ts, k)))])
  <1> DEFINE u == PesFilterStart(s, i, {})
             f == s.flt[i]
             d1 == TsD1(s, i)
             k == d1.ret
             d3 == TsD3(s, i)
             s1 == [s EXCEPT !.dmx = Ok(@)]
             t == StartFeeds(s, i, {})
             y(x, D) == [s1 EXCEPT !.dmx = D, !.flt[i].ts[1].ts = x]
  <1>1. s.dmx \in DemuxSet /\ f \in DevSet /\ s.flt \in [Devs -> DevSet] /\ f.ts \in Seq(EntrySet)
        /\ f.type = "PES" /\ Len(f.ts) = 1 /\ f.state < GO /\ f.state \in Int
    BY DevTypes
  <1>2. Ok(s.dmx) \in DemuxSet /\ Ok(s.dmx).ret = 0
    BY <1>1, Results DEF Effect
  <1>3. IsState(s1, Ok(s.dmx), s.flt)
    BY <1>1, <1>2, MakeFacts
  <1>4. s1 \in StateSet /\ s1.dmx = Ok(s.dmx) /\ s1.flt = s.flt
    BY <1>3 DEF IsState
  <1>5. DOMAIN f.ts = {1}
    <2>1. Null \in Feeds \cup {Null}
      OBVIOUS
    <2> QED
      BY <1>1, <2>1, EntryFacts
  <1>6. t = StartFeed(s1, i, 1, {})
    <2>1. t = IF s1.dmx.ret < 0 THEN s1 ELSE StartFeed(s1, i, 1, {})
      BY <1>5, StartOne
    <2>2. ~(s1.dmx.ret < 0)
      BY <1>2, <1>4
    <2> QED
      BY <2>1, <2>2
  <1> HIDE DEF s1
  <1>7. t = CASE k < 0 -> y(Pointed(s), d1)
              [] k >= 0 /\ d3.ret < 0 -> y(k, Err(ReleaseTsFeed(d3, k)))
              [] OTHER -> y(k, d3)
    <2>1. FirstFree(s1.dmx.feed) = Pointed(s)
      <3>1. Ok(s.dmx).feed = s.dmx.feed
        BY <1>1, Results DEF Effect
      <3> QED
        BY <1>4, <3>1 DEF Pointed
    <2> QED
      BY <1>4, <1>6, <2>1 DEF StartFeed, TsD1, TsD2, TsD3
  <1>8. u = IF t.dmx.ret < 0 THEN Fail(FilterStop(t, i, {})) ELSE [t EXCEPT !.flt[i].state = GO]
    BY DEF PesFilterStart
  <1>9. d1 \in DemuxSet /\ (k < 0 \/ k \in Feeds)
    BY TsD1Cases
  <1>10. \A n \in Feeds : n \in Int /\ n >= 0 /\ ~(n < 0)
    BY Constants
  <1>11. k \in Feeds => \/ d3 = Err(d1) /\ d3.ret < 0
                        \/ d3.ret = 0 /\ d3 \in DemuxSet
    BY <1>1, TsD3Cases
  <1>12. k \in Feeds => d3 \in DemuxSet /\ d3.ret \in Int
    <2>1. Err(d1) \in DemuxSet
      BY <1>9, Results DEF Effect
    <2>2. \A d \in DemuxSet : d.ret \in Int
      BY FieldTypes
    <2> QED
      BY <1>11, <2>1, <2>2
  <1> HIDE DEF u, f, d1, k, d3, t
  <1>13. ASSUME NEW x \in Feeds \cup {Null}, NEW D \in DemuxSet
         PROVE  /\ IsState(y(x, D), D, [s.flt EXCEPT ![i] = ToTs(f, Entry(f.ts, x))])
                /\ y(x, D).flt[i].state = f.state /\ y(x, D).flt[i].type = "PES"
                /\ y(x, D).dmx = D /\ y(x, D) \in StateSet
                /\ ToTs(f, Entry(f.ts, x)) \in DevSet
    <2>1. Entry(f.ts, x) \in Seq(EntrySet) /\ [f.ts EXCEPT ![1].ts = x] = Entry(f.ts, x)
      BY <1>1, EntryFacts
    <2> DEFINE g == ToTs(f, Entry(f.ts, x))
    <2>2. g \in DevSet /\ g.state = f.state /\ g.type = f.type
      BY <1>1, <2>1, ToTsFacts
    <2> DEFINE z == y(x, D)
    <2>3. z = Make(s1, D, i, g)
      <3>1. z = Make(s1, D, i, [s1.flt[i] EXCEPT !.ts = [s1.flt[i].ts EXCEPT ![1].ts = x]])
        BY <1>4 DEF Make, StateSet
      <3>2. s1.flt[i] = f
        BY <1>4 DEF f
      <3> QED
        BY <2>1, <3>1, <3>2 DEF ToTs
    <2> HIDE DEF g, y
    <2>4. IsState(z, D, [s1.flt EXCEPT ![i] = g])
      BY <1>4, <2>2, <2>3, MakeFacts
    <2>5. IsState(z, D, [s.flt EXCEPT ![i] = g])
      BY <1>4, <2>4
    <2>6. z.flt[i] = g
      BY <1>1, <2>5 DEF IsState
    <2> QED
      BY <1>1, <2>2, <2>5, <2>6 DEF IsState, g
  <1> HIDE DEF y
  <1>14. ASSUME t.dmx.ret < 0, t \in StateSet, t.flt[i].state = f.state, t.flt[i].type = "PES"
         PROVE  IsState(u, Err(t.dmx), t.flt)
    <2>1. ~(t.flt[i].state >= GO) /\ t.flt[i].state < GO
      BY <1>1, <1>14 DEF GO
    <2>2. FilterStop(t, i, {}) = t
      BY <1>14, <2>1, FilterStopOther DEF Sec, Pes
    <2>3. u = Fail(t)
      BY <1>8, <1>14, <2>2
    <2> QED
      BY <1>14, <2>3, FailFacts
  <1>15. CASE k < 0
    <2>1. t = y(Pointed(s), d1) /\ Pointed(s) \in Feeds \cup {Null}
      <3>1. ~(k >= 0)
        BY <1>9, <1>15, FieldTypes DEF k
      <3> QED
        BY <1>7, <1>15, <3>1, PointedType
    <2>2. /\ IsState(t, d1, [s.flt EXCEPT ![i] = ToTs(f, Entry(f.ts, Pointed(s)))])
          /\ t.flt[i].state = f.state /\ t.flt[i].type = "PES" /\ t.dmx = d1 /\ t \in StateSet
      BY <1>9, <1>13, <2>1
    <2>3. t.dmx.ret < 0 /\ t.flt = [s.flt EXCEPT ![i] = ToTs(f, Entry(f.ts, Pointed(s)))]
      BY <1>15, <2>2 DEF IsState, k
    <2>4. IsState(u, Err(d1), [s.flt EXCEPT ![i] = ToTs(f, Entry(f.ts, Pointed(s)))])
      BY <1>14, <2>2, <2>3
    <2> QED
      BY <1>15, <2>4 DEF u, d1, k, f
  <1>16. CASE k \in Feeds /\ d3.ret < 0
    <2> DEFINE D == Err(ReleaseTsFeed(d3, k))
    <2>1. t = y(k, D)
      BY <1>7, <1>10, <1>16
    <2>2. D \in DemuxSet /\ D.ret < 0
      <3>1. ReleaseTsFeed(d3, k) \in DemuxSet
        BY <1>12, <1>16, TsReleaseType
      <3> QED
        BY <3>1, Results DEF Effect
    <2> HIDE DEF D
    <2>4. /\ IsState(t, D, [s.flt EXCEPT ![i] = ToTs(f, Entry(f.ts, k))])
          /\ t.flt[i].state = f.state /\ t.flt[i].type = "PES" /\ t.dmx = D /\ t \in StateSet
      BY <1>13, <1>16, <2>1, <2>2
    <2>5. t.dmx.ret < 0 /\ t.flt = [s.flt EXCEPT ![i] = ToTs(f, Entry(f.ts, k))]
      BY <2>2, <2>4 DEF IsState
    <2>6. IsState(u, Err(D), [s.flt EXCEPT ![i] = ToTs(f, Entry(f.ts, k))])
      BY <1>14, <2>4, <2>5
    <2> QED
      BY <1>16, <2>6 DEF u, d1, d3, k, f, D
  <1>17. CASE k \in Feeds /\ ~(d3.ret < 0)
    <2> DEFINE g == ToTs(f, Entry(f.ts, k))
    <2>1. t = y(k, d3)
      BY <1>7, <1>10, <1>17
    <2>2. /\ IsState(t, d3, [s.flt EXCEPT ![i] = g]) /\ t.dmx = d3 /\ t \in StateSet /\ g \in DevSet
      BY <1>12, <1>13, <1>17, <2>1
    <2> HIDE DEF g
    <2>3. t.flt = [s.flt EXCEPT ![i] = g] /\ t.flt[i] = g
      BY <1>1, <2>2 DEF IsState
    <2>4. u = [t EXCEPT !.flt[i].state = GO]
      BY <1>8, <1>17, <2>2
    <2>5. u = Make(t, d3, i, ToGo(g))
      <3>1. u = Make(t, t.dmx, i, [t.flt[i] EXCEPT !.state = GO])
        BY <2>2, <2>4 DEF Make, StateSet
      <3> QED
        BY <2>2, <2>3, <3>1 DEF ToGo
    <2>6. ToGo(g) \in DevSet
      BY <2>2, DevUpdates
    <2>7. IsState(u, d3, [t.flt EXCEPT ![i] = ToGo(g)])
      BY <1>12, <1>17, <2>2, <2>5, <2>6, MakeFacts
    <2>8. [t.flt EXCEPT ![i] = ToGo(g)] = [s.flt EXCEPT ![i] = ToGo(g)]
      BY <1>1, <2>3
    <2>9. IsState(u, d3, [s.flt EXCEPT ![i] = ToGo(g)]) /\ d3.ret = 0
      BY <1>11, <1>17, <2>7, <2>8
    <2> QED
      BY <1>17, <2>9 DEF u, d1, d3, k, f, g
  <1> QED
    BY <1>9, <1>15, <1>16, <1>17

LEMMA PesStartSurvive ==
  ASSUME NEW s \in StateSet, NEW i \in Devs, s.flt[i].type = "PES", Len(s.flt[i].ts) = 1, s.flt[i].state < GO
  PROVE  Survive(s, PesFilterStart(s, i, {}), i)
  <1> DEFINE u == PesFilterStart(s, i, {})
             f == s.flt[i]
             k == TsD1(s, i).ret
  <1>1. \/ \E D : IsState(u, D, [s.flt EXCEPT ![i] = ToTs(f, Entry(f.ts, Pointed(s)))])
        \/ k \in Feeds /\ \E D : IsState(u, D, [s.flt EXCEPT ![i] = ToTs(f, Entry(f.ts, k))])
        \/ k \in Feeds /\ \E D : IsState(u, D, [s.flt EXCEPT ![i] = ToGo(ToTs(f, Entry(f.ts, k)))])
    BY PesStartCases, Zenon
  <1> HIDE DEF u, k
  <1>2. f \in DevSet /\ f.ts \in Seq(EntrySet) /\ Len(f.ts) = 1
    BY DevTypes
  <1>3. FREE # GO
    BY DEF FREE, GO
  <1>4. ASSUME NEW x \in Feeds \cup {Null}
        PROVE  LET g == ToTs(f, Entry(f.ts, x))
               IN  /\ g \in DevSet /\ g.state = f.state /\ g.type = f.type /\ g.params = f.params /\ Len(g.ts) = 1
                   /\ ToGo(g).state = GO /\ ToGo(g).type = f.type /\ ToGo(g).params = f.params
                   /\ Len(ToGo(g).ts) = 1
    <2> DEFINE g == ToTs(f, Entry(f.ts, x))
    <2>1. Entry(f.ts, x) \in Seq(EntrySet) /\ Len(Entry(f.ts, x)) = 1
      BY <1>2, EntryFacts
    <2>2. g \in DevSet /\ g.state = f.state /\ g.type = f.type /\ g.params = f.params /\ g.ts = Entry(f.ts, x)
      BY <1>2, <2>1, ToTsFacts
    <2> HIDE DEF g
    <2>3. ToGo(g).state = GO /\ ToGo(g).type = g.type /\ ToGo(g).params = g.params /\ ToGo(g).ts = g.ts
      BY <2>2, DevUpdates
    <2> QED
      BY <2>1, <2>2, <2>3 DEF g
  <1>5. ASSUME NEW x \in Feeds \cup {Null}, NEW D, IsState(u, D, [s.flt EXCEPT ![i] = ToTs(f, Entry(f.ts, x))])
        PROVE  Survive(s, u, i)
    <2> DEFINE g == ToTs(f, Entry(f.ts, x))
    <2>1. g.state = f.state /\ g.type = f.type /\ g.params = f.params /\ Len(g.ts) = 1
      BY <1>4
    <2>2. IsState(u, D, [s.flt EXCEPT ![i] = g])
      BY <1>5
    <2> HIDE DEF g
    <2> QED
      BY <1>2, <2>1, <2>2, SurviveOne
  <1>6. ASSUME NEW x \in Feeds, NEW D, IsState(u, D, [s.flt EXCEPT ![i] = ToGo(ToTs(f, Entry(f.ts, x)))])
        PROVE  Survive(s, u, i)
    <2> DEFINE g == ToGo(ToTs(f, Entry(f.ts, x)))
    <2>1. g.state = GO /\ g.type = f.type /\ g.params = f.params /\ Len(g.ts) = 1
      BY <1>4
    <2>2. IsState(u, D, [s.flt EXCEPT ![i] = g])
      BY <1>6
    <2> HIDE DEF g
    <2> QED
      BY <1>2, <1>3, <2>1, <2>2, SurviveOne
  <1> QED
    BY <1>1, <1>5, <1>6, PointedType DEF u

LEMMA FreshFields ==
  ASSUME NEW f \in FeedSet, NEW st, NEW ty, NEW c
  PROVE  /\ Fresh(f, st, ty, c).state = st /\ Fresh(f, st, ty, c).type = ty
         /\ Fresh(f, st, ty, c).filter = c
  BY DEF Fresh, FeedSet

\* A PES filter that is set and does not run.
LEMMA IdlePes ==
  ASSUME NEW s \in StateSet, Linked(s), NEW i \in Devs, s.flt[i].type = "PES", s.flt[i].state < GO, NEW g,
         g.type = "PES", g.state = s.flt[i].state, g.timer = s.flt[i].timer
  PROVE  Idle(g) /\ g.timer # "armed"
  <1>1. ~(s.flt[i].state < SET)
    BY DEF Linked, StatesInv
  <1>2. s.flt[i].timer # "armed"
    BY DEF Linked, StatesInv, Sec
  <1> QED
    BY <1>1, <1>2 DEF Idle

\* Starting a PES filter keeps the links, whatever it is refused for.
LEMMA PesStartLinked ==
  ASSUME NEW s \in StateSet, Linked(s), NEW i \in Devs, s.flt[i].type = "PES", Len(s.flt[i].ts) = 1,
         s.flt[i].state < GO
  PROVE  Linked(PesFilterStart(s, i, {}))
  <1> DEFINE u == PesFilterStart(s, i, {})
             f == s.flt[i]
             d == s.dmx
             d1 == TsD1(s, i)
             k == d1.ret
             d3 == TsD3(s, i)
             pid == f.ts[1].pid
             pes == f.params.pes
  <1>1. \/ k < 0 /\ IsState(u, Err(d1), [s.flt EXCEPT ![i] = ToTs(f, Entry(f.ts, Pointed(s)))])
        \/ /\ k \in Feeds /\ d3.ret < 0
           /\ IsState(u, Err(Err(ReleaseTsFeed(d3, k))), [s.flt EXCEPT ![i] = ToTs(f, Entry(f.ts, k))])
        \/ /\ k \in Feeds /\ d3.ret = 0
           /\ IsState(u, d3, [s.flt EXCEPT ![i] = ToGo(ToTs(f, Entry(f.ts, k)))])
    BY PesStartCases
  <1>2. d1 \in DemuxSet
    BY TsD1Cases
  <1>3. k < 0 => \/ /\ d1.feed = d.feed /\ d1.filter = d.filter /\ d1.feed_list = d.feed_list
                    /\ d1.pesfilter = d.pesfilter /\ d1.oops = d.oops
                 \/ \E n \in Feeds : d.feed[n].state = DMX_FREE /\ ButFeed(d, d1, n, d.feed_list)
                                     /\ d1.feed[n].state = DMX_FREE
    BY TsD1Cases
  <1>4. k \in Feeds =>
          /\ d.feed[k].state = DMX_FREE
          /\ \E j \in Filters :
               /\ d.filter[j].state = DMX_FREE
               /\ d1.feed[k] = Fresh(d.feed[k], DMX_ALLOCATED, "TS", <<j>>)
               /\ \A m \in Feeds \ {k} : d1.feed[m] = d.feed[m]
               /\ d1.filter[j] = InUse(k, i) /\ \A m \in Filters \ {j} : d1.filter[m] = d.filter[m]
               /\ d1.feed_list = d.feed_list /\ d1.pesfilter = d.pesfilter /\ d1.oops = d.oops
    BY TsD1Cases
  <1>5. k \in Feeds =>
          \/ d3 = Err(d1) /\ d3.ret < 0
          \/ /\ d3.ret = 0 /\ d3 \in DemuxSet
             /\ d3.feed[k] = Started(TsSet(d1.feed[k], pid, pes))
             /\ \A m \in Feeds \ {k} : d3.feed[m] = d1.feed[m]
             /\ d3.filter = d1.filter /\ d3.feed_list = d1.feed_list \cup {k} /\ d3.oops = d1.oops
             /\ \A p \in PesTypes : d3.pesfilter[p] = d1.pesfilter[p] \/ (d3.pesfilter[p] = k /\ p = pes)
    BY TsD3Cases
  <1>6. /\ f \in DevSet /\ s.flt \in [Devs -> DevSet] /\ d \in DemuxSet /\ f.ts \in Seq(EntrySet)
        /\ f.type = "PES" /\ Len(f.ts) = 1
    BY DevTypes
  <1>7. d.feed \in [Feeds -> FeedSet] /\ d.filter \in [Filters -> SlotSet]
    BY <1>6, FieldTypes
  <1> HIDE DEF u, d1, d3, k
  <1>8. ASSUME NEW x \in Feeds \cup {Null}
        PROVE  LET g == ToTs(f, Entry(f.ts, x))
               IN  /\ g \in DevSet /\ g.state = f.state /\ g.timer = f.timer /\ g.type = "PES"
                   /\ Idle(g) /\ g.timer # "armed" /\ g.ts[1].ts = x /\ g.ts[1].pid = pid
    <2> DEFINE g == ToTs(f, Entry(f.ts, x))
    <2>1. /\ Entry(f.ts, x) \in Seq(EntrySet) /\ Entry(f.ts, x)[1].ts = x /\ Entry(f.ts, x)[1].pid = pid
      BY <1>6, EntryFacts
    <2>2. /\ g \in DevSet /\ g.state = f.state /\ g.timer = f.timer /\ g.type = "PES" /\ g.ts = Entry(f.ts, x)
      BY <1>6, <2>1, ToTsFacts
    <2> HIDE DEF g
    <2>3. Idle(g) /\ g.timer # "armed"
      BY <2>2, IdlePes
    <2> QED
      BY <2>1, <2>2, <2>3 DEF g
  <1>9. ASSUME NEW D, NEW g, IsState(u, D, [s.flt EXCEPT ![i] = g])
        PROVE  u \in StateSet /\ u.dmx = D /\ u.flt[i] = g /\ OthersKept(s, u, i)
    <2>1. u \in StateSet /\ u.dmx = D /\ u.flt[i] = g /\ \A n \in Devs \ {i} : u.flt[n] = s.flt[n]
      BY <1>6, <1>9 DEF IsState
    <2> QED
      BY <1>6, <2>1, LikeGo DEF OthersKept
  <1>10. CASE k < 0 /\ IsState(u, Err(d1), [s.flt EXCEPT ![i] = ToTs(f, Entry(f.ts, Pointed(s)))])
    <2> DEFINE g == ToTs(f, Entry(f.ts, Pointed(s)))
    <2>1. Idle(g)
      BY <1>8, PointedType
    <2>2. u \in StateSet /\ u.dmx = Err(d1) /\ u.flt[i] = g /\ OthersKept(s, u, i)
      BY <1>9, <1>10
    <2> HIDE DEF g
    <2>3. /\ u.dmx.feed = d1.feed /\ u.dmx.filter = d1.filter /\ u.dmx.feed_list = d1.feed_list
          /\ u.dmx.pesfilter = d1.pesfilter /\ u.dmx.oops = d1.oops
      BY <1>2, <2>2, Results DEF Effect
    <2>4. Kept(d, u.dmx, Null, Null)
      <3>1. CASE d1.feed = d.feed /\ d1.filter = d.filter /\ d1.oops = d.oops
        BY <2>3, <3>1 DEF Kept
      <3>2. CASE \E n \in Feeds : d.feed[n].state = DMX_FREE /\ ButFeed(d, d1, n, d.feed_list)
                                  /\ d1.feed[n].state = DMX_FREE
        BY <2>3, <3>2 DEF Kept, ButFeed
      <3> QED
        BY <1>3, <1>10, <3>1, <3>2
    <2>5. u.dmx.feed_list = d.feed_list /\ u.dmx.pesfilter = d.pesfilter
      BY <1>3, <1>10, <2>3 DEF ButFeed
    <2>6. Quiet(s, u)
      BY <2>1, <2>2, <2>4, <2>5 DEF Quiet, DecodersKept, OthersKept
    <2> QED
      BY <2>2, <2>6, QuietLinked DEF u
  <1>11. CASE /\ k \in Feeds /\ d3.ret < 0
              /\ IsState(u, Err(Err(ReleaseTsFeed(d3, k))), [s.flt EXCEPT ![i] = ToTs(f, Entry(f.ts, k))])
    <2> DEFINE g == ToTs(f, Entry(f.ts, k))
               x == ReleaseTsFeed(d3, k)
    <2>1. Idle(g)
      BY <1>8, <1>11
    <2>2. u \in StateSet /\ u.dmx = Err(Err(x)) /\ u.flt[i] = g /\ OthersKept(s, u, i)
      BY <1>9, <1>11
    <2> HIDE DEF g
    <2>3. PICK j \in Filters :
               /\ d.filter[j].state = DMX_FREE
               /\ d1.feed[k] = Fresh(d.feed[k], DMX_ALLOCATED, "TS", <<j>>)
               /\ \A m \in Feeds \ {k} : d1.feed[m] = d.feed[m]
               /\ d1.filter[j] = InUse(k, i) /\ \A m \in Filters \ {j} : d1.filter[m] = d.filter[m]
               /\ d1.feed_list = d.feed_list /\ d1.pesfilter = d.pesfilter /\ d1.oops = d.oops
      BY <1>4, <1>11
    <2>4. /\ d3 \in DemuxSet /\ d3.feed = d1.feed /\ d3.filter = d1.filter /\ d3.feed_list = d1.feed_list
          /\ d3.pesfilter = d1.pesfilter /\ d3.oops = d1.oops
      <3>1. d3 = Err(d1)
        BY <1>5, <1>11
      <3> QED
        BY <1>2, <3>1, Results DEF Effect
    <2>5. d3.feed[k].state # DMX_FREE /\ d3.feed[k].filter # <<>> /\ Head(d3.feed[k].filter) = j
      <3>1. d.feed[k] \in FeedSet
        BY <1>7, <1>11
      <3>2. d3.feed[k].state = DMX_ALLOCATED /\ d3.feed[k].filter = <<j>>
        BY <2>3, <2>4, <3>1, FreshFields
      <3>3. <<j>> # <<>> /\ Head(<<j>>) = j
        OBVIOUS
      <3> QED
        BY <3>2, <3>3, StateNumbers
    <2>6. PICK P : /\ Effect(d3, x, [d3.feed EXCEPT ![k] = Freed(d3.feed[k])],
                             [d3.filter EXCEPT ![j] = Emptied(d3.filter[j])], d3.feed_list \ {k}, P)
                   /\ \A p \in PesTypes : P[p] = d3.pesfilter[p] \/ P[p] = Null
      <3>1. LET r == ReleaseTsFeed(d3, k)
            IN  \E P : /\ Effect(d3, r, [d3.feed EXCEPT ![k] = Freed(@)], [d3.filter EXCEPT ![j] = Emptied(@)],
                                 d3.feed_list \ {k}, P)
                       /\ \A p \in PesTypes : P[p] = d3.pesfilter[p] \/ P[p] = Null
                       /\ d3.feed[k].decoder /\ d3.feed[k].pes \in PesTypes => P[d3.feed[k].pes] = Null
        BY <1>11, <2>4, <2>5, TsRelease
      <3> QED
        BY <3>1
    <2> HIDE DEF x
    <2>7. d3.feed \in [Feeds -> FeedSet] /\ d3.filter \in [Filters -> SlotSet] /\ d3.feed[k] \in FeedSet
          /\ d3.filter[j] \in SlotSet
      BY <1>11, <2>4, FieldTypes
    <2>8. Freed(d3.feed[k]).state = DMX_FREE /\ Emptied(d3.filter[j]).state = DMX_FREE
      <3>1. Emptied(d3.filter[j]).state = DMX_FREE
        BY <2>7 DEF Emptied, SlotSet
      <3> QED
        BY <2>7, <3>1, FeedFields
    <2>9. /\ x \in DemuxSet /\ x.feed[k].state = DMX_FREE /\ \A m \in Feeds \ {k} : x.feed[m] = d.feed[m]
          /\ x.filter[j].state = DMX_FREE /\ \A m \in Filters \ {j} : x.filter[m] = d.filter[m]
          /\ x.feed_list = d.feed_list \ {k} /\ x.pesfilter = P /\ x.oops = d.oops
      BY <1>11, <2>3, <2>4, <2>6, <2>7, <2>8 DEF Effect
    <2>10. /\ u.dmx.feed = x.feed /\ u.dmx.filter = x.filter /\ u.dmx.feed_list = x.feed_list
           /\ u.dmx.pesfilter = x.pesfilter /\ u.dmx.oops = x.oops
      <3> DEFINE y == Err(x)
      <3>1. /\ y \in DemuxSet /\ y.feed = x.feed /\ y.filter = x.filter /\ y.feed_list = x.feed_list
            /\ y.pesfilter = x.pesfilter /\ y.oops = x.oops
        BY <2>9, Results DEF Effect
      <3>2. u.dmx = Err(y)
        BY <2>2
      <3> HIDE DEF y
      <3>3. Effect(y, Err(y), y.feed, y.filter, y.feed_list, y.pesfilter)
        BY <3>1, Results
      <3> QED
        BY <3>1, <3>2, <3>3 DEF Effect
    <2>11. k \notin d.feed_list /\ d.feed[k].state = DMX_FREE
      BY <1>4, <1>11 DEF Linked, ListInv
    <2>12. Kept(d, u.dmx, Null, Null)
      BY <1>11, <2>3, <2>9, <2>10, <2>11 DEF Kept
    <2>13. u.dmx.feed_list = d.feed_list /\ DecodersKept(d, u.dmx)
      BY <2>3, <2>4, <2>6, <2>9, <2>10, <2>11 DEF DecodersKept
    <2>14. Quiet(s, u)
      BY <2>1, <2>2, <2>12, <2>13 DEF Quiet, OthersKept
    <2> QED
      BY <2>2, <2>14, QuietLinked DEF u
  <1>12. CASE /\ k \in Feeds /\ d3.ret = 0
              /\ IsState(u, d3, [s.flt EXCEPT ![i] = ToGo(ToTs(f, Entry(f.ts, k)))])
    <2> DEFINE g == ToTs(f, Entry(f.ts, k))
               h == ToGo(g)
    <2>1. g \in DevSet /\ g.type = "PES" /\ g.timer # "armed" /\ g.ts[1].ts = k /\ g.ts[1].pid = pid
      BY <1>8, <1>12
    <2>2. u \in StateSet /\ u.dmx = d3 /\ u.flt[i] = h /\ OthersKept(s, u, i)
      BY <1>9, <1>12
    <2> HIDE DEF g
    <2>3. h.state = GO /\ h.type = "PES" /\ h.timer # "armed" /\ h.ts[1].ts = k /\ h.ts[1].pid = pid
      BY <2>1, DevUpdates
    <2> HIDE DEF h
    <2>4. PICK j \in Filters :
               /\ d.filter[j].state = DMX_FREE
               /\ d1.feed[k] = Fresh(d.feed[k], DMX_ALLOCATED, "TS", <<j>>)
               /\ \A m \in Feeds \ {k} : d1.feed[m] = d.feed[m]
               /\ d1.filter[j] = InUse(k, i) /\ \A m \in Filters \ {j} : d1.filter[m] = d.filter[m]
               /\ d1.feed_list = d.feed_list /\ d1.pesfilter = d.pesfilter /\ d1.oops = d.oops
      BY <1>4, <1>12
    <2>5. /\ d3.feed[k] = Started(TsSet(d1.feed[k], pid, pes))
          /\ \A m \in Feeds \ {k} : d3.feed[m] = d1.feed[m]
          /\ d3.filter = d1.filter /\ d3.feed_list = d1.feed_list \cup {k} /\ d3.oops = d1.oops
          /\ \A p \in PesTypes : d3.pesfilter[p] = d1.pesfilter[p] \/ (d3.pesfilter[p] = k /\ p = pes)
      BY <1>5, <1>12
    <2>6. d1.feed[k] \in FeedSet /\ d1.feed[k].type = "TS" /\ d1.feed[k].filter = <<j>>
      <3>1. d.feed[k] \in FeedSet
        BY <1>7, <1>12
      <3>2. d1.feed[k] \in FeedSet
        BY <1>2, <1>12, FieldTypes
      <3> QED
        BY <2>4, <3>1, <3>2, FreshFields
    <2> DEFINE c == TsSet(d1.feed[k], pid, pes)
    <2>7. pid \in Nat /\ pes \in PesTypes \cup {Other}
      <3>1. Null \in Feeds \cup {Null} /\ f.params \in ParamSet
        BY DevTypes
      <3>2. pid \in Nat
        BY <1>6, <3>1, EntryFacts
      <3> QED
        BY <3>1, <3>2 DEF ParamSet
    <2>8. c \in FeedSet
      <3>1. <<>> \in Seq(Filters)
        OBVIOUS
      <3> QED
        BY <2>6, <2>7, <3>1, NewFeedTypes
    <2>9. /\ c.type = "TS" /\ c.filter = <<j>> /\ c.pid = pid /\ c.pes = pes
      BY <2>6 DEF TsSet, FeedSet
    <2>10. pes \in PesTypes => c.decoder
      BY <2>6 DEF TsSet, FeedSet
    <2> HIDE DEF c
    <2>11. d3.feed[k] = Started(c)
      BY <2>5 DEF c
    <2>12. /\ d3.feed[k].state = DMX_GO /\ d3.feed[k].filter = <<j>> /\ d3.feed[k].type = "TS"
           /\ d3.feed[k].pid = pid /\ d3.feed[k].pes = pes /\ d3.feed[k].decoder = c.decoder
      BY <2>8, <2>9, <2>11, FeedFields
    <2>13. Kept(d, u.dmx, k, j)
      <3>1. /\ \A m \in Feeds \ {k} : u.dmx.feed[m] = d.feed[m]
            /\ \A m \in Filters \ {j} : u.dmx.filter[m] = d.filter[m]
            /\ u.dmx.oops = d.oops
        BY <2>2, <2>4, <2>5
      <3> QED
        BY <3>1 DEF Kept
    <2>14. u.dmx.filter[j] = InUse(k, i) /\ u.dmx.feed_list = d.feed_list \cup {k}
      BY <2>2, <2>4, <2>5
    <2>15. \A p \in PesTypes : \/ u.dmx.pesfilter[p] \in {d.pesfilter[p], Null}
                               \/ /\ u.dmx.pesfilter[p] = k /\ u.dmx.feed[k].type = "TS"
                                  /\ u.dmx.feed[k].decoder /\ u.dmx.feed[k].pes = p
      <3>1. /\ \A p \in PesTypes : u.dmx.pesfilter[p] = d.pesfilter[p] \/ (u.dmx.pesfilter[p] = k /\ p = pes)
            /\ u.dmx.feed[k] = d3.feed[k]
        BY <2>2, <2>4, <2>5
      <3>2. /\ u.dmx.feed[k].type = "TS" /\ u.dmx.feed[k].pes = pes
            /\ pes \in PesTypes => u.dmx.feed[k].decoder
        BY <2>10, <2>12, <3>1, Zenon
      <3> QED
        BY <3>1, <3>2, Zenon
    <2>16. Pes(u, i) /\ u.flt[i].ts[1].ts = k /\ u.flt[i].timer # "armed" /\ u.flt[i].ts[1].pid = pid
      BY <2>2, <2>3 DEF Pes, GO
    <2>17. d.feed[k].state = DMX_FREE
      BY <1>4, <1>12
    <2>18. Born(s, u, i, k, j)
      BY <1>12, <2>2, <2>4, <2>12, <2>13, <2>14, <2>15, <2>16, <2>17 DEF Born
    <2> QED
      BY <2>2, <2>18, BornLinked DEF u
  <1> QED
    BY <1>1, <1>10, <1>11, <1>12

-----------------------------------------------------------------------------
(* The handlers.                                                           *)

\* A handler for filter i keeps the types and the links; only i may be taken into use.
Serves(s, u, i) ==
  /\ Typed(u)
  /\ Linked(s) => Linked(u)
  /\ \A n \in Devs \ {i} : u.flt[n].state = FREE <=> s.flt[n].state = FREE
  /\ s.flt[i].state # FREE => u.flt[i].state # FREE

LEMMA ServesTrans ==
  ASSUME NEW s, NEW t, NEW u, NEW i \in Devs, Serves(s, t, i), Serves(t, u, i)
  PROVE  Serves(s, u, i)
  BY DEF Serves

LEMMA SurviveServes ==
  ASSUME NEW s, Typed(s), NEW u, NEW i \in Devs, Survive(s, u, i), Linked(s) => Linked(u)
  PROVE  Serves(s, u, i)
  <1>1. Typed(u)
    BY SurviveTyped
  <1> QED
    BY <1>1 DEF Serves, Survive

LEMMA FailServes ==
  ASSUME NEW s, Typed(s), NEW i \in Devs
  PROVE  Serves(s, Fail(s), i)
  <1>1. s \in StateSet
    BY DEF Typed, StateSet
  <1>2. IsState(Fail(s), Err(s.dmx), s.flt)
    BY <1>1, FailFacts
  <1>3. Survive(s, Fail(s), i)
    BY <1>1, <1>2, SurviveSame
  <1>4. ASSUME Linked(s) PROVE Linked(Fail(s))
    <2> DEFINE u == Fail(s)
    <2>1. s.dmx \in DemuxSet /\ s.flt \in [Devs -> DevSet]
      BY <1>1, DevTypes
    <2>2. u \in StateSet /\ u.dmx = Err(s.dmx) /\ u.flt = s.flt
      BY <1>2 DEF IsState
    <2> HIDE DEF u
    <2>3. /\ u.dmx.feed = s.dmx.feed /\ u.dmx.filter = s.dmx.filter /\ u.dmx.feed_list = s.dmx.feed_list
          /\ u.dmx.pesfilter = s.dmx.pesfilter /\ u.dmx.oops = s.dmx.oops
      BY <2>1, <2>2, Results DEF Effect
    <2>4. \A n \in Devs : Like(s.flt[n], u.flt[n])
      BY <2>1, <2>2, LikeGo
    <2>5. Quiet(s, u)
      BY <2>3, <2>4 DEF Quiet, Kept, DecodersKept
    <2> QED
      BY <1>1, <1>4, <2>2, <2>5, QuietLinked DEF u
  <1> QED
    BY <1>3, <1>4, SurviveServes

\* dvb_dmxdev_filter_stop
LEMMA StopServes ==
  ASSUME NEW s, Typed(s), NEW i \in Devs
  PROVE  LET t == FilterStop(s, i, {})
         IN  /\ Serves(s, t, i)
             /\ Linked(s) => Idle(t.flt[i])
             /\ t.flt[i].type = s.flt[i].type
             /\ s.flt[i].type = "PES" /\ s.flt[i].state >= GO => t.flt[i].state = SET
  <1> DEFINE t == FilterStop(s, i, {})
  <1>1. s \in StateSet /\ \A n \in Devs : s.flt[n].type = "PES" => Len(s.flt[n].ts) = 1
    BY DEF Typed, StateSet
  <1>2. /\ Typed(t)
        /\ \A n \in Devs : /\ t.flt[n].type = s.flt[n].type /\ t.flt[n].params = s.flt[n].params
                           /\ t.flt[n].state = FREE <=> s.flt[n].state = FREE
    BY FilterStopTyped
  <1>3. Linked(s) => Linked(t) /\ Idle(t.flt[i])
    BY FilterStopLinked
  <1>4. ASSUME s.flt[i].type = "PES", s.flt[i].state >= GO PROVE t.flt[i].state = SET
    <2> DEFINE f == s.flt[i]
               l == <<[f.ts[1] EXCEPT !.ts = Null]>>
    <2>1. Pes(s, i) /\ Len(f.ts) = 1
      BY <1>1, <1>4 DEF Pes
    <2>2. [f.ts[1] EXCEPT !.ts = Null] \in EntrySet /\ t.flt = [s.flt EXCEPT ![i] = ToTs(ToReady(f), l)]
      BY <1>1, <2>1, FilterStopPes DEF IsState
    <2>3. l \in Seq(EntrySet)
      BY <2>2
    <2>4. f \in DevSet /\ s.flt \in [Devs -> DevSet]
      BY <1>1, DevTypes
    <2>5. ToReady(f) \in DevSet /\ ToReady(f).state = SET
      BY <2>4, DevUpdates
    <2> HIDE DEF l, t
    <2>6. t.flt[i] = ToTs(ToReady(f), l)
      BY <2>2, <2>4
    <2> QED
      BY <2>3, <2>5, <2>6, ToTsFacts DEF t
  <1> QED
    BY <1>2, <1>3, <1>4 DEF Serves

\* dvb_dmxdev_filter_start
LEMMA StartServes ==
  ASSUME NEW s, Typed(s), NEW i \in Devs
  PROVE  Serves(s, FilterStart(s, i, {}), i)
  <1> DEFINE f == s.flt[i]
             s1 == IF f.state >= GO THEN FilterStop(s, i, {}) ELSE s
             u == FilterStart(s, i, {})
  <1>1. s \in StateSet
    BY DEF Typed, StateSet
  <1>2. f.state \in Int /\ f.type \in {"NONE", "SEC", "PES"} /\ SET \in Int /\ GO \in Int
    BY <1>1, DevTypes DEF SET, GO
  <1>3. u = CASE f.state < SET -> Fail(s)
              [] f.state >= SET /\ s1.flt[i].type = "SEC" -> SecFilterStart(s1, i, {})
              [] f.state >= SET /\ s1.flt[i].type = "PES" -> PesFilterStart(s1, i, {})
              [] OTHER -> Fail(s1)
    BY DEF FilterStart
  <1>4. Serves(s, s, i)
    BY DEF Serves
  <1>5. /\ Serves(s, s1, i) /\ s1.flt[i].type = f.type
        /\ Linked(s) => s1.flt[i].state < GO
        /\ f.type = "PES" => s1.flt[i].state < GO
    <2>1. CASE f.state >= GO
      <3>1. s1 = FilterStop(s, i, {})
        BY <2>1
      <3> HIDE DEF s1
      <3>2. /\ Serves(s, s1, i) /\ s1.flt[i].type = f.type /\ (Linked(s) => Idle(s1.flt[i]))
            /\ f.type = "PES" => s1.flt[i].state = SET
        BY <2>1, <3>1, StopServes
      <3>3. SET < GO
        BY DEF SET, GO
      <3> QED
        BY <3>2, <3>3 DEF Idle
    <2>2. CASE ~(f.state >= GO)
      BY <1>2, <1>4, <2>2
    <2> QED
      BY <2>1, <2>2
  <1> HIDE DEF s1, u
  <1>6. Typed(s1)
    BY <1>5 DEF Serves
  <1>7. s1 \in StateSet /\ \A n \in Devs : s1.flt[n].type = "PES" => Len(s1.flt[n].ts) = 1
    BY <1>6 DEF Typed, StateSet
  <1>8. CASE f.state < SET
    <2>1. u = Fail(s)
      BY <1>2, <1>3, <1>8
    <2> QED
      BY <2>1, FailServes DEF u
  <1>9. CASE ~(f.state < SET) /\ f.type = "SEC"
    <2>1. u = SecFilterStart(s1, i, {})
      BY <1>2, <1>3, <1>5, <1>9
    <2>2. Survive(s1, u, i)
      BY <1>5, <1>7, <1>9, <2>1, SecStartSurvive
    <2>3. ASSUME Linked(s) PROVE Linked(u)
      <3>1. Linked(s1) /\ s1.flt[i].state < GO
        BY <1>5, <2>3 DEF Serves
      <3> QED
        BY <1>5, <1>7, <1>9, <2>1, <3>1, SecStartLinked
    <2>4. Typed(u)
      BY <1>6, <2>2, SurviveTyped
    <2> QED
      BY <1>5, <2>2, <2>3, <2>4 DEF Serves, Survive, u
  <1>10. CASE ~(f.state < SET) /\ f.type = "PES"
    <2>1. u = PesFilterStart(s1, i, {})
      BY <1>2, <1>3, <1>5, <1>10
    <2>2. Len(s1.flt[i].ts) = 1 /\ s1.flt[i].type = "PES" /\ s1.flt[i].state < GO
      BY <1>5, <1>7, <1>10
    <2>3. Survive(s1, u, i)
      BY <1>7, <2>1, <2>2, PesStartSurvive
    <2>4. Linked(s1) => Linked(u)
      BY <1>7, <2>1, <2>2, PesStartLinked
    <2>5. Serves(s1, u, i)
      BY <1>6, <2>3, <2>4, SurviveServes
    <2> QED
      BY <1>5, <2>5, ServesTrans DEF u
  <1>11. CASE ~(f.state < SET) /\ f.type = "NONE"
    <2>1. u = Fail(s1)
      BY <1>2, <1>3, <1>5, <1>11
    <2>2. Serves(s1, u, i)
      BY <1>6, <2>1, FailServes
    <2> QED
      BY <1>5, <2>2, ServesTrans DEF u
  <1> QED
    BY <1>2, <1>8, <1>9, <1>10, <1>11

\* A handler that only stores f in the slot of filter i.
LEMMA StoreServes ==
  ASSUME NEW s, Typed(s), NEW i \in Devs, NEW f \in DevSet, f.type = "PES" => Len(f.ts) = 1
  PROVE  LET u == [s EXCEPT !.flt[i] = f]
         IN  /\ Typed(u) /\ u.flt[i] = f /\ u.dmx = s.dmx
             /\ Linked(s) /\ s.flt[i].state < GO /\ Idle(f) => Linked(u)
             /\ \A n \in Devs \ {i} : u.flt[n] = s.flt[n]
  <1> DEFINE u == [s EXCEPT !.flt[i] = f]
  <1>1. s \in StateSet /\ \A n \in Devs : s.flt[n].type = "PES" => Len(s.flt[n].ts) = 1
    BY DEF Typed, StateSet
  <1>2. s.dmx \in DemuxSet /\ s.flt \in [Devs -> DevSet]
    BY <1>1, DevTypes
  <1>3. IsState(u, s.dmx, [s.flt EXCEPT ![i] = f])
    BY <1>1, <1>2, MakeFacts
  <1> HIDE DEF u
  <1>4. /\ u \in StateSet /\ u.dmx = s.dmx /\ u.flt[i] = f
        /\ \A n \in Devs \ {i} : u.flt[n] = s.flt[n]
    BY <1>2, <1>3 DEF IsState
  <1>5. Typed(u)
    <2>1. \A n \in Devs : u.flt[n].type = "PES" => Len(u.flt[n].ts) = 1
      BY <1>1, <1>4
    <2> QED
      BY <1>4, <2>1 DEF Typed, StateSet
  <1>6. ASSUME Linked(s), s.flt[i].state < GO, Idle(f) PROVE Linked(u)
    <2>1. OthersKept(s, u, i)
      BY <1>2, <1>4, LikeGo DEF OthersKept
    <2>2. Idle(u.flt[i]) /\ s.flt[i].state < GO
      BY <1>4, <1>6
    <2> QED
      BY <1>1, <1>4, <1>6, <2>1, <2>2, QuietDevice
  <1> QED
    BY <1>4, <1>5, <1>6 DEF u

\* What is stored in the slot of filter i by the handlers that stop it first.
Cleared(f) == [f EXCEPT !.ts = IF f.type = "PES" THEN <<>> ELSE f.ts, !.type = "NONE", !.state = ALLOCATED]
Closed(f) == [f EXCEPT !.state = FREE]
ForSections(f, params) ==
  [f EXCEPT !.type = "SEC", !.state = SET,
            !.params = [pid |-> params.pid, oneshot |-> params.oneshot, timed |-> params.timed,
                        pes |-> Other, multi |-> FALSE]]
ForPes(f, params, l) ==
  [f EXCEPT !.type = "PES", !.state = SET, !.ts = l,
            !.params = [NoParams EXCEPT !.pes = params.pes, !.multi = params.multi]]

LEMMA StoredRecords ==
  ASSUME NEW f \in DevSet
  PROVE  /\ Cleared(f) \in DevSet /\ Cleared(f).type = "NONE" /\ Cleared(f).state = ALLOCATED
         /\ Cleared(f).timer = f.timer
         /\ Closed(f) \in DevSet /\ Closed(f).type = f.type /\ Closed(f).state = FREE
         /\ Closed(f).timer = f.timer /\ Closed(f).ts = f.ts
         /\ \A params \in SecParams :
              /\ ForSections(f, params) \in DevSet /\ ForSections(f, params).type = "SEC"
              /\ ForSections(f, params).state = SET /\ ForSections(f, params).timer = f.timer
  <1>1. {FREE, ALLOCATED, SET} \subseteq FREE .. TIMEDOUT
    BY DEF FREE, ALLOCATED, SET, TIMEDOUT
  <1>2. /\ Cleared(f) \in DevSet /\ Cleared(f).type = "NONE" /\ Cleared(f).state = ALLOCATED
        /\ Cleared(f).timer = f.timer
    <2> DEFINE l == IF f.type = "PES" THEN <<>> ELSE f.ts
    <2>1. <<>> \in Seq(EntrySet) /\ f.ts \in Seq(EntrySet)
      BY DEF DevSet
    <2>2. l \in Seq(EntrySet)
      BY <2>1
    <2>3. Cleared(f) = [f EXCEPT !.ts = l, !.type = "NONE", !.state = ALLOCATED]
      BY DEF Cleared, DevSet
    <2> HIDE DEF l
    <2> QED
      BY <1>1, <2>2, <2>3 DEF DevSet
  <1>3. /\ Closed(f) \in DevSet /\ Closed(f).type = f.type /\ Closed(f).state = FREE
        /\ Closed(f).timer = f.timer /\ Closed(f).ts = f.ts
    BY <1>1 DEF Closed, DevSet
  <1>4. ASSUME NEW params \in SecParams
        PROVE  /\ ForSections(f, params) \in DevSet /\ ForSections(f, params).type = "SEC"
               /\ ForSections(f, params).state = SET /\ ForSections(f, params).timer = f.timer
    <2> DEFINE p == [pid |-> params.pid, oneshot |-> params.oneshot, timed |-> params.timed,
                     pes |-> Other, multi |-> FALSE]
    <2>1. p \in ParamSet
      BY DmxdevAssumption DEF ParamSet
    <2>2. ForSections(f, params) = [f EXCEPT !.type = "SEC", !.state = SET, !.params = p]
      BY DEF ForSections
    <2> HIDE DEF p
    <2> QED
      BY <1>1, <2>1, <2>2 DEF DevSet
  <1> QED
    BY <1>2, <1>3, <1>4

LEMMA PesRecord ==
  ASSUME NEW f \in DevSet, NEW params \in PesParams, NEW l \in Seq(EntrySet)
  PROVE  /\ ForPes(f, params, l) \in DevSet /\ ForPes(f, params, l).type = "PES"
         /\ ForPes(f, params, l).state = SET /\ ForPes(f, params, l).timer = f.timer
         /\ ForPes(f, params, l).ts = l
  <1> DEFINE p == [NoParams EXCEPT !.pes = params.pes, !.multi = params.multi]
  <1>1. SET \in FREE .. TIMEDOUT
    BY DEF FREE, SET, TIMEDOUT
  <1>2. p \in ParamSet
    BY DmxdevAssumption DEF ParamSet, NoParams
  <1>3. ForPes(f, params, l) = [f EXCEPT !.type = "PES", !.state = SET, !.ts = l, !.params = p]
    BY DEF ForPes
  <1> HIDE DEF p
  <1> QED
    BY <1>1, <1>2, <1>3 DEF DevSet

\* A filter that is not running has no timer.
LEMMA NoTimer ==
  ASSUME NEW s, Typed(s), NEW i \in Devs, Linked(s), s.flt[i].state < GO
  PROVE  s.flt[i].timer # "armed" /\ Idle(s.flt[i])
  <1>1. s \in StateSet
    BY DEF Typed, StateSet
  <1>2. s.flt[i].state \in Int
    BY <1>1, DevTypes
  <1>3. /\ s.flt[i].timer # "armed"
        /\ s.flt[i].type = "NONE" <=> s.flt[i].state < SET
    BY <1>2 DEF Linked, StatesInv, Sec, GO
  <1> QED
    BY <1>3 DEF Idle

\* dvb_dmxdev_filter_reset
LEMMA ResetServes ==
  ASSUME NEW s, Typed(s), NEW i \in Devs
  PROVE  LET u == FilterReset(s, i)
         IN  /\ Typed(u)
             /\ Linked(s) /\ s.flt[i].state < GO => Linked(u) /\ u.flt[i].state < SET /\ Idle(u.flt[i])
             /\ s.flt[i].state # FREE => u.flt[i].state # FREE
             /\ \A n \in Devs \ {i} : u.flt[n] = s.flt[n]
  <1> DEFINE f == s.flt[i]
             u == FilterReset(s, i)
  <1>1. s \in StateSet
    BY DEF Typed, StateSet
  <1>2. f \in DevSet /\ f.state \in Int
    BY <1>1, DevTypes
  <1>3. CASE f.state < SET
    <2>1. u = s
      BY <1>3 DEF FilterReset
    <2>2. Linked(s) /\ f.state < GO => Idle(f)
      BY NoTimer
    <2> QED
      BY <1>3, <2>1, <2>2
  <1>4. CASE ~(f.state < SET)
    <2>1. u = [s EXCEPT !.flt[i] = Cleared(f)]
      BY <1>4 DEF FilterReset, Cleared
    <2> DEFINE g == Cleared(f)
    <2>2. g \in DevSet /\ g.type = "NONE" /\ g.state = ALLOCATED /\ g.timer = f.timer
      BY <1>2, StoredRecords
    <2> HIDE DEF g
    <2>3. Linked(s) /\ f.state < GO => Idle(g)
      <3>1. Linked(s) /\ f.state < GO => f.timer # "armed"
        BY NoTimer
      <3> QED
        BY <2>2, <3>1 DEF Idle, ALLOCATED, SET, GO
    <2>4. /\ Typed(u) /\ u.flt[i] = g /\ (Linked(s) /\ f.state < GO /\ Idle(g) => Linked(u))
          /\ \A n \in Devs \ {i} : u.flt[n] = s.flt[n]
      <3>1. u = [s EXCEPT !.flt[i] = g]
        BY <2>1 DEF g
      <3>2. g.type = "PES" => Len(g.ts) = 1
        BY <2>2
      <3> HIDE DEF u
      <3> QED
        BY <2>2, <3>1, <3>2, StoreServes
    <2>5. ALLOCATED < SET /\ ALLOCATED # FREE
      BY DEF ALLOCATED, SET, FREE
    <2> HIDE DEF u
    <2> QED
      BY <2>2, <2>3, <2>4, <2>5 DEF u
  <1> QED
    BY <1>3, <1>4

\* dvb_dmxdev_filter_set
LEMMA SetServes ==
  ASSUME NEW s, Typed(s), NEW i \in Devs, NEW params \in SecParams
  PROVE  Serves(s, FilterSet(s, i, params, {}), i)
  <1> DEFINE t == FilterStop(s, i, {})
             g == ForSections(t.flt[i], params)
             u == FilterSet(s, i, params, {})
  <1>1. u = [t EXCEPT !.flt[i] = g]
    BY DEF FilterSet, ForSections
  <1>2. Serves(s, t, i) /\ (Linked(s) => Idle(t.flt[i]))
    BY StopServes
  <1> HIDE DEF t, u
  <1>3. Typed(t) /\ (Linked(s) => Linked(t))
    BY <1>2 DEF Serves
  <1>4. t.flt[i] \in DevSet
    BY <1>3, DevTypes DEF Typed, StateSet
  <1>5. g \in DevSet /\ g.type = "SEC" /\ g.state = SET /\ g.timer = t.flt[i].timer
    BY <1>4, StoredRecords
  <1> HIDE DEF g
  <1>6. Linked(s) => t.flt[i].state < GO /\ Idle(g)
    BY <1>2, <1>5 DEF Idle, SET, GO
  <1>7. SET # FREE
    BY DEF SET, FREE
  <1>8. /\ Typed(u) /\ u.flt[i] = g /\ (Linked(t) /\ t.flt[i].state < GO /\ Idle(g) => Linked(u))
        /\ \A n \in Devs \ {i} : u.flt[n] = t.flt[n]
    BY <1>1, <1>3, <1>5, StoreServes
  <1> QED
    BY <1>2, <1>3, <1>5, <1>6, <1>7, <1>8 DEF Serves, u

\* dvb_dmxdev_pes_filter_set: the list has one element again.
LEMMA PesSetServes ==
  ASSUME NEW s, Typed(s), NEW i \in Devs, NEW params \in PesParams, NEW pid \in PesPids
  PROVE  Serves(s, PesFilterSet(s, i, params, pid, {}), i)
  <1> DEFINE t == FilterStop(s, i, {})
             r == FilterReset(t, i)
             e == [pid |-> pid, ts |-> Null]
             h == ForPes(r.flt[i], params, <<>>)
             g == ForPes(r.flt[i], params, <<e>>)
             v == [r EXCEPT !.flt[i] = h]
             u == PesFilterSet(s, i, params, pid, {})
  <1>1. u = AddPid(v, i, pid, {})
    BY DEF PesFilterSet, ForPes
  <1>2. Serves(s, t, i) /\ (Linked(s) => Idle(t.flt[i]))
    BY StopServes
  <1>3. Typed(t) /\ (Linked(s) => Linked(t) /\ t.flt[i].state < GO)
    BY <1>2 DEF Serves, Idle
  <1> HIDE DEF t
  <1>4. /\ Typed(r) /\ (Linked(s) => Linked(r) /\ Idle(r.flt[i]))
        /\ \A n \in Devs \ {i} : r.flt[n] = t.flt[n]
    BY <1>3, ResetServes
  <1> HIDE DEF r
  <1>5. r \in StateSet
    BY <1>4 DEF Typed, StateSet
  <1>6. r.flt[i] \in DevSet /\ r.flt \in [Devs -> DevSet] /\ r.dmx \in DemuxSet
    BY <1>5, DevTypes
  <1>7. e \in EntrySet /\ <<>> \in Seq(EntrySet)
    BY DEF EntrySet
  <1>8. <<e>> \in Seq(EntrySet) /\ Len(<<e>>) = 1 /\ <<e>> \o <<>> = <<e>>
    BY <1>7
  <1>9. /\ h \in DevSet /\ h.type = "PES" /\ h.state = SET /\ h.ts = <<>>
        /\ g \in DevSet /\ g.type = "PES" /\ g.state = SET /\ g.timer = r.flt[i].timer /\ g.ts = <<e>>
    <2> DEFINE q == r.flt[i]
    <2>1. q \in DevSet
      BY <1>6
    <2> HIDE DEF q, e
    <2>2. \A l \in Seq(EntrySet) :
            /\ ForPes(q, params, l) \in DevSet /\ ForPes(q, params, l).type = "PES"
            /\ ForPes(q, params, l).state = SET /\ ForPes(q, params, l).timer = q.timer
            /\ ForPes(q, params, l).ts = l
      BY <2>1, PesRecord
    <2>3. ForPes(q, params, <<>>) = h /\ ForPes(q, params, <<e>>) = g
      BY DEF q
    <2>4. <<>> \in Seq(EntrySet) /\ <<e>> \in Seq(EntrySet) /\ q.timer = r.flt[i].timer
      BY <1>7, <1>8 DEF q
    <2> HIDE DEF h, g
    <2> QED
      BY <2>2, <2>3, <2>4
  <1>10. v.flt = [r.flt EXCEPT ![i] = h] /\ v.dmx = r.dmx /\ v.flt[i] = h /\ v \in StateSet
    <2> HIDE DEF h
    <2>1. h \in DevSet
      BY <1>9
    <2>2. IsState(v, r.dmx, [r.flt EXCEPT ![i] = h])
      BY <1>5, <1>6, <2>1, MakeFacts
    <2> QED
      BY <1>6, <2>2 DEF IsState
  <1>11. [h EXCEPT !.ts = <<e>> \o @] = g
    <2>1. [h EXCEPT !.ts = <<e>> \o @] = [h EXCEPT !.ts = <<e>>]
      BY <1>8, <1>9
    <2> DEFINE p == [NoParams EXCEPT !.pes = params.pes, !.multi = params.multi]
               q == r.flt[i]
    <2>2. h = [q EXCEPT !.type = "PES", !.state = SET, !.ts = <<>>, !.params = p]
      BY DEF ForPes
    <2>3. g = [q EXCEPT !.type = "PES", !.state = SET, !.ts = <<e>>, !.params = p]
      BY DEF ForPes
    <2> HIDE DEF p, e, h, g
    <2>4. q \in DevSet
      BY <1>6
    <2> HIDE DEF q
    <2>5. [h EXCEPT !.ts = <<e>>] = g
      BY <2>2, <2>3, <2>4 DEF DevSet
    <2> QED
      BY <2>1, <2>5
  <1>12. u = [v EXCEPT !.flt[i].ts = <<e>> \o @]
    <2> HIDE DEF v, h, g
    <2>1. ~(v.flt[i].type # "PES" \/ v.flt[i].state < SET \/ (~v.flt[i].params.multi /\ v.flt[i].ts # <<>>))
      BY <1>9, <1>10 DEF SET
    <2>2. ~(v.flt[i].state >= GO)
      BY <1>9, <1>10 DEF SET, GO
    <2> HIDE DEF u
    <2> QED
      BY <1>1, <2>1, <2>2 DEF AddPid
  <1>13. u = [r EXCEPT !.flt[i] = g]
    <2> HIDE DEF u, h, g, e
    <2>1. [v EXCEPT !.flt[i].ts = <<e>> \o @] = [v EXCEPT !.flt[i] = [h EXCEPT !.ts = <<e>> \o @]]
      BY <1>6, <1>10 DEF StateSet
    <2>2. [v EXCEPT !.flt[i] = g] = [r EXCEPT !.flt[i] = g]
      BY <1>5, <1>6, <1>9 DEF StateSet
    <2> QED
      BY <1>11, <1>12, <2>1, <2>2
  <1> HIDE DEF u, v, h, g
  <1>14. Linked(s) => Linked(r) /\ r.flt[i].state < GO /\ Idle(g)
    BY <1>4, <1>9 DEF Idle, SET, GO
  <1>15. /\ Typed(u) /\ u.flt[i] = g /\ (Linked(r) /\ r.flt[i].state < GO /\ Idle(g) => Linked(u))
         /\ \A n \in Devs \ {i} : u.flt[n] = r.flt[n]
    <2>1. g \in DevSet /\ (g.type = "PES" => Len(g.ts) = 1)
      BY <1>8, <1>9
    <2> QED
      BY <1>4, <1>13, <2>1, StoreServes
  <1>16. SET # FREE
    BY DEF SET, FREE
  <1> QED
    BY <1>2, <1>4, <1>9, <1>14, <1>15, <1>16 DEF Serves, u

\* The same for a pes_type out of range.
LEMMA InvalidServes ==
  ASSUME NEW s, Typed(s), NEW i \in Devs
  PROVE  Serves(s, Fail(FilterReset(FilterStop(s, i, {}), i)), i)
  <1> DEFINE t == FilterStop(s, i, {})
             r == FilterReset(t, i)
  <1>1. Serves(s, t, i) /\ (Linked(s) => Idle(t.flt[i]))
    BY StopServes
  <1>2. Typed(t) /\ (Linked(s) => Linked(t) /\ t.flt[i].state < GO)
    BY <1>1 DEF Serves, Idle
  <1> HIDE DEF t
  <1>3. /\ Typed(r) /\ (Linked(s) => Linked(r)) /\ (t.flt[i].state # FREE => r.flt[i].state # FREE)
        /\ \A n \in Devs \ {i} : r.flt[n] = t.flt[n]
    BY <1>2, ResetServes
  <1> HIDE DEF r
  <1>4. Serves(s, r, i)
    BY <1>1, <1>3 DEF Serves
  <1>5. Serves(r, Fail(r), i)
    BY <1>3, FailServes
  <1>6. Serves(s, Fail(r), i)
    BY <1>4, <1>5, ServesTrans
  <1> QED
    BY <1>6 DEF r, t

\* dvb_dmxdev_filter_free
LEMMA FreeServes ==
  ASSUME NEW s, Typed(s), NEW i \in Devs
  PROVE  LET r == FilterReset(FilterStop(s, i, {}), i)
             u == [r EXCEPT !.flt[i].state = FREE]
         IN  /\ Typed(u) /\ (Linked(s) => Linked(u)) /\ u.flt[i].state = FREE
             /\ \A n \in Devs \ {i} : u.flt[n].state = FREE <=> s.flt[n].state = FREE
  <1> DEFINE t == FilterStop(s, i, {})
             r == FilterReset(t, i)
             g == Closed(r.flt[i])
             u == [r EXCEPT !.flt[i].state = FREE]
  <1>1. Serves(s, t, i) /\ (Linked(s) => Idle(t.flt[i]))
    BY StopServes
  <1>2. Typed(t) /\ (Linked(s) => Linked(t) /\ t.flt[i].state < GO)
    BY <1>1 DEF Serves, Idle
  <1> HIDE DEF t
  <1>3. /\ Typed(r) /\ (Linked(s) => Linked(r) /\ r.flt[i].state < SET /\ Idle(r.flt[i]))
        /\ \A n \in Devs \ {i} : r.flt[n] = t.flt[n]
    BY <1>2, ResetServes
  <1> HIDE DEF r
  <1>4. r \in StateSet /\ \A n \in Devs : r.flt[n].type = "PES" => Len(r.flt[n].ts) = 1
    BY <1>3 DEF Typed, StateSet
  <1>5. r.flt[i] \in DevSet
    BY <1>4, DevTypes
  <1>6. u = [r EXCEPT !.flt[i] = g]
    BY DEF Closed
  <1>7. g \in DevSet /\ g.type = r.flt[i].type /\ g.state = FREE /\ g.timer = r.flt[i].timer /\ g.ts = r.flt[i].ts
    BY <1>5, StoredRecords
  <1> HIDE DEF g, u
  <1>8. g.type = "PES" => Len(g.ts) = 1
    BY <1>4, <1>7
  <1>9. Linked(s) => r.flt[i].state < GO /\ Idle(g)
    BY <1>3, <1>7 DEF Idle, FREE, SET, GO
  <1>10. /\ Typed(u) /\ u.flt[i] = g /\ (Linked(r) /\ r.flt[i].state < GO /\ Idle(g) => Linked(u))
         /\ \A n \in Devs \ {i} : u.flt[n] = r.flt[n]
    BY <1>3, <1>6, <1>7, <1>8, StoreServes
  <1> QED
    BY <1>1, <1>3, <1>7, <1>9, <1>10 DEF Serves, u, r, t

-----------------------------------------------------------------------------
(* The steps.                                                              *)

\* What is stored when a handler is over.
Settled(s) ==
  [dmx |-> Forget(s.dmx),
   flt |-> [i \in Devs |-> IF s.flt[i].type # "NONE" THEN s.flt[i]
                           ELSE [s.flt[i] EXCEPT !.params = NoParams, !.sec = Null]]]

LEMMA SettledFacts ==
  ASSUME NEW s, Typed(s)
  PROVE  LET u == Settled(s)
         IN  /\ Typed(u) /\ (Linked(s) => Linked(u))
             /\ \A n \in Devs : u.flt[n].state = s.flt[n].state
  <1> DEFINE bare(f) == [f EXCEPT !.params = NoParams, !.sec = Null]
             u == Settled(s)
  <1>1. s \in StateSet /\ \A n \in Devs : s.flt[n].type = "PES" => Len(s.flt[n].ts) = 1
    BY DEF Typed, StateSet
  <1>2. s.dmx \in DemuxSet /\ s.flt \in [Devs -> DevSet] /\ \A n \in Devs : s.flt[n] \in DevSet
    BY <1>1 DEF StateSet
  <1>3. NoParams \in ParamSet
    BY DEF NoParams, ParamSet
  <1>4. ASSUME NEW f \in DevSet
        PROVE  /\ bare(f) \in DevSet /\ bare(f).state = f.state /\ bare(f).type = f.type
               /\ bare(f).ts = f.ts /\ bare(f).timer = f.timer
    BY <1>3 DEF DevSet
  <1> DEFINE F == [n \in Devs |-> IF s.flt[n].type # "NONE" THEN s.flt[n] ELSE bare(s.flt[n])]
  <1>5. u.dmx = Forget(s.dmx) /\ u.flt = F /\ u = [dmx |-> Forget(s.dmx), flt |-> F]
    BY DEF Settled
  <1> HIDE DEF bare, u
  <1>6. \A n \in Devs : /\ F[n] \in DevSet /\ F[n].state = s.flt[n].state /\ F[n].type = s.flt[n].type
                        /\ F[n].ts = s.flt[n].ts /\ F[n].timer = s.flt[n].timer
                        /\ s.flt[n].type # "NONE" => F[n] = s.flt[n]
    BY <1>2, <1>4
  <1>7. F \in [Devs -> DevSet]
    BY <1>6
  <1> HIDE DEF F
  <1>8. Forget(s.dmx) \in DemuxSet
    BY <1>2, ForgetFacts
  <1>9. u \in StateSet
    BY <1>5, <1>7, <1>8 DEF StateSet
  <1>10. Typed(u)
    <2>1. \A n \in Devs : u.flt[n].type = "PES" => Len(u.flt[n].ts) = 1
      BY <1>1, <1>5, <1>6
    <2> QED
      BY <1>9, <2>1 DEF Typed, StateSet
  <1>11. ASSUME Linked(s) PROVE Linked(u)
    <2>1. Kept(s.dmx, u.dmx, Null, Null) /\ u.dmx.feed_list = s.dmx.feed_list /\ DecodersKept(s.dmx, u.dmx)
      BY <1>2, <1>5, ForgetFacts DEF Kept, DecodersKept
    <2>2. ASSUME NEW n \in Devs PROVE Like(s.flt[n], u.flt[n]) \/ (s.flt[n].state < GO /\ Idle(u.flt[n]))
      <3>1. CASE s.flt[n].type # "NONE"
        BY <1>2, <1>5, <1>6, <3>1, LikeGo
      <3>2. CASE s.flt[n].type = "NONE"
        <4>1. s.flt[n].state < SET /\ s.flt[n].state \in Int
          BY <1>1, <1>11, <3>2, DevTypes DEF Linked, StatesInv
        <4>2. s.flt[n].state < GO
          BY <4>1 DEF SET, GO
        <4>3. Idle(s.flt[n])
          BY <1>11, <4>2, NoTimer
        <4> QED
          BY <1>5, <1>6, <4>2, <4>3 DEF Idle
      <3> QED
        BY <3>1, <3>2
    <2>3. Quiet(s, u)
      BY <2>1, <2>2 DEF Quiet
    <2> QED
      BY <1>1, <1>9, <1>11, <2>3, QuietLinked
  <1> QED
    BY <1>5, <1>6, <1>10, <1>11 DEF u

\* The invariant, from the state u that a step leaves.
LEMMA Concludes ==
  ASSUME NEW u, Typed(u), dmx' = u.dmx, flt' = u.flt, open' \subseteq Devs, overtaken' \in BOOLEAN,
         ~overtaken' => Linked(u) /\ open' = {n \in Devs : u.flt[n].state # FREE}
  PROVE  DevInv'
  <1>1. u = [dmx |-> dmx', flt |-> flt']
    BY DEF Typed
  <1>2. u = now'
    BY <1>1 DEF now
  <1> QED
    BY <1>2 DEF DevInv

LEMMA HandlerConcludes ==
  ASSUME NEW s, Typed(s), Becomes(s), open' \subseteq Devs, overtaken' \in BOOLEAN,
         ~overtaken' => Linked(s) /\ open' = {n \in Devs : s.flt[n].state # FREE}
  PROVE  DevInv'
  <1> DEFINE u == Settled(s)
  <1>1. /\ Typed(u) /\ (Linked(s) => Linked(u))
        /\ \A n \in Devs : u.flt[n].state = s.flt[n].state
    BY SettledFacts
  <1>2. dmx' = u.dmx /\ flt' = u.flt
    BY DEF Becomes, Settled
  <1> HIDE DEF u
  <1>3. ~overtaken' => Linked(u) /\ open' = {n \in Devs : u.flt[n].state # FREE}
    BY <1>1
  <1> QED
    BY <1>1, <1>2, <1>3, Concludes

\* An ioctl for an open filter.
LEMMA ServesConcludes ==
  ASSUME DevInv, NEW i \in open, NEW s, Serves(now, s, i), Becomes(s), UNCHANGED <<open, overtaken>>
  PROVE  DevInv'
  <1>1. Typed(s) /\ i \in Devs
    BY DEF Serves, DevInv
  <1>2. now.flt = flt
    BY DEF now
  <1>3. ~overtaken => Linked(s) /\ open = {n \in Devs : s.flt[n].state # FREE}
    <2> SUFFICES ASSUME ~overtaken PROVE Linked(s) /\ open = {n \in Devs : s.flt[n].state # FREE}
      OBVIOUS
    <2>1. Linked(now) /\ open = {n \in Devs : flt[n].state # FREE}
      BY DEF DevInv
    <2>2. \A n \in Devs : s.flt[n].state = FREE <=> flt[n].state = FREE
      BY <1>2, <2>1 DEF Serves
    <2> QED
      BY <2>1, <2>2 DEF Serves
  <1> QED
    BY <1>1, <1>3, HandlerConcludes DEF DevInv

\* A step between the handlers that leaves the links of filter i alone.
LEMMA LikeConcludes ==
  ASSUME DevInv, NEW i \in Devs, NEW g \in DevSet, g.type = flt[i].type, g.ts = flt[i].ts,
         flt' = [flt EXCEPT ![i] = g], UNCHANGED <<dmx, open>>, overtaken' \in BOOLEAN,
         ~overtaken' => ~overtaken /\ Like(flt[i], g) /\ (flt[i].state = FREE <=> g.state = FREE)
  PROVE  DevInv'
  <1> DEFINE u == [dmx |-> dmx, flt |-> [flt EXCEPT ![i] = g]]
  <1>1. Typed(now) /\ now.flt = flt /\ now.dmx = dmx /\ now \in StateSet
    BY DEF DevInv, now, Typed, StateSet
  <1>2. flt \in [Devs -> DevSet] /\ dmx \in DemuxSet /\ \A n \in Devs : flt[n] \in DevSet
    BY <1>1, DevTypes
  <1>3. u.dmx = dmx /\ u.flt = [flt EXCEPT ![i] = g] /\ u.flt[i] = g /\ u \in StateSet
        /\ \A n \in Devs \ {i} : u.flt[n] = flt[n]
    BY <1>2 DEF StateSet
  <1> HIDE DEF u
  <1>4. Typed(u)
    <2>1. \A n \in Devs : u.flt[n].type = "PES" => Len(u.flt[n].ts) = 1
      BY <1>1, <1>3 DEF Typed
    <2> QED
      BY <1>3, <2>1 DEF Typed, StateSet
  <1>5. ASSUME ~overtaken' PROVE Linked(u) /\ open' = {n \in Devs : u.flt[n].state # FREE}
    <2>1. Linked(now) /\ open = {n \in Devs : flt[n].state # FREE}
      BY <1>5 DEF DevInv
    <2>2. \A n \in Devs : Like(now.flt[n], u.flt[n])
      BY <1>1, <1>2, <1>3, <1>5, LikeGo
    <2>3. Quiet(now, u)
      BY <1>1, <1>3, <2>2 DEF Quiet, Kept, DecodersKept
    <2>4. Linked(u)
      BY <1>1, <1>3, <2>1, <2>3, QuietLinked
    <2>5. \A n \in Devs : u.flt[n].state # FREE <=> flt[n].state # FREE
      BY <1>3, <1>5
    <2> QED
      BY <2>1, <2>4, <2>5
  <1> QED
    BY <1>3, <1>4, <1>5, Concludes DEF DevInv

LEMMA Initially ==
  ASSUME Init
  PROVE  DevInv
  <1> DEFINE none == [state |-> DMX_FREE, feed |-> Null, priv |-> Null]
  <1>1. PICK old \in [Feeds -> IF Stale THEN PesTypes \cup {Other} ELSE {Other}] :
          dmx = [feed |-> [k \in Feeds |-> FeedRec(old[k] # Other, old[k])],
                 filter |-> [j \in Filters |-> none],
                 feed_list |-> {}, pesfilter |-> [p \in PesTypes |-> Null], ret |-> 0, oops |-> FALSE]
    BY DEF Init, DemuxInit
  <1>2. <<>> \in Seq(Filters) /\ <<>> \in Seq(EntrySet)
    OBVIOUS
  <1>3. ASSUME NEW k \in Feeds
        PROVE  FeedRec(old[k] # Other, old[k]) \in FeedSet /\ FeedRec(old[k] # Other, old[k]).state = DMX_FREE
    <2>1. old[k] \in PesTypes \cup {Other}
      OBVIOUS
    <2> QED
      BY <1>2, <2>1 DEF FeedRec, FeedSet
  <1>4. none \in SlotSet /\ none.state = DMX_FREE
    BY DEF SlotSet
  <1> HIDE DEF none
  <1>5. dmx \in DemuxSet
    BY <1>1, <1>3, <1>4 DEF DemuxSet
  <1>6. /\ \A k \in Feeds : dmx.feed[k].state = DMX_FREE
        /\ \A j \in Filters : dmx.filter[j].state = DMX_FREE
        /\ dmx.feed_list = {} /\ (\A p \in PesTypes : dmx.pesfilter[p] = Null) /\ ~dmx.oops
    BY <1>1, <1>3, <1>4
  <1>7. FilterRec \in DevSet
    <2>1. NoParams \in ParamSet
      BY DEF NoParams, ParamSet
    <2>2. FREE \in FREE .. TIMEDOUT
      BY DEF FREE, TIMEDOUT
    <2> QED
      BY <1>2, <2>1, <2>2 DEF FilterRec, DevSet
  <1>8. \A i \in Devs : flt[i] = FilterRec
    BY DEF Init
  <1>9. FilterRec.state = FREE /\ FilterRec.type = "NONE" /\ FilterRec.timer = "off"
    BY DEF FilterRec
  <1>10. flt \in [Devs -> DevSet]
    BY <1>7 DEF Init
  <1>11. now.dmx = dmx /\ now.flt = flt /\ now \in StateSet
    BY <1>5, <1>10 DEF now, StateSet
  <1>12. Typed(now)
    BY <1>8, <1>9, <1>11 DEF Typed, StateSet
  <1>13. \A i \in Devs : ~Sec(now, i) /\ ~Pes(now, i)
    BY <1>8, <1>9, <1>11 DEF Sec, Pes
  <1>14. Linked(now)
    <2>1. StatesInv(now)
      BY <1>8, <1>9, <1>11 DEF StatesInv, FREE, SET
    <2>2. SecInv(now) /\ PesInv(now) /\ ShareInv(now)
      BY <1>13 DEF SecInv, PesInv, ShareInv
    <2>3. ChainInv(now) /\ OwnerInv(now) /\ ListInv(now)
      BY <1>6, <1>11 DEF ChainInv, OwnerInv, ListInv
    <2> QED
      BY <1>6, <1>11, <2>1, <2>2, <2>3 DEF Linked
  <1>15. open = {} /\ overtaken = FALSE
    BY DEF Init
  <1>16. {i \in Devs : flt[i].state # FREE} = {}
    BY <1>8, <1>9
  <1> QED
    BY <1>12, <1>14, <1>15, <1>16 DEF DevInv

\* What the steps between the handlers store in a filter.
Opened(f) == [f EXCEPT !.state = ALLOCATED, !.type = "NONE", !.timer = "off"]
Fired(f) == [f EXCEPT !.timer = "off", !.state = TIMEDOUT]
Entered(f) == [f EXCEPT !.timer = "off", !.late = TRUE]
Late(f) == [f EXCEPT !.late = FALSE, !.state = TIMEDOUT]
Received(f, st) == [f EXCEPT !.timer = "off", !.state = st]

LEMMA StepRecords ==
  ASSUME NEW f \in DevSet
  PROVE  /\ Opened(f) \in DevSet /\ Opened(f).state = ALLOCATED /\ Opened(f).type = "NONE"
         /\ Opened(f).timer = "off"
         /\ Fired(f) \in DevSet /\ Fired(f).type = f.type /\ Fired(f).ts = f.ts /\ Fired(f).state = TIMEDOUT
         /\ f.state >= GO => Like(f, Fired(f))
         /\ Entered(f) \in DevSet /\ Entered(f).type = f.type /\ Entered(f).ts = f.ts
         /\ Entered(f).state = f.state /\ Like(f, Entered(f))
         /\ Late(f) \in DevSet /\ Late(f).type = f.type /\ Late(f).ts = f.ts /\ Late(f).state = TIMEDOUT
         /\ f.state >= GO => Like(f, Late(f))
         /\ \A st \in {GO, DONE} :
              /\ Received(f, st) \in DevSet /\ Received(f, st).type = f.type /\ Received(f, st).ts = f.ts
              /\ Received(f, st).state = st
              /\ f.state = GO => Like(f, Received(f, st))
  <1>1. {ALLOCATED, GO, DONE, TIMEDOUT} \subseteq FREE .. TIMEDOUT
    BY DEF ALLOCATED, GO, DONE, TIMEDOUT, FREE
  <1>2. TIMEDOUT >= GO /\ DONE >= GO /\ GO >= GO
    BY DEF GO, DONE, TIMEDOUT
  <1>3. /\ Opened(f) \in DevSet /\ Opened(f).state = ALLOCATED /\ Opened(f).type = "NONE"
        /\ Opened(f).timer = "off"
    BY <1>1 DEF Opened, DevSet
  <1>4. /\ Fired(f) \in DevSet /\ Fired(f).type = f.type /\ Fired(f).ts = f.ts /\ Fired(f).state = TIMEDOUT
        /\ f.state >= GO => Like(f, Fired(f))
    BY <1>1, <1>2 DEF Fired, DevSet, Like
  <1>5. /\ Entered(f) \in DevSet /\ Entered(f).type = f.type /\ Entered(f).ts = f.ts
        /\ Entered(f).state = f.state /\ Like(f, Entered(f))
    BY DEF Entered, DevSet, Like
  <1>6. /\ Late(f) \in DevSet /\ Late(f).type = f.type /\ Late(f).ts = f.ts /\ Late(f).state = TIMEDOUT
        /\ f.state >= GO => Like(f, Late(f))
    BY <1>1, <1>2 DEF Late, DevSet, Like
  <1>7. ASSUME NEW st \in {GO, DONE}
        PROVE  /\ Received(f, st) \in DevSet /\ Received(f, st).type = f.type /\ Received(f, st).ts = f.ts
               /\ Received(f, st).state = st
               /\ f.state = GO => Like(f, Received(f, st))
    BY <1>1, <1>2 DEF Received, DevSet, Like
  <1> QED
    BY <1>3, <1>4, <1>5, <1>6, <1>7

LEMMA NowTypes ==
  ASSUME DevInv
  PROVE  /\ Typed(now) /\ now \in StateSet /\ now.dmx = dmx /\ now.flt = flt
         /\ flt \in [Devs -> DevSet] /\ dmx \in DemuxSet /\ \A i \in Devs : flt[i] \in DevSet
         /\ \A i \in Devs : flt[i].state \in Int
         /\ open \subseteq Devs /\ overtaken \in BOOLEAN
  <1>1. Typed(now) /\ now \in StateSet /\ now.dmx = dmx /\ now.flt = flt
    BY DEF DevInv, now, Typed, StateSet
  <1>2. /\ flt \in [Devs -> DevSet] /\ dmx \in DemuxSet /\ \A i \in Devs : flt[i] \in DevSet
    BY <1>1 DEF StateSet
  <1>3. \A i \in Devs : flt[i].state \in Int
    BY <1>1, DevTypes
  <1> QED
    BY <1>1, <1>2, <1>3 DEF DevInv

LEMMA OpenKeeps ==
  ASSUME DevInv, Open
  PROVE  DevInv'
  <1> DEFINE i == FirstFree(flt)
             g == Opened(flt[i])
             u == [now EXCEPT !.flt[i] = g]
  <1>1. /\ Typed(now) /\ now \in StateSet /\ now.dmx = dmx /\ now.flt = flt
        /\ flt \in [Devs -> DevSet] /\ dmx \in DemuxSet /\ \A n \in Devs : flt[n] \in DevSet
        /\ open \subseteq Devs /\ overtaken \in BOOLEAN
    BY NowTypes
  <1>2. i \in Devs /\ flt[i].state = FREE
    <2>1. DOMAIN flt = 1 .. NFilters /\ NFilters \in Nat
      BY <1>1, Constants DEF Devs
    <2>2. i # Null
      BY DEF Open
    <2>3. i \in 1 .. NFilters /\ flt[i].state = DMX_FREE
      BY <2>1, <2>2, FirstFreeFacts
    <2> QED
      BY <2>3 DEF Devs, DMX_FREE, FREE
  <1>3. /\ flt' = [flt EXCEPT ![i] = g] /\ open' = open \cup {i} /\ dmx' = dmx /\ overtaken' = overtaken
    BY DEF Open, Opened
  <1> HIDE DEF i
  <1>4. g \in DevSet /\ g.state = ALLOCATED /\ g.type = "NONE" /\ g.timer = "off"
    BY <1>1, <1>2, StepRecords
  <1> HIDE DEF g
  <1>5. Idle(g) /\ flt[i].state < GO /\ ALLOCATED # FREE
    BY <1>2, <1>4 DEF Idle, ALLOCATED, SET, GO, FREE
  <1>6. /\ Typed(u) /\ u.flt[i] = g /\ u.dmx = now.dmx
        /\ Linked(now) /\ now.flt[i].state < GO /\ Idle(g) => Linked(u)
        /\ \A n \in Devs \ {i} : u.flt[n] = now.flt[n]
    <2>1. g.type = "PES" => Len(g.ts) = 1
      BY <1>4
    <2> QED
      BY <1>1, <1>2, <1>4, <2>1, StoreServes
  <1>7. u.flt = flt'
    BY <1>1, <1>3
  <1> HIDE DEF u
  <1>8. ASSUME ~overtaken' PROVE Linked(u) /\ open' = {n \in Devs : u.flt[n].state # FREE}
    <2>1. Linked(now) /\ open = {n \in Devs : flt[n].state # FREE}
      BY <1>3, <1>8 DEF DevInv
    <2>2. \A n \in Devs : u.flt[n].state # FREE <=> flt[n].state # FREE \/ n = i
      BY <1>1, <1>4, <1>5, <1>6
    <2> QED
      BY <1>1, <1>2, <1>3, <1>5, <1>6, <2>1, <2>2
  <1> QED
    BY <1>1, <1>2, <1>3, <1>6, <1>7, <1>8, Concludes

\* The ioctls and release.
LEMMA HandlersKeep ==
  ASSUME SinglePids, DevInv, NEW i \in Devs,
         \/ StartFilter(i) \/ StopFilter(i) \/ Release(i)
         \/ \E p \in SecParams, immediate \in BOOLEAN : SetFilter(i, p, immediate)
         \/ \E p \in PesParams, pid \in PesPids, immediate \in BOOLEAN : SetPesFilter(i, p, pid, immediate)
         \/ SetPesInvalid(i)
  PROVE  DevInv'
  <1>1. Bad = {{}}
    BY DEF SinglePids, Bad
  <1>2. Typed(now) /\ now.flt = flt /\ open \subseteq Devs /\ overtaken \in BOOLEAN
    BY NowTypes
  <1>3. CASE StartFilter(i)
    <2>1. i \in open /\ Becomes(FilterStart(now, i, {})) /\ UNCHANGED <<open, overtaken>>
      BY <1>1, <1>3 DEF StartFilter, Leaves
    <2>2. Serves(now, FilterStart(now, i, {}), i)
      BY <1>2, StartServes
    <2> QED
      BY <2>1, <2>2, ServesConcludes
  <1>4. CASE StopFilter(i)
    <2>1. i \in open /\ Becomes(FilterStop(now, i, {})) /\ UNCHANGED <<open, overtaken>>
      BY <1>1, <1>4 DEF StopFilter, Leaves
    <2>2. Serves(now, FilterStop(now, i, {}), i)
      BY <1>2, StopServes
    <2> QED
      BY <2>1, <2>2, ServesConcludes
  <1>5. CASE \E p \in SecParams, immediate \in BOOLEAN : SetFilter(i, p, immediate)
    <2>1. PICK p \in SecParams, immediate \in BOOLEAN : SetFilter(i, p, immediate)
      BY <1>5
    <2> DEFINE s == FilterSet(now, i, p, {})
               u == IF immediate THEN FilterStart(s, i, {}) ELSE s
    <2>2. i \in open /\ Becomes(u) /\ UNCHANGED <<open, overtaken>>
      BY <1>1, <2>1 DEF SetFilter, Leaves
    <2>3. Serves(now, s, i)
      BY <1>2, SetServes
    <2> HIDE DEF s
    <2>4. Serves(s, FilterStart(s, i, {}), i)
      BY <2>3, StartServes DEF Serves
    <2>5. Serves(now, u, i)
      BY <2>3, <2>4, ServesTrans
    <2> HIDE DEF u
    <2> QED
      BY <2>2, <2>5, ServesConcludes
  <1>6. CASE \E p \in PesParams, pid \in PesPids, immediate \in BOOLEAN : SetPesFilter(i, p, pid, immediate)
    <2>1. PICK p \in PesParams, pid \in PesPids, immediate \in BOOLEAN : SetPesFilter(i, p, pid, immediate)
      BY <1>6
    <2> DEFINE s == PesFilterSet(now, i, p, pid, {})
               u == IF immediate THEN FilterStart(s, i, {}) ELSE s
    <2>2. i \in open /\ Becomes(u) /\ UNCHANGED <<open, overtaken>>
      BY <1>1, <2>1 DEF SetPesFilter, Leaves
    <2>3. Serves(now, s, i)
      BY <1>2, PesSetServes
    <2> HIDE DEF s
    <2>4. Serves(s, FilterStart(s, i, {}), i)
      BY <2>3, StartServes DEF Serves
    <2>5. Serves(now, u, i)
      BY <2>3, <2>4, ServesTrans
    <2> HIDE DEF u
    <2> QED
      BY <2>2, <2>5, ServesConcludes
  <1>7. CASE Release(i)
    <2> DEFINE r == FilterReset(FilterStop(now, i, {}), i)
               u == [r EXCEPT !.flt[i].state = FREE]
    <2>1. i \in open /\ Becomes(u) /\ open' = open \ {i} /\ overtaken' = overtaken
      BY <1>1, <1>7 DEF Release, Leaves
    <2>2. /\ Typed(u) /\ (Linked(now) => Linked(u)) /\ u.flt[i].state = FREE
          /\ \A n \in Devs \ {i} : u.flt[n].state = FREE <=> now.flt[n].state = FREE
      BY <1>2, FreeServes
    <2> HIDE DEF u
    <2>3. ASSUME ~overtaken' PROVE Linked(u) /\ open' = {n \in Devs : u.flt[n].state # FREE}
      <3>1. Linked(now) /\ open = {n \in Devs : flt[n].state # FREE}
        BY <2>1, <2>3 DEF DevInv
      <3>2. \A n \in Devs : u.flt[n].state # FREE <=> flt[n].state # FREE /\ n # i
        BY <1>2, <2>2
      <3> QED
        BY <2>1, <2>2, <3>1, <3>2
    <2> QED
      BY <1>2, <2>1, <2>2, <2>3, HandlerConcludes
  <1>8. CASE SetPesInvalid(i)
    <2> DEFINE u == Fail(FilterReset(FilterStop(now, i, {}), i))
    <2>1. i \in open /\ Becomes(u) /\ UNCHANGED <<open, overtaken>>
      BY <1>1, <1>8 DEF SetPesInvalid, Leaves
    <2>2. Serves(now, u, i)
      BY <1>2, InvalidServes
    <2> HIDE DEF u
    <2> QED
      BY <2>1, <2>2, ServesConcludes
  <1> QED
    BY <1>3, <1>4, <1>5, <1>6, <1>7, <1>8

\* The timer function.
LEMMA TimerKeeps ==
  ASSUME DevInv, NEW i \in Devs, TimerFire(i) \/ TimerEnter(i) \/ TimerState(i)
  PROVE  DevInv'
  <1> DEFINE f == flt[i]
  <1>1. f \in DevSet /\ f.state \in Int /\ flt \in [Devs -> DevSet] /\ overtaken \in BOOLEAN
    BY NowTypes
  <1>2. ~overtaken /\ f.timer = "armed" => f.state >= GO
    BY NowTypes DEF DevInv, Linked, StatesInv, Sec
  <1>3. GO > FREE /\ TIMEDOUT # FREE
    BY DEF GO, FREE, TIMEDOUT
  <1>4. CASE TimerFire(i)
    <2>1. /\ f.timer = "armed" /\ flt' = [flt EXCEPT ![i] = Fired(f)] /\ UNCHANGED <<dmx, open, overtaken>>
      BY <1>1, <1>4 DEF TimerFire, Fired
    <2> DEFINE g == Fired(f)
    <2>2. /\ g \in DevSet /\ g.type = f.type /\ g.ts = f.ts /\ g.state = TIMEDOUT
          /\ f.state >= GO => Like(f, g)
      BY <1>1, StepRecords
    <2>3. ~overtaken' => ~overtaken /\ Like(f, g) /\ (f.state = FREE <=> g.state = FREE)
      BY <1>1, <1>2, <1>3, <2>1, <2>2 DEF GO, FREE
    <2> HIDE DEF g
    <2> QED
      BY <1>1, <2>1, <2>2, <2>3, LikeConcludes DEF g
  <1>5. CASE TimerEnter(i)
    <2>1. /\ flt' = [flt EXCEPT ![i] = Entered(f)] /\ UNCHANGED <<dmx, open, overtaken>>
      BY <1>1, <1>5 DEF TimerEnter, Entered
    <2> DEFINE g == Entered(f)
    <2>2. g \in DevSet /\ g.type = f.type /\ g.ts = f.ts /\ g.state = f.state /\ Like(f, g)
      BY <1>1, StepRecords
    <2> HIDE DEF g
    <2> QED
      BY <1>1, <2>1, <2>2, LikeConcludes DEF g
  <1>6. CASE TimerState(i)
    <2>1. /\ flt' = [flt EXCEPT ![i] = Late(f)] /\ UNCHANGED <<dmx, open>>
          /\ overtaken' = (overtaken \/ f.state < GO)
      BY <1>1, <1>6 DEF TimerState, Late
    <2> DEFINE g == Late(f)
    <2>2. /\ g \in DevSet /\ g.type = f.type /\ g.ts = f.ts /\ g.state = TIMEDOUT
          /\ f.state >= GO => Like(f, g)
      BY <1>1, StepRecords
    <2>3. ~overtaken' => ~overtaken /\ f.state >= GO
      <3>1. ~overtaken' => ~overtaken /\ ~(f.state < GO)
        BY <2>1, Zenon
      <3>2. ~(f.state < GO) => f.state >= GO
        BY <1>1 DEF GO
      <3> QED
        BY <3>1, <3>2
    <2>4. f.state >= GO => f.state # FREE /\ g.state # FREE
      BY <1>1, <1>3, <2>2 DEF GO, FREE
    <2>5. ~overtaken' => ~overtaken /\ Like(f, g) /\ (f.state = FREE <=> g.state = FREE)
      BY <2>2, <2>3, <2>4
    <2>6. overtaken' \in BOOLEAN
      BY <1>1, <2>1
    <2> HIDE DEF g
    <2> QED
      BY <2>1, <2>2, <2>5, <2>6, LikeConcludes DEF g
  <1> QED
    BY <1>4, <1>5, <1>6

\* A section arrives.
LEMMA SectionKeeps ==
  ASSUME DevInv, NEW j \in Filters, SectionCallback(j)
  PROVE  DevInv'
  <1> DEFINE i == dmx.filter[j].priv
             f == flt[i]
             st == IF f.params.oneshot THEN DONE ELSE GO
             g == Received(f, st)
  <1>1. /\ Typed(now) /\ now.dmx = dmx /\ now.flt = flt
        /\ flt \in [Devs -> DevSet] /\ \A n \in Devs : flt[n] \in DevSet
        /\ open \subseteq Devs /\ overtaken \in BOOLEAN
    BY NowTypes
  <1>2. /\ f.state = GO /\ UNCHANGED <<dmx, open, overtaken>>
        /\ flt' = [flt EXCEPT ![i].timer = "off", ![i].state = IF f.params.oneshot THEN DONE ELSE @]
    BY DEF SectionCallback
  <1>3. CASE i \in Devs
    <2> HIDE DEF i
    <2>1. flt' = [flt EXCEPT ![i] = g]
      BY <1>1, <1>2, <1>3 DEF Received, DevSet
    <2>2. f \in DevSet /\ st \in {GO, DONE}
      BY <1>1, <1>3
    <2>3. g \in DevSet /\ g.type = f.type /\ g.ts = f.ts /\ g.state = st /\ Like(f, g)
      BY <1>2, <2>2, StepRecords
    <2>4. f.state # FREE /\ g.state # FREE
      BY <1>2, <2>2, <2>3 DEF GO, DONE, FREE
    <2> HIDE DEF g
    <2> QED
      BY <1>1, <1>2, <1>3, <2>1, <2>3, <2>4, LikeConcludes
  <1>4. CASE i \notin Devs
    <2>1. flt' = flt
      BY <1>1, <1>2, <1>4
    <2>2. ~overtaken => Linked(now) /\ open = {n \in Devs : now.flt[n].state # FREE}
      BY <1>1 DEF DevInv
    <2> QED
      BY <1>1, <1>2, <2>1, <2>2, Concludes
  <1> QED
    BY <1>3, <1>4

\* Under SinglePids, DevInv holds in every state of the demux device.
THEOREM DevInvariant ==
  ASSUME SinglePids
  PROVE  Spec => []DevInv
  <1>1. Init => DevInv
    BY Initially
  <1>2. ASSUME DevInv, [Next]_vars PROVE DevInv'
    <2>1. CASE Open
      BY <1>2, <2>1, OpenKeeps
    <2>2. ASSUME NEW i \in Devs,
                 \/ StartFilter(i) \/ StopFilter(i) \/ Release(i)
                 \/ \E p \in SecParams, immediate \in BOOLEAN : SetFilter(i, p, immediate)
                 \/ \E p \in PesParams, pid \in PesPids, immediate \in BOOLEAN :
                      SetPesFilter(i, p, pid, immediate)
                 \/ SetPesInvalid(i)
          PROVE  DevInv'
      BY <1>2, <2>2, HandlersKeep
    <2>3. ASSUME NEW i \in Devs, TimerFire(i) \/ TimerEnter(i) \/ TimerState(i) PROVE DevInv'
      BY <1>2, <2>3, TimerKeeps
    <2>4. ASSUME NEW j \in Filters, SectionCallback(j) PROVE DevInv'
      BY <1>2, <2>4, SectionKeeps
    <2>5. CASE UNCHANGED vars
      <3>1. Typed(now) /\ now.dmx = dmx /\ now.flt = flt /\ open \subseteq Devs /\ overtaken \in BOOLEAN
        BY <1>2, NowTypes
      <3>2. ~overtaken => Linked(now) /\ open = {n \in Devs : now.flt[n].state # FREE}
        BY <1>2, <3>1 DEF DevInv
      <3> QED
        BY <2>5, <3>1, <3>2, Concludes DEF vars
    <2>6. AddPids = {}
      BY DEF SinglePids
    <2> QED
      BY <1>2, <2>1, <2>2, <2>3, <2>4, <2>5, <2>6 DEF Next
  <1> QED
    BY <1>1, <1>2, PTL DEF Spec

\* A filter with one PID is never left half started, nor is a section feed left idle: a
\* start that is refused gives back all it took.  So the theorems below hold without the
\* exception that their properties make for calls that fail halfway.
THEOREM DmxdevNothingHalfway ==
  ASSUME SinglePids
  PROVE  Spec => []~halfway
  <1>1. Init => ~halfway
    BY DEF Init
  <1>2. ASSUME DevInv, ~halfway, [Next]_vars PROVE ~halfway'
    <2>1. Bad = {{}} /\ AddPids = {} /\ \A s : ~LeftIdle(s, {})
      BY DEF SinglePids, Bad, LeftIdle
    <2>2. ASSUME NEW i \in Devs PROVE ~StartedPart(FilterStart(now, i, {}), i)
      <3> DEFINE s == FilterStart(now, i, {})
      <3>1. Serves(now, s, i)
        BY <1>2, NowTypes, StartServes
      <3> HIDE DEF s
      <3>2. s.flt[i].type = "PES" => Len(s.flt[i].ts) = 1
        BY <3>1 DEF Serves, Typed
      <3>3. s.flt[i].type = "PES" => ~(Len(s.flt[i].ts) > 1)
        <4>1. ~(1 > 1)
          OBVIOUS
        <4> QED
          BY <3>2, <4>1
      <3>4. ~StartedPart(s, i)
        BY <3>3, Zenon DEF StartedPart
      <3> QED
        BY <3>4 DEF s
    <2>3. ASSUME NEW i \in Devs, StartFilter(i) PROVE ~halfway'
      BY <1>2, <2>1, <2>2, <2>3 DEF StartFilter, Leaves
    <2>4. ASSUME NEW i \in Devs, StopFilter(i) \/ SetPesInvalid(i) \/ Release(i) PROVE ~halfway'
      BY <1>2, <2>1, <2>4 DEF StopFilter, SetPesInvalid, Release, Leaves
    <2>5. ASSUME NEW i \in Devs, NEW p \in SecParams, NEW immediate \in BOOLEAN, SetFilter(i, p, immediate)
          PROVE  ~halfway'
      BY <1>2, <2>1, <2>5 DEF SetFilter, Leaves
    <2>6. ASSUME NEW i \in Devs, NEW p \in PesParams, NEW pid \in PesPids, NEW immediate \in BOOLEAN,
                 SetPesFilter(i, p, pid, immediate)
          PROVE  ~halfway'
      BY <1>2, <2>1, <2>6 DEF SetPesFilter, Leaves
    <2>7. ASSUME NEW i \in Devs, TimerFire(i) \/ TimerEnter(i) \/ TimerState(i) PROVE ~halfway'
      BY <1>2, <2>7 DEF TimerFire, TimerEnter, TimerState
    <2>8. ASSUME NEW j \in Filters, SectionCallback(j) PROVE ~halfway'
      BY <1>2, <2>8 DEF SectionCallback
    <2>9. CASE Open \/ UNCHANGED vars
      BY <1>2, <2>9 DEF Open, vars
    <2> QED
      BY <1>2, <2>1, <2>3, <2>4, <2>5, <2>6, <2>7, <2>8, <2>9 DEF Next
  <1> QED
    BY <1>1, <1>2, DevInvariant, PTL DEF Spec

\* No call goes through a NULL feed pointer, stops a feed twice inside release_filter or
\* walks off a filter chain, however many filters, feeds and demux filters there are:
\* the pointers of dmxdev.c lead where it takes them to lead, as long as no timer
\* function was overtaken by the stop of its filter.
THEOREM DmxdevNoOops ==
  ASSUME SinglePids
  PROVE  Spec => []NoOops
  <1>1. DevInv => NoOops
    <2> SUFFICES ASSUME DevInv PROVE NoOops
      OBVIOUS
    <2>1. now.dmx = dmx
      BY DEF now
    <2> QED
      BY <2>1 DEF DevInv, Linked, NoOops
  <1> QED
    BY <1>1, DevInvariant, PTL

\* Every section filter that runs is served by a feed that filters its PID, and shares it
\* with all others on that PID: dvb_dmxdev_feed_restart and the shared start lose nobody.
THEOREM DmxdevSectionsServed ==
  ASSUME SinglePids
  PROVE  Spec => []SectionsServed
  <1>1. DevInv => SectionsServed
    <2> SUFFICES ASSUME DevInv, ~overtaken, NEW i \in Devs, flt[i].type = "SEC", flt[i].state >= GO
                 PROVE  LET k == flt[i].feed
                        IN  /\ k \in dmx.feed_list
                            /\ dmx.feed[k].type = "SEC" /\ dmx.feed[k].state = DMX_GO
                            /\ dmx.feed[k].is_filtering
                            /\ dmx.feed[k].pid = flt[i].params.pid
                            /\ \E n \in DOMAIN dmx.feed[k].filter : dmx.feed[k].filter[n] = flt[i].sec
                            /\ dmx.filter[flt[i].sec].priv = i
                            /\ \A n \in Running(now, flt[i].params.pid) : flt[n].feed = k
      BY DEF SectionsServed
    <2> DEFINE k == flt[i].feed
               j == flt[i].sec
    <2>1. now.dmx = dmx /\ now.flt = flt
      BY DEF now
    <2>2. Sec(now, i) /\ Linked(now)
      BY <2>1 DEF Sec, DevInv
    <2>3. SecLink(dmx, i, flt[i].params.pid, k, j)
      BY <2>1, <2>2 DEF Linked, SecInv
    <2>4. dmx.filter[j].priv = i
      BY <2>3 DEF SecLink
    <2>5. k \in dmx.feed_list
      <3>1. k \in Feeds /\ dmx.feed[k].state # DMX_FREE
        BY <2>3, StateNumbers DEF SecLink
      <3> QED
        BY <2>1, <2>2, <3>1 DEF Linked, ListInv
    <2>6. ASSUME NEW n \in Running(now, flt[i].params.pid) PROVE flt[n].feed = k
      <3>1. n \in Devs /\ Sec(now, n) /\ flt[n].params.pid = flt[i].params.pid
        BY <2>1, <2>6 DEF Running, Sec
      <3> QED
        BY <2>1, <2>2, <3>1 DEF Linked, ShareInv
    <2> QED
      BY <2>3, <2>4, <2>5, <2>6 DEF SecLink, InChain
  <1> QED
    BY <1>1, DevInvariant, PTL

\* The feeds of the running filters, seen from the filters and from the demux.
LEMMA UsedFacts ==
  ASSUME DevInv, ~overtaken
  PROVE  /\ UsedFeeds = {k \in Feeds : dmx.feed[k].state # DMX_FREE}
         /\ Linked(now) /\ now.dmx = dmx
  <1>1. now.dmx = dmx /\ now.flt = flt /\ now \in StateSet /\ Typed(now)
    BY NowTypes
  <1>2. Linked(now)
    BY DEF DevInv
  <1> DEFINE A == {flt[i].feed : i \in {n \in Devs : flt[n].type = "SEC" /\ flt[n].state >= GO}}
             B(i) == {flt[i].ts[n].ts : n \in DOMAIN flt[i].ts}
             C == UNION {B(i) : i \in {n \in Devs : flt[n].type = "PES" /\ flt[n].state >= GO}}
  <1>3. UsedFeeds = (A \cup C) \ {Null}
    BY DEF UsedFeeds
  <1>4. ASSUME NEW k \in A PROVE k \in Feeds /\ dmx.feed[k].state # DMX_FREE
    <2>1. PICK i \in Devs : flt[i].type = "SEC" /\ flt[i].state >= GO /\ k = flt[i].feed
      BY <1>4
    <2>2. SecLink(dmx, i, flt[i].params.pid, k, flt[i].sec)
      BY <1>1, <1>2, <2>1 DEF Linked, SecInv, Sec
    <2> QED
      BY <2>2, StateNumbers DEF SecLink
  <1>5. ASSUME NEW i \in Devs, flt[i].type = "PES"
        PROVE  B(i) = {flt[i].ts[1].ts}
    <2>1. flt[i].ts \in Seq(EntrySet) /\ Len(flt[i].ts) = 1
      BY <1>1, <1>5, DevTypes DEF Typed
    <2>2. DOMAIN flt[i].ts = {1}
      BY <2>1
    <2> QED
      BY <2>2
  <1>6. ASSUME NEW k \in C PROVE k \in Feeds /\ dmx.feed[k].state # DMX_FREE
    <2>1. PICK i \in Devs : flt[i].type = "PES" /\ flt[i].state >= GO /\ k \in B(i)
      BY <1>6
    <2>2. k = flt[i].ts[1].ts
      BY <1>5, <2>1
    <2>3. PesLink(dmx, i, flt[i].ts[1].pid, k)
      BY <1>1, <1>2, <2>1, <2>2 DEF Linked, PesInv, Pes
    <2> QED
      BY <2>3, StateNumbers DEF PesLink
  <1>7. ASSUME NEW k \in Feeds, dmx.feed[k].state # DMX_FREE PROVE k \in A \cup C
    <2>1. /\ dmx.feed[k].filter # <<>> /\ dmx.feed[k].filter \in Seq(Filters)
          /\ \A j \in Filters : InChain(dmx, k, j) => dmx.filter[j].state # DMX_FREE /\ dmx.filter[j].feed = k
      <3>1. dmx.feed[k] \in FeedSet
        BY NowTypes, FieldTypes
      <3> QED
        BY <1>1, <1>2, <1>7, <3>1 DEF Linked, ChainInv, FeedSet
    <2> DEFINE c == dmx.feed[k].filter
               j == c[1]
    <2>2. 1 \in DOMAIN c /\ j \in Filters
      BY <2>1
    <2>3. dmx.filter[j].state # DMX_FREE /\ dmx.filter[j].feed = k
      BY <2>1, <2>2 DEF InChain
    <2> DEFINE i == dmx.filter[j].priv
    <2>4. /\ i \in Devs
          /\ (Sec(now, i) /\ flt[i].feed = k) \/ (Pes(now, i) /\ flt[i].ts[1].ts = k)
      BY <1>1, <1>2, <2>2, <2>3 DEF Linked, OwnerInv
    <2> HIDE DEF i
    <2>5. CASE Sec(now, i) /\ flt[i].feed = k
      BY <1>1, <2>4, <2>5 DEF Sec
    <2>6. CASE Pes(now, i) /\ flt[i].ts[1].ts = k
      <3>1. flt[i].type = "PES" /\ flt[i].state >= GO
        BY <1>1, <2>6 DEF Pes
      <3>2. k \in B(i)
        BY <1>5, <2>4, <2>6, <3>1
      <3> QED
        BY <2>4, <3>1, <3>2
    <2> QED
      BY <2>4, <2>5, <2>6
  <1>8. Null \notin Feeds
    BY Constants
  <1> HIDE DEF A, C
  <1>9. UsedFeeds = {k \in Feeds : dmx.feed[k].state # DMX_FREE}
    BY <1>3, <1>4, <1>6, <1>7, <1>8
  <1> QED
    BY <1>1, <1>2, <1>9

\* A feed, demux filter or decoder that is not free belongs to a filter that runs: a start
\* that is refused half-way gives back what it took.
THEOREM DmxdevNoLeak ==
  ASSUME SinglePids
  PROVE  Spec => []NoLeak
  <1>1. DevInv => NoLeak
    <2> SUFFICES ASSUME DevInv, ~overtaken
                 PROVE  /\ {k \in Feeds : dmx.feed[k].state # DMX_FREE} = UsedFeeds
                        /\ dmx.feed_list = UsedFeeds
                        /\ \A j \in Filters : dmx.filter[j].state # DMX_FREE =>
                             /\ dmx.filter[j].feed \in UsedFeeds
                             /\ \E n \in DOMAIN dmx.feed[dmx.filter[j].feed].filter :
                                  dmx.feed[dmx.filter[j].feed].filter[n] = j
                        /\ \A p \in PesTypes : dmx.pesfilter[p] \in UsedFeeds \cup {Null}
      BY DEF NoLeak
    <2>1. /\ UsedFeeds = {k \in Feeds : dmx.feed[k].state # DMX_FREE}
          /\ Linked(now) /\ now.dmx = dmx /\ now.flt = flt
      BY UsedFacts, NowTypes
    <2>2. dmx.feed_list = UsedFeeds
      BY <2>1 DEF Linked, ListInv
    <2>3. \A p \in PesTypes : dmx.pesfilter[p] \in UsedFeeds \cup {Null}
      BY <2>1, <2>2 DEF Linked, ListInv
    <2>4. ASSUME NEW j \in Filters, dmx.filter[j].state # DMX_FREE
          PROVE  /\ dmx.filter[j].feed \in UsedFeeds
                 /\ \E n \in DOMAIN dmx.feed[dmx.filter[j].feed].filter :
                      dmx.feed[dmx.filter[j].feed].filter[n] = j
      <3> DEFINE i == dmx.filter[j].priv
                 k == dmx.filter[j].feed
      <3>1. /\ i \in Devs /\ k \in Feeds
            /\ \/ Sec(now, i) /\ flt[i].sec = j /\ flt[i].feed = k
               \/ Pes(now, i) /\ flt[i].ts[1].ts = k /\ dmx.feed[k].filter = <<j>>
        BY <2>1, <2>4 DEF Linked, OwnerInv
      <3> HIDE DEF i, k
      <3>2. CASE Sec(now, i) /\ flt[i].sec = j /\ flt[i].feed = k
        <4>1. SecLink(dmx, i, flt[i].params.pid, k, j)
          BY <2>1, <3>1, <3>2 DEF Linked, SecInv
        <4>2. dmx.feed[k].state # DMX_FREE /\ InChain(dmx, k, j)
          BY <4>1, StateNumbers DEF SecLink
        <4> QED
          BY <2>1, <3>1, <4>2 DEF InChain, k
      <3>3. CASE Pes(now, i) /\ flt[i].ts[1].ts = k /\ dmx.feed[k].filter = <<j>>
        <4>1. PesLink(dmx, i, flt[i].ts[1].pid, k)
          BY <2>1, <3>1, <3>3 DEF Linked, PesInv
        <4>2. dmx.feed[k].state # DMX_FREE
          BY <4>1, StateNumbers DEF PesLink
        <4>3. 1 \in DOMAIN <<j>> /\ <<j>>[1] = j
          OBVIOUS
        <4>4. \E n \in DOMAIN dmx.feed[k].filter : dmx.feed[k].filter[n] = j
          BY <3>3, <4>3
        <4> QED
          BY <2>1, <3>1, <4>2, <4>4 DEF k
      <3> QED
        BY <3>1, <3>2, <3>3
    <2> QED
      BY <2>1, <2>2, <2>3, <2>4
  <1> QED
    BY <1>1, DevInvariant, PTL

\* A slot of dmxdev->filter is in use exactly as long as an open file has it, and no slot
\* number comes from an allocation that failed.
THEOREM DmxdevSlotsOwned ==
  ASSUME SinglePids
  PROVE  Spec => []SlotsOwned
  <1>1. DevInv => SlotsOwned
    <2> SUFFICES ASSUME DevInv PROVE SlotsOwned
      OBVIOUS
    <2>1. dmx \in DemuxSet /\ flt \in [Devs -> DevSet] /\ open \subseteq Devs
      BY NowTypes
    <2>2. \A k \in Feeds :
            /\ dmx.feed[k].state \in {DMX_FREE, DMX_ALLOCATED, DMX_READY, DMX_GO}
            /\ dmx.feed[k].type \in {"TS", "SEC"} /\ dmx.feed[k].pid \in Nat \cup {NoPid}
            /\ dmx.feed[k].filter \in Seq(Filters)
      BY <2>1, FieldTypes DEF FeedSet
    <2>3. /\ \A j \in Filters : dmx.filter[j].state \in {DMX_FREE, DMX_READY}
          /\ dmx.feed_list \subseteq Feeds /\ dmx.pesfilter \in [PesTypes -> Feeds \cup {Null}]
      BY <2>1, FieldTypes DEF SlotSet
    <2>4. \A i \in Devs :
            /\ flt[i].state \in FREE .. TIMEDOUT /\ flt[i].type \in {"NONE", "SEC", "PES"}
            /\ flt[i].feed \in Feeds \cup {Null} /\ flt[i].sec \in Filters \cup {Null}
            /\ flt[i].ts \in Seq([pid : PesPids \cup AddPids, ts : Feeds \cup {Null}])
            /\ flt[i].timer \in {"off", "armed"} /\ flt[i].late \in BOOLEAN
      BY <2>1 DEF DevSet, EntrySet
    <2>5. TypeOK
      BY <2>1, <2>2, <2>3, <2>4 DEF TypeOK
    <2> QED
      BY <2>5 DEF SlotsOwned, DevInv
  <1> QED
    BY <1>1, DevInvariant, PTL

=============================================================================
