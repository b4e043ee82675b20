----------------------------- MODULE DvbSection -----------------------------
(***************************************************************************)
(* Section reassembly in dvb_demux.c: dvb_dmx_swfilter_section_packet and  *)
(* the functions under it, for one section feed, together with the         *)
(* multiplexer that cuts sections into TS packets and a channel that       *)
(* loses some of them.                                                     *)
(*                                                                         *)
(* A byte is <<section number, offset>>, or Stuff.  Whether the three      *)
(* bytes at a place are a section's header decides whether                 *)
(* section_length() reads its real length there or an arbitrary one.       *)
(* CRC and filter matching, which only drop sections, are left out: a      *)
(* section is delivered when dvb_dmx_swfilter_section_feed is called.      *)
(***************************************************************************)
EXTENDS Integers, Sequences

CONSTANTS
  PacketSize,   \* 188 in the code, 4 of which are the header
  MaxSection,   \* DMX_MAX_SECTION_SIZE
  CCs,          \* the continuity counter is modulo this, 16 in the code
  SecLens,      \* lengths of the sections that are sent
  GarbageLens,  \* what section_length() may read where no section starts
  MaxSections,  \* bound on the number of sections sent
  MaxStarts,    \* bound on the calls of dmx_section_feed_start_filtering
  MaxGap,       \* bound on the packets lost in a row
  Stale         \* TRUE: the feed's slot was not zero before its first use

Payload == PacketSize - 4

ASSUME SizesAssumption ==
  /\ PacketSize \in Nat /\ Payload > 3 /\ CCs \in Nat \ {0}
  /\ SecLens \subseteq 3 .. MaxSection /\ GarbageLens \subseteq 3 .. MaxSection
ASSUME BoundsAssumption ==
  MaxSections \in Nat /\ MaxStarts \in Nat /\ MaxGap \in Nat /\ Stale \in BOOLEAN

VARIABLES
  cc, pusi_seen, is_filtering, \* struct dvb_demux_feed
  secbuf, secbufp,             \* secbuf_base[0 .. tsfeedp - 1]; offset of the section being collected
  sent, rest, txcc,            \* multiplexer: lengths of the sections so far, bytes left of the last, counter
  gap, starts,                 \* packets missed in a row; start_filtering calls so far
  delivered,                   \* history: what was handed to the filters, 0 for anything but a section
  whole, intact,               \* history: sections that arrived whole; is the last one whole so far?
  rewound                      \* history: secbufp went back since the last section_new

feed == <<cc, pusi_seen, is_filtering, secbuf, secbufp>>
mux == <<sent, rest, txcc>>
hist == <<delivered, whole, intact, rewound>>
vars == <<feed, mux, gap, starts, hist>>

Stuff == <<0, 0>>

\* Mutant: room for one section and no more.
MaxSecFeedTight == MaxSection

\* DMX_MAX_SECFEED_SIZE
MaxSecFeed == MaxSection + PacketSize

tsfeedp == Len(secbuf)

Init ==
  /\ cc \in 0 .. (IF Stale THEN CCs - 1 ELSE 0)
  /\ pusi_seen \in (IF Stale THEN BOOLEAN ELSE {FALSE})
  /\ is_filtering = FALSE /\ secbuf = <<>> /\ secbufp = 0
  /\ sent = <<>> /\ rest = 0 /\ txcc = 0
  /\ gap = 0 /\ starts = 0
  /\ delivered = <<>> /\ whole = {} /\ intact = FALSE /\ rewound = FALSE

-----------------------------------------------------------------------------
(* The multiplexer.  n sections are sent with the lengths lens.            *)

Bytes(s, from, to) == [i \in 1 .. to - from |-> <<s, from + i - 1>>]
Pad(b) == b \o [i \in 1 .. Payload - Len(b) |-> Stuff]
Take(b, n) == SubSeq(b, 1, IF n < Len(b) THEN n ELSE Len(b))

\* The last n bytes of the section in transit.
RestBytes(n) == LET s == Len(sent)
                IN  IF rest = 0 THEN <<>>
                    ELSE Bytes(s, sent[s] - rest, sent[s] - rest + n)

\* A packet: PUSI, the bytes that end the section in transit, those after them.
\* PUSI = 0: no section starts in this one.
MiddlePacket ==
  [pusi |-> FALSE, cc |-> txcc, after |-> <<>>,
   before |-> IF rest < Payload THEN Pad(RestBytes(rest)) ELSE RestBytes(Payload)]

\* PUSI = 1: the pointer field, the end of the last section, then a short
\* section in full or none at all, then the first bytes of another one.
StartPacket(short, len) ==
  LET s == Len(sent)
      one == IF short = 0 THEN <<>> ELSE Bytes(s + 1, 0, short)
      two == Bytes(s + (IF short = 0 THEN 1 ELSE 2), 0, len)
      room == Payload - 1 - rest
  IN  [pusi |-> TRUE, cc |-> txcc, before |-> RestBytes(rest),
       after |-> LET b == Take(one \o two, room)
                 IN  b \o [i \in 1 .. room - Len(b) |-> Stuff]]

-----------------------------------------------------------------------------
(* The receiver.                                                           *)

\* section_length() of the bytes at offset p of b; 0xfff + 3 on stuffing.
SectionLength(b, p, g) ==
  LET s == b[p + 1][1]
  IN  CASE b[p + 2] = Stuff /\ b[p + 3] = Stuff -> MaxSection + 2
        [] s # 0 /\ SubSeq(b, p + 1, p + 3) = Bytes(s, 0, 3) -> sent'[s]
        [] OTHER -> g

\* The number of the section that makes up b, 0 if none does.
Recognise(b) == IF b[1][2] = 0 /\ b[1][1] # 0 /\ b = Bytes(b[1][1], 0, sent'[b[1][1]])
                  THEN b[1][1] ELSE 0

\* Mutant: secbufp stays where it was.
DumpAgain(b, p0, seen, g) ==
  LET dump[p \in Nat] ==
        LET n == SectionLength(b, p, g)
        IN  IF p + 2 < Len(b) /\ n <= MaxSection /\ p + n <= Len(b)
              THEN (IF seen THEN <<Recognise(SubSeq(b, p + 1, p + n))>> ELSE <<>>) \o dump[p + n]
              ELSE <<>>
  IN  [p |-> p0, out |-> dump[p0]]

\* The loop at the end of section_copy_dump, from offset p0 of b on: the new
\* secbufp and what is delivered on the way if pusi_seen is set.
Dump(b, p0, seen, g) ==
  LET dump[p \in Nat] ==
        LET n == SectionLength(b, p, g)
        IN  IF p + 2 < Len(b) /\ n <= MaxSection /\ p + n <= Len(b)
              THEN [dump[p + n] EXCEPT !.out =
                      (IF seen THEN <<Recognise(SubSeq(b, p + 1, p + n))>> ELSE <<>>) \o @]
              ELSE [p |-> p, out |-> <<>>]
  IN  dump[p0]

\* dvb_dmx_swfilter_section_copy_dump on the collector c = [buf, p, out].
CopyDump(c, bytes, seen, g) ==
  LET b == c.buf \o Take(bytes, MaxSecFeed - Len(c.buf))
      d == Dump(b, c.p, seen, g)
  IN  IF Len(c.buf) >= MaxSecFeed \/ bytes = <<>>
        THEN c
        ELSE [buf |-> b, p |-> d.p, out |-> c.out \o d.out]

\* dvb_dmx_swfilter_section_new
New(c) == [buf |-> <<>>, p |-> 0, out |-> c.out]

\* Mutant: the counter is not looked at.
CcAny(pcc) == TRUE

\* ccok; the discontinuity indicator acts as a counter that does not fit.
CcOk(pcc) == (cc + 1) % CCs = pcc

\* dvb_dmx_swfilter_section_packet
SectionPacket(pkt, g) ==
  LET c0 == [buf |-> secbuf, p |-> secbufp, out |-> <<>>]
      c1 == IF CcOk(pkt.cc) THEN c0 ELSE New(c0)
      seen == pusi_seen /\ CcOk(pkt.cc)
      c2 == CopyDump(c1, pkt.before, seen, g)
      c3 == IF pkt.pusi THEN CopyDump(New(c2), pkt.after, TRUE, g) ELSE c2
  IN  /\ cc' = pkt.cc
      /\ pusi_seen' = (pkt.pusi \/ seen)
      /\ secbuf' = c3.buf /\ secbufp' = c3.p
      /\ delivered' = delivered \o c3.out
      /\ rewound' = (rewound /\ ~pkt.pusi /\ CcOk(pkt.cc))

\* A packet arrives at a feed that is filtering, or does not.
Received(pkt) ==
  /\ is_filtering
  /\ \E g \in GarbageLens : SectionPacket(pkt, g)
  /\ gap' = 0
  /\ UNCHANGED is_filtering

Missed ==
  /\ gap < MaxGap
  /\ gap' = gap + 1
  /\ UNCHANGED <<feed, delivered, rewound>>

Middle ==
  /\ rest > 0
  /\ rest' = (IF rest < Payload THEN 0 ELSE rest - Payload)
  /\ txcc' = (txcc + 1) % CCs
  /\ UNCHANGED <<sent, starts>>
  /\ \/ /\ Received(MiddlePacket)
        /\ UNCHANGED intact
        /\ whole' = whole \cup (IF intact /\ rest' = 0 THEN {Len(sent)} ELSE {})
     \/ /\ Missed
        /\ intact' = FALSE /\ UNCHANGED whole

Start(short, len) ==
  LET new == IF short = 0 THEN <<len>> ELSE <<short, len>>
      here == Payload - 1 - rest - short       \* room for the last section
  IN  /\ here > 0
      /\ Len(sent) + Len(new) <= MaxSections
      /\ sent' = sent \o new
      /\ rest' = (IF len < here THEN 0 ELSE len - here)
      /\ txcc' = (txcc + 1) % CCs
      /\ UNCHANGED starts
      /\ \/ /\ Received(StartPacket(short, len))
            /\ intact' = TRUE
            /\ whole' = whole
                 \cup (IF intact /\ rest > 0 THEN {Len(sent)} ELSE {})
                 \cup {s \in Len(sent) + 1 .. Len(sent') : s < Len(sent') \/ rest' = 0}
         \/ /\ Missed
            /\ intact' = FALSE /\ UNCHANGED whole

\* A packet with an adaptation field and no payload: section_packet returns -1
\* and dvb_dmx_swfilter_packet_type sets secbufp back to 0.
NoPayload ==
  /\ is_filtering
  /\ secbufp' = 0
  /\ rewound' = (secbufp > 0 \/ rewound)
  /\ UNCHANGED <<cc, pusi_seen, is_filtering, secbuf, mux, gap, starts, delivered, whole, intact>>

\* dmx_section_feed_start_filtering: tsfeedp, secbufp and seclen are reset,
\* pusi_seen and cc are not.
StartFiltering ==
  /\ ~is_filtering /\ starts < MaxStarts
  /\ is_filtering' = TRUE /\ secbuf' = <<>> /\ secbufp' = 0
  /\ starts' = starts + 1
  /\ intact' = FALSE /\ rewound' = FALSE
  /\ UNCHANGED <<cc, pusi_seen, mux, gap, delivered, whole>>

\* dmx_section_feed_stop_filtering
StopFiltering ==
  /\ is_filtering
  /\ is_filtering' = FALSE
  /\ UNCHANGED <<cc, pusi_seen, secbuf, secbufp, mux, gap, starts, hist>>

Next ==
  \/ Middle
  \/ \E short \in SecLens \cup {0}, len \in SecLens : Start(short, len)
  \/ NoPayload
  \/ StartFiltering
  \/ StopFiltering

Spec == Init /\ [][Next]_vars

-----------------------------------------------------------------------------
\* Types; the section being collected starts inside the data, and the data
\* fits into secbuf_base (the "internal error should never happen" of
\* section_copy_dump).
TypeOK ==
  /\ cc \in 0 .. CCs - 1 /\ pusi_seen \in BOOLEAN /\ is_filtering \in BOOLEAN
  /\ tsfeedp <= MaxSecFeed /\ secbufp \in 0 .. tsfeedp
  /\ sent \in Seq(SecLens) /\ rest \in 0 .. MaxSection /\ txcc \in 0 .. CCs - 1
  /\ gap \in 0 .. MaxGap /\ starts \in 0 .. MaxStarts
  /\ delivered \in Seq(0 .. Len(sent)) /\ whole \subseteq 1 .. Len(sent)
  /\ intact \in BOOLEAN /\ rewound \in BOOLEAN

\* Whatever is lost in between, the filters are only handed whole sections,
\* never bytes of two of them ("prevents feeding of garbage from previous
\* section", dvb_demux.h).
WholeSections == \A i \in DOMAIN delivered : delivered[i] # 0

\* A section whose packets all arrived is delivered: no section is dropped
\* because of where the packet boundaries fall in it or how it shares packets
\* with its neighbours ("Losless Section Demux"), and secbuf_base has room for
\* it behind whatever came before (TypeOK).
Lossless ==
  /\ TypeOK
  /\ \A s \in whole : \E i \in DOMAIN delivered : delivered[i] = s

\* A step delivers sections that are newer than all those delivered before,
\* each once, unless a packet without payload set secbufp back.
InOrderOnce ==
  [][~rewound => \A i \in Len(delivered) + 1 .. Len(delivered'), j \in 1 .. Len(delivered') :
                   j < i => delivered'[j] < delivered'[i]]_vars
=============================================================================
