---------------------------- MODULE MCDvbTsSync -----------------------------
(***************************************************************************)
(* DvbTsSync for TLC: packets of 3 bytes, three of them in a stream, with  *)
(* something before the first and between the first two.                   *)
(***************************************************************************)
EXTENDS DvbTsSync

\* Sequences over S up to a length.
Upto(S, n) == UNION {[1 .. k -> S] : k \in 0 .. n}

Stream(lead, a, gap, b, c, rs) ==
  [data |-> lead \o a \o gap \o b \o c, rs |-> rs,
   packets |-> {Len(lead), Len(lead \o a \o gap), Len(lead \o a \o gap \o b)}]

PacketsOver(first, rest) == {<<f>> \o r : f \in first, r \in [1 .. PktSize - 1 -> rest]}
Clean == PacketsOver({Sync}, {Other})
Mixed == PacketsOver({Sync}, {Sync, Other})

\* Reception begins in the middle of something.
LateStreams ==
  {Stream(lead, a, <<>>, a, a, FALSE) : lead \in Upto({Sync, Other}, PktSize + 1), a \in Clean}

\* The same, with a single packet: nothing that follows it can help to find it.
SingleStreams ==
  {[data |-> lead \o a \o tail, packets |-> {Len(lead)}, rs |-> FALSE] :
     lead, tail \in Upto({Sync, Other}, PktSize), a \in Clean}

\* Packets with sync bytes in them; nothing but garbage between.
GapStreams ==
  {Stream(lead, a, gap, b, c, FALSE) :
     lead \in Upto({Other}, 1), gap \in Upto({Other}, 2), a, b, c \in Mixed}

\* Sync bytes everywhere.
BadStreams ==
  {Stream(<<Sync>>, a, gap, b, c, FALSE) : gap \in Upto({Sync, Other}, 2), a, b \in Mixed, c \in Clean}

\* 204 byte mode, with inverted sync bytes.
InvertedStreams ==
  {Stream(lead, a, <<>>, b, b, TRUE) :
     lead \in Upto({Inverted, Other}, 2),
     a \in PacketsOver({Sync, Inverted}, {Inverted, Other}), b \in PacketsOver({Inverted}, {Other})}

SmallStreams == LateStreams \cup SingleStreams \cup GapStreams \cup BadStreams \cup InvertedStreams
=============================================================================
