--------------------------- MODULE TranscoderProps ---------------------------
(***************************************************************************)
(* What tcd promises the codec streams of the reflector, and when.         *)
(***************************************************************************)
EXTENDS Transcoder

\* Replies of one module come back once and in the order of its packets, when
\* the reflector lets a transmission end before it begins the next: the four
\* vocoders finish a packet in any order, and any of them may send it.
Path(m) == INSTANCE VoicePath WITH
  said  <- Len(packets),
  heard <- [i \in DOMAIN replies[m] |-> replies[m][i].nr]
RepliesInOrder ==
  /\ \A m \in Modules : Path(m)!Init
  /\ [][\A m \in Modules : [Path(m)!Next]_(Path(m)!pathVars)]_<<packets, replies>>

\* Packets of one transmission come back once and in their order, even when the
\* transmissions of the module overlap and the hardware fails.
SameTransmission(p, q) ==
  /\ packets[p].mod = packets[q].mod
  /\ packets[p].stream = packets[q].stream
TransmissionInOrder ==
  \A m \in Modules : \A i, j \in DOMAIN replies[m] :
    i < j /\ SameTransmission(replies[m][i].nr, replies[m][j].nr) =>
      replies[m][i].nr < replies[m][j].nr

\* The voice in a reply is that of its packet, in every codec.  An M17 packet
\* has 40 ms: the second of two carries the voice of the first before its own.
FirstHalf(p) == [Voice(p) EXCEPT !.seq = @ - 1]
Expected(c, p) ==
  IF c = "m17" /\ ~IsSource("m17", p) /\ IsSecond(p)
  THEN <<FirstHalf(p), Voice(p)>>
  ELSE <<Voice(p)>>
OwnVoice ==
  \A m \in Modules : \A i \in DOMAIN replies[m] :
    LET reply == replies[m][i]
    IN  \A c \in Codecs : reply.data[c] = Expected(c, reply.nr)

\* Whatever the hardware does, nobody hears the voice of another module.
OwnModule ==
  \A m \in Modules : \A i \in DOMAIN replies[m] : \A c \in Codecs :
    \A k \in DOMAIN replies[m][i].data[c] : replies[m][i].data[c][k].mod = m

\* Both at once: overlapping transmissions and failing hardware cost answers,
\* never the order of a transmission nor whose voice it is.
RepliesSound == TransmissionInOrder /\ OwnModule

\* "wait until there is room": a device never has more than two requests,
\* although buffer_depth is counted after the request was sent and may already
\* have been counted down.
RoomKept == \A d \in Devices : Len(chip[d]) <= 2

\* Every packet is sent back, though its last vocoder may be any of the four
\* and each looks only once.
AllReplied ==
  \A p \in 1..MaxPackets : Len(packets) >= p ~> (p \in DOMAIN packets /\ packets[p].sent)

-----------------------------------------------------------------------------
(***************************************************************************)
(* The inductive invariant behind RoomKept: n requests are counted, which  *)
(* are those in the device and those it lost; the last is yet to be        *)
(* counted while the feed thread is busy, and the count is one below, or   *)
(* wraps.                                                                  *)
(***************************************************************************)
DepthInv ==
  \A d \in Devices : \E n \in 0..2 :
    /\ Len(chip[d]) <= n
    /\ depth[d] = IF d \in busy THEN CountDown(n) ELSE n

-----------------------------------------------------------------------------
(***************************************************************************)
(* The inductive invariant behind TransmissionInOrder and RepliesInOrder:  *)
(* no packet overtakes another of its transmission on its way to any       *)
(* vocoder, so that when one is complete those before it have passed.      *)
(***************************************************************************)

\* Where a packet is: in a vocoder's queue, in its hardware, in its hands, or
\* still to be passed on to it by the vocoder that decodes it.
Source(p)     == Home(packets[p].codec)
Queued(c, p)  == p \in ToSet(queue[c])
Waits(c, p)   == c \in Devices /\ p \in ToSet(waiting[c][packets[p].mod])
At(c, p)      == Queued(c, p) \/ Waits(c, p)
Handled(c, p) == todo[c].packet = p
Due(w, p) ==
  \/ At(Source(p), p)
  \/ Handled(Source(p), p) /\ w \in ToSet(todo[Source(p)].steps)

\* Packets of one transmission follow each other.
Follow(s) ==
  \A i, j \in DOMAIN s : i < j /\ SameTransmission(s[i], s[j]) => s[i] < s[j]
LinesInv ==
  /\ \A c \in Codecs : Follow(queue[c])
  /\ \A d \in Devices, m \in Modules :
       Follow(waiting[d][m]) /\ \A i \in DOMAIN waiting[d][m] : packets[waiting[d][m][i]].mod = m

\* Where p is, no packet before it is still to come.
InTurn(p, q) ==
  /\ \A c \in Codecs :
       /\ Waits(c, p) => ~Queued(c, q)
       /\ Handled(c, p) => ~At(c, q)
  /\ \A w \in Codecs \ {Source(p)} :
       /\ At(w, p) \/ Handled(w, p) => ~Due(w, q)
       /\ packets[p].data[w] # <<>> =>
            ~Due(w, q) /\ ~At(w, q) /\ (q < p => ~Handled(w, q))
TurnInv ==
  \A p, q \in DOMAIN packets : SameTransmission(p, q) /\ q <= p => InTurn(p, q)

\* The vocoder that decodes a packet passes it on to each of the others once.
JobInv ==
  \A c \in Codecs :
    LET steps == todo[c].steps
    IN  ~IsIdle(c) =>
          IF IsSource(c, todo[c].packet)
          THEN /\ ToSet(steps) \subseteq Codecs \ {c}
               /\ \A i, j \in DOMAIN steps : i # j => steps[i] # steps[j]
          ELSE steps = <<"reflector">>

\* Transmissions of a module are numbered, and in one codec each.
StreamInv ==
  /\ \A m \in Modules : latest[m] # 0 => packets[latest[m]].mod = m
  /\ \A p \in DOMAIN packets :
       LET last == latest[packets[p].mod]
       IN  /\ p <= last
           /\ packets[p].stream <= packets[last].stream
           /\ packets[p].stream = packets[last].stream => packets[p].codec = packets[last].codec
  /\ \A p, q \in DOMAIN packets : SameTransmission(p, q) => packets[p].codec = packets[q].codec

\* What was sent back was complete, and is marked.
SentInv ==
  /\ \A p \in DOMAIN packets :
       packets[p].sent => \A w \in Codecs \ {Source(p)} : packets[p].data[w] # <<>>
  /\ \A m \in Modules : \A i \in DOMAIN replies[m] :
       packets[replies[m][i].nr].sent /\ packets[replies[m][i].nr].mod = m

WayInv == LinesInv /\ TurnInv /\ JobInv /\ StreamInv /\ SentInv /\ TransmissionInOrder

\* The voices of a sequence are of module m.
Of(m, s) == \A k \in DOMAIN s : s[k].mod = m

\* Whose voice is where.
ModuleInv ==
  /\ \A p \in DOMAIN packets :
       /\ Of(packets[p].mod, packets[p].audio)
       /\ \A c \in Codecs : Of(packets[p].mod, packets[p].data[c])
  /\ \A d \in Devices : \A i \in DOMAIN chip[d] : Of(chip[d][i].mod, chip[d][i].voice)
  /\ \A s \in {"data", "audio"}, m \in Modules : Of(m, store[s][m])
  /\ OwnModule

\* When transmissions do not overlap, only packets of a module's last one are
\* still to be sent back.
TimelyInv ==
  Timely =>
    /\ \A p, q \in DOMAIN packets :
         packets[p].mod = packets[q].mod /\ q <= p => packets[q].stream <= packets[p].stream
    /\ \A p \in DOMAIN packets :
         ~packets[p].sent => packets[p].stream = packets[latest[packets[p].mod]].stream

-----------------------------------------------------------------------------
(***************************************************************************)
(* The inductive invariant behind OwnVoice, without faults and when        *)
(* transmissions do not overlap: the voice of each packet is followed from *)
(* its source through the devices and the two stores.                      *)
(***************************************************************************)

\* The packets of a transmission are numbered from 0 without a gap.
NumberInv ==
  \A p \in DOMAIN packets :
    /\ \A q \in DOMAIN packets :
         SameTransmission(p, q) /\ q < p => packets[q].seq < packets[p].seq
    /\ packets[p].seq # 0 =>
         \E q \in 1..p - 1 : SameTransmission(p, q) /\ packets[p].seq = packets[q].seq + 1

\* No packet is lost on the way to a vocoder.
PlaceInv ==
  \A p \in DOMAIN packets :
    /\ packets[p].audio = <<>> <=> At(Source(p), p)
    /\ \A w \in Codecs \ {Source(p)} : Due(w, p) \/ At(w, p) \/ packets[p].data[w] # <<>>

ValueInv ==
  \A p \in DOMAIN packets :
    /\ packets[p].audio \in {<<>>, <<Voice(p)>>}
    /\ packets[p].data[Source(p)] = <<Voice(p)>>
    /\ \A c \in Codecs : packets[p].data[c] \in {<<>>, Expected(c, p)}

\* What a device is asked is that of the packets that wait, in their order.
Asked(d, p) ==
  [mod |-> packets[p].mod, kind |-> IF IsSource(d, p) THEN "speech" ELSE "channel",
   voice |-> <<Voice(p)>>]
Asks(d, i, m) == IF i \in DOMAIN chip[d] /\ chip[d][i].mod = m THEN 1 ELSE 0
ChipInv ==
  \A d \in Devices :
    /\ \A m \in Modules : Len(waiting[d][m]) = Asks(d, 1, m) + Asks(d, 2, m)
    /\ 1 \in DOMAIN chip[d] => chip[d][1] = Asked(d, Head(waiting[d][chip[d][1].mod]))
    /\ 2 \in DOMAIN chip[d] => chip[d][2] = Asked(d, Last(waiting[d][chip[d][2].mod]))

\* The stores hold the half that belongs to the last first packet that M17's
\* thread had.
Halved(s, p) ==
  IF s = "data" THEN ~IsSource("m17", p) /\ packets[p].data["m17"] # <<>>
  ELSE packets[p].codec = "c2_1600" /\ packets[p].audio # <<>>
Half(s, p) == IF s = "data" THEN <<Voice(p)>> ELSE <<[Voice(p) EXCEPT !.seq = @ + 1]>>
LastFirst(s, p) ==
  /\ Halved(s, p) /\ ~IsSecond(p)
  /\ \A r \in DOMAIN packets :
       r > p /\ packets[r].mod = packets[p].mod /\ Halved(s, r) => IsSecond(r)
StoreInv ==
  \A s \in {"data", "audio"}, p \in DOMAIN packets :
    LastFirst(s, p) => store[s][packets[p].mod] = Half(s, p)

VoiceInv == NumberInv /\ PlaceInv /\ ValueInv /\ ChipInv /\ StoreInv /\ OwnVoice
=============================================================================
