------------------------ MODULE TranscoderVoiceProofs ------------------------
(***************************************************************************)
(* That tcd's replies carry the voices of their packets, when the hardware *)
(* answers and transmissions do not overlap: VoiceInv is inductive beside  *)
(* OrderInv.                                                               *)
(***************************************************************************)
EXTENDS TranscoderOrderProofs

-----------------------------------------------------------------------------
(***************************************************************************)
(* What is set of a packet, and what its number is.                        *)
(***************************************************************************)

\* What is set of a packet, and what is not.
LEMMA AudioOf ==
  ASSUME TypeOK, NEW p \in DOMAIN packets, NEW a,
         packets' = [packets EXCEPT ![p].audio = a]
  PROVE  \A x \in DOMAIN packets :
           /\ packets'[x].audio = IF x = p THEN a ELSE packets[x].audio
           /\ packets'[x].data = packets[x].data
<1>1. packets \in Seq(Packets) /\ packets[p] \in Packets
  BY PacketTyped DEF TypeOK
<1>2. \A x \in DOMAIN packets : x # p => packets'[x] = packets[x]
  BY <1>1
<1>3. packets'[p] = [packets[p] EXCEPT !.audio = a]
  BY <1>1
<1>4. packets'[p].audio = a /\ packets'[p].data = packets[p].data
  BY <1>1, <1>3 DEF Packets
<1>. QED
  BY <1>2, <1>4

LEMMA SentIs ==
  ASSUME TypeOK, NEW p \in DOMAIN packets,
         packets' = [packets EXCEPT ![p].sent = TRUE] \/ UNCHANGED packets
  PROVE  \A x \in DOMAIN packets :
           packets'[x].audio = packets[x].audio /\ packets'[x].data = packets[x].data
<1>1. packets \in Seq(Packets) /\ packets[p] \in Packets
  BY PacketTyped DEF TypeOK
<1>2. CASE UNCHANGED packets
  BY <1>2
<1>3. CASE packets' = [packets EXCEPT ![p].sent = TRUE]
  <2>1. \A x \in DOMAIN packets : x # p => packets'[x] = packets[x]
    BY <1>1, <1>3
  <2>2. packets'[p] = [packets[p] EXCEPT !.sent = TRUE]
    BY <1>1, <1>3
  <2>3. packets'[p].audio = packets[p].audio /\ packets'[p].data = packets[p].data
    BY <1>1, <2>2 DEF Packets
  <2>. QED
    BY <2>1, <2>3
<1>. QED
  BY <1>2, <1>3

\* Who is on his way has not been sent.
LEMMA OnItsWay ==
  ASSUME TypeOK, TurnInv, SentInv, NEW c \in Codecs, NEW p \in DOMAIN packets, At(c, p)
  PROVE  ~packets[p].sent /\ (c # Source(p) => packets[p].data[c] = <<>> /\ ~At(Source(p), p))
<1>1. p \in Nat
  BY DEF TypeOK
<1>2. InTurn(p, p)
  BY <1>1 DEF TurnInv, SameTransmission
<1>3. CASE c # Source(p)
  BY <1>2, <1>3 DEF InTurn, SentInv, Due
<1>4. CASE c = Source(p)
  <2>1. PICK w \in Codecs : w # c
    BY DEF Codecs, Devices
  <2>. QED
    BY <1>2, <1>4, <2>1 DEF InTurn, SentInv, Due
<1>. QED
  BY <1>3, <1>4

\* While a packet has not been sent, those after it in its module are of its transmission.
LEMMA LaterSame ==
  ASSUME TypeOK, StreamInv, TimelyInv, Timely,
         NEW p \in DOMAIN packets, NEW r \in DOMAIN packets,
         packets[p].mod = packets[r].mod, p <= r, ~packets[p].sent
  PROVE  SameTransmission(p, r)
<1>1. packets[p].stream \in Nat /\ packets[r].stream \in Nat
  BY PacketTyped DEF Packets
<1>2. packets[p].stream <= packets[r].stream
  BY DEF TimelyInv
<1>3. packets[r].stream <= packets[p].stream
  BY DEF TimelyInv, StreamInv
<1>. QED
  BY <1>1, <1>2, <1>3 DEF SameTransmission

LEMMA NumbersStay ==
  ASSUME TypeOK, Same, NumberInv PROVE NumberInv'
<1>. SUFFICES ASSUME NEW p \in DOMAIN packets
              PROVE  /\ \A q \in DOMAIN packets :
                          SameTransmission(p, q)' /\ q < p => packets'[q].seq < packets'[p].seq
                     /\ packets'[p].seq # 0 =>
                          \E q \in 1..p - 1 : SameTransmission(p, q)' /\ packets'[p].seq = packets'[q].seq + 1
  BY DEF NumberInv, Same
<1>1. p \in Nat /\ \A q \in 1..p - 1 : q \in DOMAIN packets
  BY DEF TypeOK
<1>2. \A q \in DOMAIN packets : (SameTransmission(p, q)' <=> SameTransmission(p, q)) /\ packets'[q].seq = packets[q].seq
  BY KeptSame DEF Same, Kept
<1>3. packets'[p].seq = packets[p].seq
  BY <1>2
<1>. QED
  BY <1>1, <1>2, <1>3 DEF NumberInv

\* The packet that comes has its number.
LEMMA NextNumber ==
  ASSUME Inv, NextPacket \/ FirstPacket
  PROVE  /\ packets' = Append(packets, packets'[Len(packets) + 1])
         /\ LET new == packets'[Len(packets) + 1]
                last == packets[latest[new.mod]]
            IN  /\ new.mod \in Modules
                /\ \A c \in Codecs : new.data[c] =
                     IF c = Home(new.codec)
                     THEN <<[mod |-> new.mod, stream |-> new.stream, seq |-> new.seq]>> ELSE <<>>
                /\ new.audio = <<>>
                /\ \/ /\ new.seq = 0
                      /\ latest[new.mod] # 0 => new.stream = last.stream + 1
                      /\ latest[new.mod] = 0 => new.stream = 1
                   \/ /\ latest[new.mod] # 0
                      /\ new.stream = last.stream /\ new.seq = last.seq + 1
<1>1. PICK m \in Modules : \E codec, stream, seq :
        /\ ReadReflector(m, codec, stream, seq)
        /\ \/ /\ seq = 0
              /\ latest[m] # 0 => stream = packets[latest[m]].stream + 1
              /\ latest[m] = 0 => stream = 1
           \/ /\ latest[m] # 0
              /\ stream = packets[latest[m]].stream /\ seq = packets[latest[m]].seq + 1
  BY DEF NextPacket, FirstPacket
<1>2. PICK codec, stream, seq :
        /\ ReadReflector(m, codec, stream, seq)
        /\ \/ /\ seq = 0
              /\ latest[m] # 0 => stream = packets[latest[m]].stream + 1
              /\ latest[m] = 0 => stream = 1
           \/ /\ latest[m] # 0
              /\ stream = packets[latest[m]].stream /\ seq = packets[latest[m]].seq + 1
  BY <1>1
<1>. DEFINE voice == [mod |-> m, stream |-> stream, seq |-> seq]
            data == [c \in Codecs |-> IF c = Home(codec) THEN <<voice>> ELSE <<>>]
            new == [mod |-> m, codec |-> codec, stream |-> stream, seq |-> seq,
                    data |-> data, audio |-> <<>>, sent |-> FALSE]
<1>3. packets' = Append(packets, new)
  BY <1>2 DEF ReadReflector
<1>4. new.mod = m /\ new.codec = codec /\ new.stream = stream /\ new.seq = seq /\ new.audio = <<>> /\ new.data = data
  OBVIOUS
<1>5. \A c \in Codecs : data[c] = IF c = Home(codec) THEN <<voice>> ELSE <<>>
  OBVIOUS
<1>. HIDE DEF new, data
<1>6. packets'[Len(packets) + 1] = new
  BY <1>3 DEF Inv, TypeOK
<1>. QED
  BY <1>2, <1>3, <1>4, <1>5, <1>6

-----------------------------------------------------------------------------
(***************************************************************************)
(* No packet is lost on the way to a vocoder.                              *)
(***************************************************************************)

LEMMA HeadOrTail ==
  ASSUME NEW S, NEW s \in Seq(S), s # <<>>, NEW x \in ToSet(s), x # Head(s)
  PROVE  x \in ToSet(Tail(s))
<1>1. PICK i \in DOMAIN s : s[i] = x
  BY DEF ToSet
<1>2. i # 1 /\ i - 1 \in DOMAIN Tail(s) /\ Tail(s)[i - 1] = x
  BY <1>1
<1>. QED
  BY <1>2 DEF ToSet

LEMMA OthersAll ==
  ASSUME NEW w \in Codecs, NEW c \in Codecs, c # w
  PROVE  c \in ToSet(Others[w])
<1>1. \A a, b, e : ToSet(<<a, b, e>>) = {a, b, e}
  <2>1. ASSUME NEW a, NEW b, NEW e PROVE ToSet(<<a, b, e>>) = {a, b, e}
    <3>1. DOMAIN <<a, b, e>> = 1..3 /\ <<a, b, e>>[1] = a /\ <<a, b, e>>[2] = b /\ <<a, b, e>>[3] = e
      OBVIOUS
    <3>. QED
      BY <3>1 DEF ToSet
  <2>. QED
    BY <2>1
<1>2. Others[w] = IF w = "dstar" THEN <<"m17", "p25", "dmr">>
                  ELSE IF w = "dmr" THEN <<"m17", "p25", "dstar">>
                  ELSE IF w = "m17" THEN <<"dstar", "dmr", "p25">> ELSE <<"dstar", "dmr", "m17">>
  BY DEF Others, Codecs, Devices
<1>. QED
  BY <1>1, <1>2 DEF Codecs, Devices

\* Who is due comes, who has come is served, and what is set stays set.
LEMMA PlacesMove ==
  ASSUME Same, PlaceInv,
         \A x \in DOMAIN packets : packets'[x].audio = <<>> <=> At(Source(x), x)',
         \A x \in DOMAIN packets, w \in Codecs :
           w # Source(x) =>
             /\ Due(w, x) => Due(w, x)' \/ At(w, x)'
             /\ At(w, x) => At(w, x)' \/ packets'[x].data[w] # <<>>
             /\ packets[x].data[w] # <<>> => packets'[x].data[w] # <<>>
  PROVE  PlaceInv'
<1>. SUFFICES ASSUME NEW x \in DOMAIN packets
              PROVE  /\ packets'[x].audio = <<>> <=> At(Source(x), x)'
                     /\ \A w \in Codecs \ {Source(x)'} : Due(w, x)' \/ At(w, x)' \/ packets'[x].data[w] # <<>>
  BY DEF PlaceInv, Same
<1>1. Source(x)' = Source(x)
  BY KeptSame DEF Same
<1>. QED
  BY <1>1 DEF PlaceInv

\* Nobody leaves, but from a line into the hardware.
LEMMA PlacesStay ==
  ASSUME TypeOK, Same, PlaceInv, UNCHANGED packets,
         \A c \in Codecs, x \in DOMAIN packets :
           (At(c, x)' <=> At(c, x)) /\ (Due(c, x) => Due(c, x)' \/ At(c, x)')
  PROVE  PlaceInv'
<1>1. ASSUME NEW x \in DOMAIN packets PROVE packets'[x].audio = <<>> <=> At(Source(x), x)'
  <2>1. PICK c \in Codecs : c = Source(x) /\ c = Source(x)'
    BY HomeTyped, KeptSame DEF Same
  <2>2. packets[x].audio = <<>> <=> At(c, x)
    BY <2>1 DEF PlaceInv
  <2>3. At(Source(x), x)' <=> At(c, x)'
    BY <2>1 DEF At, Queued, Waits
  <2>. QED
    BY <2>2, <2>3
<1>. QED
  BY <1>1, PlacesMove

LEMMA FeedPlaces ==
  ASSUME TypeOK, LinesInv, PlaceInv, NEW d \in Devices, Feed(d) PROVE PlaceInv'
<1>. d \in Codecs
  BY DEF Codecs
<1>1. PICK s, D : s = queue[d] /\ D = DOMAIN packets
  OBVIOUS
<1>2. PICK p, m : p = Head(s) /\ m = packets[p].mod
  OBVIOUS
<1>3. s \in Seq(D) /\ D \in SUBSET Nat /\ s # <<>>
  BY <1>1, Placed DEF Feed
<1>4. /\ p \in DOMAIN packets /\ p \in ToSet(s) /\ ToSet(Tail(s)) \subseteq ToSet(s)
      /\ \A x \in ToSet(s) : x # p => x \in ToSet(Tail(s))
  BY <1>1, <1>2, <1>3, HeadLeaves, HeadOrTail
<1>5. m \in Modules
  BY <1>2, <1>4, PacketTyped
<1>6. Same /\ UNCHANGED <<packets, todo>>
  BY DEF Feed, Same, Kept
<1>7. \A c \in Codecs : queue'[c] = IF c = d THEN Tail(s) ELSE queue[c]
  BY <1>1 DEF Feed, TypeOK
<1>8. \A e \in Devices, n \in Modules :
        waiting'[e][n] = IF e = d /\ n = m THEN Append(waiting[d][m], p) ELSE waiting[e][n]
  BY <1>1, <1>2, <1>5 DEF Feed, TypeOK
<1>9. ToSet(Append(waiting[d][m], p)) = ToSet(waiting[d][m]) \cup {p}
  <2>1. PICK t : t = waiting[d][m]
    OBVIOUS
  <2>2. t \in Seq(D)
    BY <1>1, <1>5, <2>1, Channel
  <2>3. p \in D
    BY <1>1, <1>4
  <2>. QED
    BY <1>3, <2>1, <2>2, <2>3, LastJoins
<1>10. \A x \in DOMAIN packets : packets[x].mod \in Modules
  BY PacketTyped
<1>11. \A c \in Codecs, x \in DOMAIN packets :
         /\ Queued(c, x)' <=> Queued(c, x) /\ ~(c = d /\ x \notin ToSet(Tail(s)))
         /\ Waits(c, x)' <=> Waits(c, x) \/ (c = d /\ x = p)
  <2>1. \A c \in Codecs, x \in DOMAIN packets :
          Queued(c, x)' <=> Queued(c, x) /\ ~(c = d /\ x \notin ToSet(Tail(s)))
    BY <1>1, <1>4, <1>7 DEF Queued
  <2>2. \A c \in Codecs, x \in DOMAIN packets : Waits(c, x)' <=> Waits(c, x) \/ (c = d /\ x = p)
    BY <1>2, <1>6, <1>8, <1>9, <1>10 DEF Waits
  <2>. QED
    BY <2>1, <2>2
<1>12. \A c \in Codecs, x \in DOMAIN packets : At(c, x)' <=> At(c, x)
  BY <1>1, <1>4, <1>11 DEF At, Queued
<1>13. ASSUME NEW c \in Codecs, NEW x \in DOMAIN packets, Due(c, x) PROVE Due(c, x)'
  <2>1. PICK e \in Codecs : e = Source(x) /\ e = Source(x)'
    BY <1>6, HomeTyped, KeptSame DEF Same
  <2>2. At(e, x)' <=> At(e, x)
    BY <1>12
  <2>. QED
    BY <1>6, <1>13, <2>1, <2>2 DEF Due, At, Queued, Waits, Handled
<1>. QED
  BY <1>6, <1>12, <1>13, PlacesStay

\* A vocoder takes a packet: its source decodes it, another encodes it.
Decodes(d, p, a) ==
  /\ d = Source(p)
  /\ \A x \in DOMAIN packets :
       /\ packets'[x].audio = IF x = p THEN a ELSE packets[x].audio
       /\ packets'[x].data = packets[x].data
Encodes(d, p, a) ==
  /\ d # Source(p)
  /\ \A x \in DOMAIN packets :
       /\ packets'[x].audio = packets[x].audio
       /\ \A e \in Codecs :
            packets'[x].data[e] = IF x = p /\ e = d THEN a ELSE packets[x].data[e]
Takes(d, p) ==
  /\ At(d, p) /\ IsIdle(d)
  /\ todo' = [todo EXCEPT ![d] = Job(d, p)]
  /\ \A c \in Codecs, x \in DOMAIN packets :
       ~(c = d /\ x = p) => (At(c, x)' <=> At(c, x))

LEMMA TakesPlaces ==
  ASSUME TypeOK, TypeOK', TurnInv', Same, PlaceInv, NEW d \in Codecs, NEW p \in DOMAIN packets,
         Takes(d, p), NEW a, a # <<>>, Decodes(d, p, a) \/ Encodes(d, p, a)
  PROVE  PlaceInv'
<1>1. \A c \in Codecs : todo'[c] = IF c = d THEN Job(d, p) ELSE todo[c]
  BY DEF TypeOK, Takes
<1>2. Handled(d, p)' /\ todo'[d].steps = IF d = Source(p) THEN Others[d] ELSE <<"reflector">>
  BY <1>1 DEF Handled, Job, IsSource, Source
<1>3. ~At(d, p)'
  <2>1. p \in DOMAIN packets' /\ p \in Nat
    BY DEF Same, TypeOK
  <2>2. InTurn(p, p)'
    BY <2>1 DEF TurnInv, SameTransmission
  <2>. QED
    BY <1>2, <2>2 DEF InTurn
<1>4. \A c \in Codecs, x \in DOMAIN packets : At(c, x)' <=> At(c, x) /\ ~(c = d /\ x = p)
  BY <1>3 DEF Takes
<1>5. ASSUME NEW x \in DOMAIN packets PROVE packets'[x].audio = <<>> <=> At(Source(x), x)'
  <2>1. PICK c \in Codecs : c = Source(x) /\ c = Source(x)'
    BY HomeTyped, KeptSame DEF Same
  <2>2. packets[x].audio = <<>> <=> At(c, x)
    BY <2>1 DEF PlaceInv
  <2>3. At(Source(x), x)' <=> At(c, x)'
    BY <2>1 DEF At, Queued, Waits
  <2>4. packets'[x].audio = <<>> <=> packets[x].audio = <<>> /\ ~(c = d /\ x = p)
    BY <2>1 DEF Decodes, Encodes
  <2>. QED
    BY <1>4, <2>2, <2>3, <2>4
<1>6. ASSUME NEW x \in DOMAIN packets, NEW w \in Codecs, w # Source(x)
      PROVE  /\ Due(w, x) => Due(w, x)' \/ At(w, x)'
             /\ At(w, x) => At(w, x)' \/ packets'[x].data[w] # <<>>
             /\ packets[x].data[w] # <<>> => packets'[x].data[w] # <<>>
  <2>1. PICK c \in Codecs : c = Source(x) /\ c = Source(x)'
    BY HomeTyped, KeptSame DEF Same
  <2>2. Due(w, x) <=> At(c, x) \/ (Handled(c, x) /\ w \in ToSet(todo[c].steps))
    BY <2>1 DEF Due
  <2>3. Due(w, x)' <=> At(c, x)' \/ (Handled(c, x)' /\ w \in ToSet(todo'[c].steps))
    BY <2>1 DEF Due, At, Queued, Waits, Handled
  <2>4. Due(w, x) => Due(w, x)'
    <3>1. CASE c = d /\ x = p
      <4>1. w \in ToSet(Others[d])
        BY <1>6, <2>1, <3>1, OthersAll
      <4>. QED
        BY <1>2, <2>1, <2>3, <3>1, <4>1
    <3>2. CASE c = d /\ x # p
      <4>1. ToSet(todo[d].steps) = {}
        BY DEF Takes, IsIdle, ToSet
      <4>. QED
        BY <1>4, <2>2, <2>3, <3>2, <4>1
    <3>3. CASE c # d
      BY <1>1, <1>4, <2>2, <2>3, <3>3 DEF Handled
    <3>. QED
      BY <3>1, <3>2, <3>3
  <2>5. At(w, x) => At(w, x)' \/ packets'[x].data[w] # <<>>
    BY <1>4, <1>6 DEF Decodes, Encodes
  <2>6. packets[x].data[w] # <<>> => packets'[x].data[w] # <<>>
    BY DEF Decodes, Encodes
  <2>. QED
    BY <2>4, <2>5, <2>6
<1>. QED
  BY <1>5, <1>6, PlacesMove

LEMMA PassOnPlaces ==
  ASSUME TypeOK, LinesInv, TurnInv, JobInv, PlaceInv, NEW w \in Codecs, PassOn(w) PROVE PlaceInv'
<1>1. /\ ~IsIdle(w) /\ StepDone(w) /\ UNCHANGED <<packets, waiting>>
      /\ Head(todo[w].steps) # "reflector"
  BY DEF PassOn, deviceVars
<1>2. PICK p, c, s : p \in DOMAIN packets /\ p = todo[w].packet /\ s = todo[w].steps /\ c = Head(s)
  BY <1>1, StepRests
<1>. p \in DOMAIN packets
  BY <1>2
<1>3. s # <<>> /\ c \in ToSet(s) /\ c # "reflector"
  BY <1>1, <1>2, StepRests
<1>4. IsSource(w, p) /\ ToSet(s) \subseteq Codecs \ {w}
  <2>1. IsSource(w, p)
    <3>1. <<"reflector">> # <<>> /\ Head(<<"reflector">>) = "reflector"
      OBVIOUS
    <3>. QED
      BY <1>1, <1>2, <1>3, <3>1 DEF JobInv
  <2>. QED
    BY <1>1, <1>2, <2>1 DEF JobInv
<1>5. c \in Codecs /\ c # w /\ Source(p) = w
  BY <1>3, <1>4 DEF IsSource, Source
<1>6. Same
  BY <1>1 DEF Same, Kept
<1>7. \A e \in Codecs : queue'[e] = IF e = c THEN Append(queue[c], p) ELSE queue[e]
  BY <1>2 DEF PassOn, Push, TypeOK
<1>8. ToSet(Append(queue[c], p)) = ToSet(queue[c]) \cup {p}
  <2>1. PICK z, D : z = queue[c] /\ D = DOMAIN packets
    OBVIOUS
  <2>2. z \in Seq(D) /\ D \in SUBSET Nat /\ p \in D
    BY <1>5, <2>1, Placed
  <2>. QED
    BY <2>1, <2>2, LastJoins
<1>9. \A e \in Codecs, x \in DOMAIN packets : At(e, x)' <=> At(e, x) \/ (e = c /\ x = p)
  <2>1. \A e \in Codecs, x \in DOMAIN packets :
          /\ Queued(e, x)' <=> Queued(e, x) \/ (e = c /\ x = p)
          /\ Waits(e, x)' <=> Waits(e, x)
    BY <1>1, <1>7, <1>8 DEF Queued, Waits
  <2>. QED
    BY <2>1 DEF At
<1>10. ASSUME NEW x \in DOMAIN packets PROVE packets'[x].audio = <<>> <=> At(Source(x), x)'
  <2>1. PICK e \in Codecs : e = Source(x) /\ e = Source(x)'
    BY <1>6, HomeTyped, KeptSame DEF Same
  <2>2. packets[x].audio = <<>> <=> At(e, x)
    BY <2>1 DEF PlaceInv
  <2>3. At(Source(x), x)' <=> At(e, x)'
    BY <2>1 DEF At, Queued, Waits
  <2>. QED
    BY <1>1, <1>5, <1>9, <2>1, <2>2, <2>3
<1>11. ASSUME NEW x \in DOMAIN packets, NEW v \in Codecs, v # Source(x)
       PROVE  Due(v, x) => Due(v, x)' \/ At(v, x)'
  <2>1. PICK e \in Codecs : e = Source(x) /\ e = Source(x)'
    BY <1>6, HomeTyped, KeptSame DEF Same
  <2>2. Due(v, x) <=> At(e, x) \/ (Handled(e, x) /\ v \in ToSet(todo[e].steps))
    BY <2>1 DEF Due
  <2>3. Due(v, x)' <=> At(e, x)' \/ (Handled(e, x)' /\ v \in ToSet(todo'[e].steps))
    BY <2>1 DEF Due, At, Queued, Waits, Handled
  <2>4. \A g \in Codecs : todo'[g] = IF g = w THEN Rest(todo[w]) ELSE todo[g]
    BY <1>1 DEF StepDone, TypeOK
  <2>5. CASE e # w
    BY <1>9, <2>2, <2>3, <2>4, <2>5 DEF Handled
  <2>6. CASE e = w /\ x # p
    BY <1>2, <1>9, <2>2, <2>3, <2>6 DEF Handled
  <2>7. CASE e = w /\ x = p /\ v = c
    BY <1>9, <2>7
  <2>8. CASE e = w /\ x = p /\ v # c
    <3>1. todo[w] \in [packet : DOMAIN packets, steps : Seq(Codecs \cup {"reflector"}) \ {<<>>}]
      BY <1>1 DEF TypeOK, Jobs, IsIdle, Idle
    <3>2. PICK S : S = Codecs \cup {"reflector"}
      OBVIOUS
    <3>3. s \in Seq(S)
      BY <1>2, <3>1, <3>2
    <3>4. v \in ToSet(s) => v \in ToSet(Tail(s))
      BY <1>2, <1>3, <2>8, <3>3, HeadOrTail
    <3>5. v \in ToSet(s) => Len(s) # 1
      <4>1. \A i \in DOMAIN Tail(s) : i + 1 \in 1..Len(s) /\ i \in Nat /\ i > 0
        BY <1>3, <3>3
      <4>. QED
        BY <3>4, <4>1 DEF ToSet
    <3>6. v \in ToSet(s) => todo'[w].packet = p /\ todo'[w].steps = Tail(s)
      <4>1. v \in ToSet(s) => todo'[w] = [todo[w] EXCEPT !.steps = Tail(s)]
        BY <1>2, <2>4, <3>5 DEF Rest
      <4>. QED
        BY <1>2, <3>1, <4>1
    <3>. QED
      BY <1>2, <1>9, <2>2, <2>3, <2>8, <3>4, <3>6 DEF Handled
  <2>. QED
    BY <2>5, <2>6, <2>7, <2>8
<1>12. \A x \in DOMAIN packets, v \in Codecs : v # Source(x) =>
         /\ At(v, x) => At(v, x)' \/ packets'[x].data[v] # <<>>
         /\ packets[x].data[v] # <<>> => packets'[x].data[v] # <<>>
  BY <1>1, <1>9
<1>. QED
  BY <1>6, <1>10, <1>11, <1>12, PlacesMove

LEMMA FinishPlaces ==
  ASSUME TypeOK, JobInv, Same, PlaceInv, NEW w \in Codecs, Finish(w),
         \A x \in DOMAIN packets :
           packets'[x].audio = packets[x].audio /\ packets'[x].data = packets[x].data
  PROVE  PlaceInv'
<1>1. /\ ~IsIdle(w) /\ StepDone(w) /\ UNCHANGED <<queue, waiting>>
      /\ Head(todo[w].steps) = "reflector"
  BY DEF Finish, deviceVars
<1>2. PICK p, s : p \in DOMAIN packets /\ p = todo[w].packet /\ s = todo[w].steps
  BY <1>1, StepRests
<1>. p \in DOMAIN packets
  BY <1>2
<1>3. Source(p) # w
  <2>1. "reflector" \in ToSet(s)
    BY <1>1, <1>2, StepRests
  <2>2. "reflector" \notin Codecs
    BY DEF Codecs, Devices
  <2>. QED
    BY <1>1, <1>2, <2>1, <2>2 DEF JobInv, IsSource, Source
<1>4. \A c \in Codecs, x \in DOMAIN packets : At(c, x)' <=> At(c, x)
  BY <1>1 DEF At, Queued, Waits, Same, Kept
<1>5. ASSUME NEW x \in DOMAIN packets PROVE packets'[x].audio = <<>> <=> At(Source(x), x)'
  <2>1. PICK c \in Codecs : c = Source(x) /\ c = Source(x)'
    BY HomeTyped, KeptSame DEF Same
  <2>2. packets[x].audio = <<>> <=> At(c, x)
    BY <2>1 DEF PlaceInv
  <2>3. At(Source(x), x)' <=> At(c, x)'
    BY <2>1 DEF At, Queued, Waits
  <2>. QED
    BY <1>4, <2>2, <2>3
<1>6. ASSUME NEW x \in DOMAIN packets, NEW v \in Codecs, Due(v, x) PROVE Due(v, x)'
  <2>1. PICK e \in Codecs : e = Source(x) /\ e = Source(x)'
    BY HomeTyped, KeptSame DEF Same
  <2>2. Due(v, x) <=> At(e, x) \/ (Handled(e, x) /\ v \in ToSet(todo[e].steps))
    BY <2>1 DEF Due
  <2>3. Due(v, x)' <=> At(e, x)' \/ (Handled(e, x)' /\ v \in ToSet(todo'[e].steps))
    BY <2>1 DEF Due, At, Queued, Waits, Handled
  <2>4. e = w => ~Handled(e, x)
    BY <1>2, <1>3, <2>1 DEF Handled
  <2>5. \A g \in Codecs : g # w => todo'[g] = todo[g]
    BY <1>1 DEF StepDone, TypeOK
  <2>. QED
    BY <1>4, <1>6, <2>2, <2>3, <2>4, <2>5 DEF Handled
<1>. QED
  BY <1>4, <1>5, <1>6, PlacesMove

-----------------------------------------------------------------------------
(***************************************************************************)
(* What a vocoder takes is the voice of the packet.                        *)
(***************************************************************************)

\* What a vocoder takes from its line or its hardware.
LEMMA SoftTakes ==
  ASSUME TypeOK, Same, NEW w \in {"m17", "p25"}, NEW p \in DOMAIN packets, Pop(w, p),
         UNCHANGED waiting
  PROVE  Takes(w, p)
<1>. w \in Codecs /\ w \notin Devices
  BY DEF Codecs, Devices
<1>1. PICK s, D : s = queue[w] /\ D = DOMAIN packets
  OBVIOUS
<1>2. s \in Seq(D) /\ D \in SUBSET Nat /\ s # <<>>
  BY <1>1, Placed DEF Pop
<1>3. /\ p = Head(s) /\ p \in ToSet(s) /\ ToSet(Tail(s)) \subseteq ToSet(s)
      /\ \A x \in ToSet(s) : x # p => x \in ToSet(Tail(s))
  BY <1>1, <1>2, HeadLeaves, HeadOrTail DEF Pop
<1>4. \A c \in Codecs : queue'[c] = IF c = w THEN Tail(s) ELSE queue[c]
  BY <1>1 DEF Pop, TypeOK
<1>5. \A c \in Codecs, x \in DOMAIN packets : ~(c = w /\ x = p) => (Queued(c, x)' <=> Queued(c, x))
  BY <1>1, <1>3, <1>4 DEF Queued
<1>6. \A c \in Codecs, x \in DOMAIN packets : Waits(c, x)' <=> Waits(c, x)
  BY DEF Waits, Same, Kept
<1>. QED
  BY <1>1, <1>3, <1>5, <1>6 DEF Takes, Pop, At, Queued

LEMMA DeviceTakes ==
  ASSUME TypeOK, LinesInv, Same, NEW d \in Devices, NEW m \in Modules, NEW p, p = Head(waiting[d][m]),
         PopWaiting(d, m), UNCHANGED queue, IsIdle(d), todo' = [todo EXCEPT ![d] = Job(d, p)]
  PROVE  p \in DOMAIN packets /\ packets[p].mod = m /\ Takes(d, p)
<1>1. PICK s, D : s = waiting[d][m] /\ D = DOMAIN packets
  OBVIOUS
<1>2. s \in Seq(D) /\ D \in SUBSET Nat /\ s # <<>>
  <2>. d \in Codecs
    BY DEF Codecs
  <2>. QED
    BY <1>1, Placed, Channel DEF PopWaiting
<1>3. /\ p \in D /\ p \in ToSet(s) /\ ToSet(Tail(s)) \subseteq ToSet(s)
      /\ \A x \in ToSet(s) : x # p => x \in ToSet(Tail(s))
  BY <1>1, <1>2, HeadLeaves, HeadOrTail
<1>4. Waits(d, p) /\ packets[p].mod = m
  BY <1>1, <1>3, Channel
<1>5. \A e \in Devices, n \in Modules :
        waiting'[e][n] = IF e = d /\ n = m THEN Tail(s) ELSE waiting[e][n]
  BY <1>1 DEF PopWaiting, TypeOK
<1>6. \A c \in Codecs, x \in DOMAIN packets :
        /\ Queued(c, x)' <=> Queued(c, x)
        /\ ~(c = d /\ x = p) => (Waits(c, x)' <=> Waits(c, x))
  <2>1. \A x \in DOMAIN packets : packets'[x].mod = packets[x].mod /\ packets[x].mod \in Modules
    BY PacketTyped DEF Same, Kept
  <2>. QED
    BY <1>1, <1>3, <1>5, <2>1 DEF Queued, Waits
<1>. QED
  BY <1>1, <1>3, <1>4, <1>6 DEF Takes, At

\* The packets that are there have the voices that are theirs.
LEMMA VoiceKept ==
  ASSUME Kept, NEW p \in DOMAIN packets
  PROVE  /\ Voice(p)' = Voice(p) /\ Source(p)' = Source(p)
         /\ IsSecond(p)' <=> IsSecond(p)
         /\ \A c : (Expected(c, p))' = Expected(c, p)
         /\ \A c : Asked(c, p)' = Asked(c, p)
         /\ \A s : Half(s, p)' = Half(s, p)
BY DEF Kept, Voice, Source, IsSecond, Expected, IsSource, FirstHalf, Asked, Half

LEMMA TakesValues ==
  ASSUME TypeOK, Same, ValueInv, NEW d \in Codecs, NEW p \in DOMAIN packets, NEW a,
         \/ Decodes(d, p, a) /\ a = <<Voice(p)>>
         \/ Encodes(d, p, a) /\ a = Expected(d, p)
  PROVE  ValueInv'
<1>. SUFFICES ASSUME NEW x \in DOMAIN packets
              PROVE  /\ packets'[x].audio \in {<<>>, <<Voice(x)>>}
                     /\ packets'[x].data[Source(x)] = <<Voice(x)>>
                     /\ \A c \in Codecs : packets'[x].data[c] \in {<<>>, Expected(c, x)}
  <2>1. \A x \in DOMAIN packets : /\ Voice(x)' = Voice(x) /\ Source(x)' = Source(x)
                                  /\ \A c : (Expected(c, x))' = Expected(c, x)
    BY VoiceKept DEF Same
  <2>. QED
    BY <2>1 DEF ValueInv, Same
<1>1. CASE Decodes(d, p, a) /\ a = <<Voice(p)>>
  BY <1>1 DEF Decodes, ValueInv
<1>2. CASE Encodes(d, p, a) /\ a = Expected(d, p)
  <2>1. PICK h \in Codecs : h = Source(x)
    BY HomeTyped
  <2>2. packets'[x].data[h] = packets[x].data[h]
    BY <1>2, <2>1 DEF Encodes
  <2>3. ASSUME NEW c \in Codecs PROVE packets'[x].data[c] \in {<<>>, Expected(c, x)}
    BY <1>2 DEF Encodes, ValueInv
  <2>. QED
    BY <1>2, <2>1, <2>2, <2>3 DEF Encodes, ValueInv
<1>. QED
  BY <1>1, <1>2

LEMMA ValuesStay ==
  ASSUME Same, ValueInv,
         \A x \in DOMAIN packets :
           packets'[x].audio = packets[x].audio /\ packets'[x].data = packets[x].data
  PROVE  ValueInv'
<1>1. \A x \in DOMAIN packets : /\ Voice(x)' = Voice(x) /\ Source(x)' = Source(x)
                                /\ \A c : (Expected(c, x))' = Expected(c, x)
  BY VoiceKept DEF Same
<1>. QED
  BY <1>1 DEF ValueInv, Same

LEMMA OwnStays ==
  ASSUME TypeOK, Kept, OwnVoice, UNCHANGED replies PROVE OwnVoice'
<1>. SUFFICES ASSUME NEW m \in Modules, NEW i \in DOMAIN replies[m], NEW c \in Codecs
              PROVE  replies[m][i].data[c] = (Expected(c, replies[m][i].nr))'
  BY DEF OwnVoice
<1>1. PICK R, r : R = [nr : DOMAIN packets, data : [Codecs -> Seq(Voices)]] /\ r = replies[m]
  OBVIOUS
<1>2. r \in Seq(R) /\ i \in DOMAIN r
  BY <1>1 DEF TypeOK
<1>3. PICK n \in DOMAIN packets : n = r[i].nr
  <2>1. r[i] \in R
    BY <1>2
  <2>. QED
    BY <1>1, <2>1
<1>4. r[i].data[c] = Expected(c, n)
  BY <1>1, <1>3 DEF OwnVoice
<1>5. (Expected(c, n))' = Expected(c, n)
  BY VoiceKept
<1>6. (Expected(c, replies[m][i].nr))' = (Expected(c, n))'
  BY <1>1, <1>3 DEF Expected, IsSource, IsSecond, FirstHalf, Voice
<1>. QED
  BY <1>1, <1>4, <1>5, <1>6

-----------------------------------------------------------------------------
(***************************************************************************)
(* What a device is asked, and what waits for its answers.                 *)
(***************************************************************************)

\* Sequences of at most two.
LEMMA Shorts ==
  ASSUME NEW S, NEW s \in Seq(S), Len(s) <= 2, s # <<>>
  PROVE  \/ Len(s) = 1 /\ DOMAIN s = {1} /\ s[1] \in S
         \/ Len(s) = 2 /\ DOMAIN s = {1, 2} /\ s[1] \in S /\ s[2] \in S
<1>1. PICK n \in Nat : n = Len(s)
  OBVIOUS
<1>2. n # 0 /\ n <= 2 /\ DOMAIN s = 1..n /\ \A i \in 1..n : s[i] \in S
  BY <1>1
<1>3. n = 1 \/ n = 2
  BY <1>2
<1>4. 1..1 = {1} /\ 1..2 = {1, 2}
  OBVIOUS
<1>. QED
  BY <1>1, <1>2, <1>3, <1>4

LEMMA OneLeft ==
  ASSUME NEW S, NEW s \in Seq(S)
  PROVE  /\ Len(s) = 1 => RemoveAt(s, 1) = <<>>
         /\ Len(s) = 2 => RemoveAt(s, 1) = <<s[2]>> /\ RemoveAt(s, 2) = <<s[1]>>
<1>1. \A x \in Seq(S) : /\ x \o <<>> = x /\ <<>> \o x = x
                        /\ Len(x) = 0 => x = <<>>
                        /\ Len(x) = 1 => x = <<x[1]>>
  OBVIOUS
<1>2. PICK n \in Nat : n = Len(s) /\ \A i \in 1..n : s[i] \in S
  OBVIOUS
<1>3. \A a, b \in Nat : a >= 1 /\ a <= b + 1 /\ b <= n =>
        /\ SubSeq(s, a, b) \in Seq(S) /\ Len(SubSeq(s, a, b)) = b - a + 1
        /\ a = b => SubSeq(s, a, b)[1] = s[a]
  BY <1>2
<1>4. CASE n = 1
  <2>1. /\ SubSeq(s, 1, 0) \in Seq(S) /\ Len(SubSeq(s, 1, 0)) = 0
        /\ SubSeq(s, 2, 1) \in Seq(S) /\ Len(SubSeq(s, 2, 1)) = 0
    BY <1>3, <1>4
  <2>2. RemoveAt(s, 1) = SubSeq(s, 1, 0) \o SubSeq(s, 2, 1)
    BY <1>2, <1>4 DEF RemoveAt
  <2>. QED
    BY <1>1, <1>2, <1>4, <2>1, <2>2
<1>5. CASE n = 2
  <2>1. /\ SubSeq(s, 1, 0) \in Seq(S) /\ Len(SubSeq(s, 1, 0)) = 0
        /\ SubSeq(s, 3, 2) \in Seq(S) /\ Len(SubSeq(s, 3, 2)) = 0
    BY <1>3, <1>5
  <2>2. /\ SubSeq(s, 1, 1) \in Seq(S) /\ Len(SubSeq(s, 1, 1)) = 1 /\ SubSeq(s, 1, 1)[1] = s[1]
        /\ SubSeq(s, 2, 2) \in Seq(S) /\ Len(SubSeq(s, 2, 2)) = 1 /\ SubSeq(s, 2, 2)[1] = s[2]
    BY <1>3, <1>5
  <2>3. /\ RemoveAt(s, 1) = SubSeq(s, 1, 0) \o SubSeq(s, 2, 2)
        /\ RemoveAt(s, 2) = SubSeq(s, 1, 1) \o SubSeq(s, 3, 2)
    BY <1>2, <1>5 DEF RemoveAt
  <2>4. SubSeq(s, 1, 0) = <<>> /\ SubSeq(s, 3, 2) = <<>>
    BY <1>1, <2>1
  <2>5. SubSeq(s, 1, 1) = <<s[1]>> /\ SubSeq(s, 2, 2) = <<s[2]>>
    BY <1>1, <2>2
  <2>6. RemoveAt(s, 1) = SubSeq(s, 2, 2) /\ RemoveAt(s, 2) = SubSeq(s, 1, 1)
    BY <1>1, <2>2, <2>3, <2>4
  <2>. QED
    BY <1>2, <1>5, <2>5, <2>6
<1>. QED
  BY <1>2, <1>4, <1>5

LEMMA TwoOf ==
  ASSUME NEW S, NEW s \in Seq(S), NEW r \in S, Len(s) = 1
  PROVE  /\ Append(s, r) \in Seq(S) /\ Len(Append(s, r)) = 2
         /\ Append(s, r)[1] = s[1] /\ Append(s, r)[2] = r
<1>1. /\ Append(s, r) \in Seq(S) /\ Len(Append(s, r)) = Len(s) + 1
      /\ Append(s, r)[Len(s) + 1] = r
      /\ \A i \in 1..Len(s) : Append(s, r)[i] = s[i]
  OBVIOUS
<1>2. 1 \in 1..Len(s) /\ Len(s) + 1 = 2
  OBVIOUS
<1>. QED
  BY <1>1, <1>2

LEMMA OneOf ==
  ASSUME NEW S, NEW s \in Seq(S), Len(s) = 1 PROVE Head(s) = Last(s)
BY DEF Last

\* What ChipInv says of one device, of what waits and of what it was asked.
Asking(s, i, m) == IF i \in DOMAIN s /\ s[i].mod = m THEN 1 ELSE 0
Row(d, W, s) ==
  /\ \A m \in Modules : Len(W[m]) = Asking(s, 1, m) + Asking(s, 2, m)
  /\ 1 \in DOMAIN s => s[1] = Asked(d, Head(W[s[1].mod]))
  /\ 2 \in DOMAIN s => s[2] = Asked(d, Last(W[s[2].mod]))

LEMMA ChipsAreRows ==
  /\ ChipInv <=> \A d \in Devices : Row(d, waiting[d], chip[d])
  /\ ChipInv' <=> \A d \in Devices : Row(d, waiting[d], chip[d])'
BY DEF ChipInv, Row, Asks, Asking

\* A device is asked once more, or has answered.
LEMMA RowAppends ==
  ASSUME NEW d, NEW D, NEW W \in [Modules -> Seq(D)], NEW s \in Seq(Requests), Len(s) <= 1,
         NEW m \in Modules, NEW p \in D, NEW r \in Requests, r = Asked(d, p), r.mod = m, Row(d, W, s)
  PROVE  Row(d, [W EXCEPT ![m] = Append(@, p)], Append(s, r))
<1>. DEFINE V == [W EXCEPT ![m] = Append(@, p)]
            t == Append(s, r)
<1>1. \A n \in Modules : V[n] = IF n = m THEN Append(W[m], p) ELSE W[n]
  OBVIOUS
<1>2. \A n \in Modules : W[n] \in Seq(D) /\ Len(W[n]) \in Nat
  OBVIOUS
<1>3. Len(V[m]) = Len(W[m]) + 1 /\ Last(V[m]) = p /\ (W[m] = <<>> => Head(V[m]) = p)
      /\ (W[m] # <<>> => Head(V[m]) = Head(W[m]))
  BY <1>1, <1>2 DEF Last
<1>. HIDE DEF V
<1>4. CASE s = <<>>
  <2>1. DOMAIN t = {1} /\ t[1] = r
    BY <1>4
  <2>2. \A n \in Modules : Len(W[n]) = 0 /\ W[n] = <<>>
    <3>1. 1 \notin DOMAIN s /\ 2 \notin DOMAIN s
      BY <1>4
    <3>2. \A n \in Modules : Len(W[n]) = 0
      BY <3>1 DEF Row, Asking
    <3>. QED
      BY <1>2, <3>2
  <2>. HIDE DEF t
  <2>3. \A n \in Modules : Len(V[n]) = IF n = m THEN 1 ELSE 0
    BY <1>1, <1>3, <2>2
  <2>4. \A n \in Modules : Len(V[n]) = Asking(t, 1, n) + Asking(t, 2, n)
    BY <2>1, <2>3 DEF Asking
  <2>5. t[1] = Asked(d, Head(V[t[1].mod]))
    BY <1>3, <2>1, <2>2
  <2>. QED
    BY <2>1, <2>4, <2>5 DEF Row, V, t
<1>5. CASE s # <<>>
  <2>1. DOMAIN s = {1} /\ DOMAIN t = {1, 2} /\ t[1] = s[1] /\ t[2] = r /\ s[1] \in Requests
    <3>1. Len(s) = 1 /\ DOMAIN s = {1} /\ s[1] \in Requests
      <4>1. PICK n \in Nat : n = Len(s)
        OBVIOUS
      <4>2. n # 2 /\ n <= 2
        BY <4>1
      <4>. QED
        BY <1>5, <4>1, <4>2, Shorts
    <3>2. t \in Seq(Requests) /\ Len(t) = 2 /\ t[1] = s[1] /\ t[2] = r
      BY <3>1, TwoOf
    <3>3. t # <<>> /\ Len(t) <= 2 /\ Len(t) # 1
      BY <3>2
    <3>. HIDE DEF t
    <3>4. DOMAIN t = {1, 2}
      BY <3>2, <3>3, Shorts
    <3>. QED
      BY <3>1, <3>2, <3>4
  <2>. HIDE DEF t
  <2>2. PICK n \in Modules : n = s[1].mod
    BY <2>1 DEF Requests
  <2>3. \A k \in Modules : Len(W[k]) = IF k = n THEN 1 ELSE 0
    BY <2>1, <2>2 DEF Row, Asking
  <2>4. \A k \in Modules : Len(V[k]) = Asking(t, 1, k) + Asking(t, 2, k)
    <3>. SUFFICES ASSUME NEW k \in Modules PROVE Len(V[k]) = Asking(t, 1, k) + Asking(t, 2, k)
      OBVIOUS
    <3>1. Asking(t, 1, k) = (IF k = n THEN 1 ELSE 0) /\ Asking(t, 2, k) = (IF k = m THEN 1 ELSE 0)
      BY <2>1, <2>2 DEF Asking
    <3>2. Len(V[k]) = IF k = m THEN Len(W[k]) + 1 ELSE Len(W[k])
      BY <1>1, <1>3
    <3>3. Len(W[k]) = IF k = n THEN 1 ELSE 0
      BY <2>3
    <3>. QED
      BY <3>1, <3>2, <3>3
  <2>5. W[n] # <<>>
    BY <2>3
  <2>6. Head(V[n]) = Head(W[n])
    BY <1>1, <1>3, <2>5
  <2>7. t[1] = Asked(d, Head(V[t[1].mod]))
    BY <2>1, <2>2, <2>6 DEF Row
  <2>8. t[2] = Asked(d, Last(V[t[2].mod]))
    BY <1>3, <2>1
  <2>. QED
    BY <2>1, <2>4, <2>7, <2>8 DEF Row, V, t
<1>. QED
  BY <1>4, <1>5

LEMMA RowRemoves ==
  ASSUME NEW d, NEW D, NEW W \in [Modules -> Seq(D)], NEW s \in Seq(Requests), Len(s) <= 2,
         NEW i \in DOMAIN s, \A j \in 1..i - 1 : s[j].mod # s[i].mod, Row(d, W, s)
  PROVE  /\ s[i] = Asked(d, Head(W[s[i].mod]))
         /\ Row(d, [W EXCEPT ![s[i].mod] = Tail(@)], RemoveAt(s, i))
<1>1. PICK m \in Modules : m = s[i].mod
  <2>1. s[i] \in Requests
    OBVIOUS
  <2>. QED
    BY <2>1 DEF Requests
<1>. DEFINE V == [W EXCEPT ![m] = Tail(@)]
            t == RemoveAt(s, i)
<1>2. \A n \in Modules : V[n] = IF n = m THEN Tail(W[m]) ELSE W[n]
  OBVIOUS
<1>3. \A n \in Modules : W[n] \in Seq(D) /\ Len(W[n]) \in Nat
  OBVIOUS
<1>4. \/ Len(s) = 1 /\ DOMAIN s = {1} /\ s[1] \in Requests
      \/ Len(s) = 2 /\ DOMAIN s = {1, 2} /\ s[1] \in Requests /\ s[2] \in Requests
  <2>1. s # <<>>
    OBVIOUS
  <2>. QED
    BY <2>1, Shorts
<1>5. CASE Len(s) = 1
  <2>1. i = 1 /\ DOMAIN s = {1} /\ t = <<>>
    BY <1>4, <1>5, OneLeft
  <2>2. \A n \in Modules : Len(W[n]) = IF n = m THEN 1 ELSE 0
    BY <1>1, <2>1 DEF Row, Asking
  <2>3. \A n \in Modules : Len(V[n]) = 0
    BY <1>2, <1>3, <2>2
  <2>4. DOMAIN t = {}
    BY <2>1
  <2>. HIDE DEF V, t
  <2>5. Row(d, V, t)
    BY <2>3, <2>4 DEF Row, Asking
  <2>. QED
    BY <1>1, <2>1, <2>5 DEF Row, V, t
<1>6. CASE Len(s) = 2 /\ DOMAIN s = {1, 2} /\ s[1] \in Requests /\ s[2] \in Requests /\ i = 1
  <2>1. DOMAIN s = {1, 2} /\ t = <<s[2]>> /\ s[2] \in Requests
    BY <1>6, <1>4, OneLeft
  <2>2. PICK n \in Modules : n = s[2].mod
    BY <2>1 DEF Requests
  <2>3. \A k \in Modules : Len(W[k]) = (IF k = m THEN 1 ELSE 0) + (IF k = n THEN 1 ELSE 0)
    BY <1>1, <1>6, <2>1, <2>2 DEF Row, Asking
  <2>4. \A k \in Modules : Len(V[k]) = IF k = n THEN 1 ELSE 0
    <3>1. Len(V[m]) = Len(W[m]) - 1
      BY <1>2, <1>3, <2>3
    <3>2. \A k \in Modules : k # m => Len(V[k]) = Len(W[k])
      BY <1>2
    <3>. HIDE DEF V
    <3>3. \A k \in Modules : k = m => Len(V[k]) = IF k = n THEN 1 ELSE 0
      BY <2>3, <3>1
    <3>. QED
      BY <2>3, <3>2, <3>3
  <2>5. Head(V[n]) = Last(W[n])
    <3>1. CASE n = m
      <4>1. Len(W[m]) = 2
        BY <2>3, <3>1
      <4>2. Head(Tail(W[m])) = W[m][2]
        BY <1>3, <4>1
      <4>. QED
        BY <1>2, <3>1, <4>1, <4>2 DEF Last
    <3>2. CASE n # m
      <4>1. Len(W[n]) = (IF n = m THEN 1 ELSE 0) + (IF n = n THEN 1 ELSE 0)
        BY <2>3
      <4>2. V[n] = W[n]
        BY <1>2, <3>2
      <4>3. Len(W[n]) = 1
        BY <3>2, <4>1
      <4>4. W[n] \in Seq(D)
        OBVIOUS
      <4>. QED
        BY <4>2, <4>3, <4>4, OneOf
    <3>. QED
      BY <3>1, <3>2
  <2>6. DOMAIN t = {1} /\ t[1] = s[2]
    BY <2>1
  <2>. HIDE DEF V, t
  <2>7. Row(d, V, t)
    BY <2>1, <2>2, <2>4, <2>5, <2>6 DEF Row, Asking
  <2>. QED
    BY <1>1, <1>6, <2>7 DEF Row, V, t
<1>7. CASE Len(s) = 2 /\ DOMAIN s = {1, 2} /\ s[1] \in Requests /\ s[2] \in Requests /\ i = 2
  <2>1. DOMAIN s = {1, 2} /\ t = <<s[1]>> /\ s[1] \in Requests /\ s[1].mod # m
    <3>1. s[1].mod # m
      BY <1>1, <1>7
    <3>. QED
      BY <1>7, <3>1, OneLeft
  <2>2. PICK n \in Modules : n = s[1].mod /\ n # m
    BY <2>1 DEF Requests
  <2>3. \A k \in Modules : Len(W[k]) = (IF k = n THEN 1 ELSE 0) + (IF k = m THEN 1 ELSE 0)
    BY <1>1, <1>7, <2>1, <2>2 DEF Row, Asking
  <2>4. Len(W[m]) = 1 /\ Last(W[m]) = Head(W[m])
    <3>1. Len(W[m]) = (IF m = n THEN 1 ELSE 0) + (IF m = m THEN 1 ELSE 0)
      BY <2>3
    <3>2. Len(W[m]) = 1
      BY <2>2, <3>1
    <3>. QED
      BY <1>3, <3>2 DEF Last
  <2>5. \A k \in Modules : Len(V[k]) = IF k = n THEN 1 ELSE 0
    <3>1. Len(V[m]) = 0
      BY <1>2, <1>3, <2>4
    <3>2. \A k \in Modules : k # m => Len(V[k]) = Len(W[k])
      BY <1>2
    <3>. HIDE DEF V
    <3>3. \A k \in Modules : k = m => Len(V[k]) = IF k = n THEN 1 ELSE 0
      BY <2>2, <3>1
    <3>. QED
      BY <2>3, <3>2, <3>3
  <2>6. DOMAIN t = {1} /\ t[1] = s[1] /\ V[n] = W[n]
    BY <1>2, <2>1, <2>2
  <2>. HIDE DEF V, t
  <2>7. Row(d, V, t)
    BY <2>1, <2>2, <2>5, <2>6 DEF Row, Asking
  <2>. QED
    BY <1>1, <1>7, <2>1, <2>4, <2>7 DEF Row, V, t
<1>. QED
  BY <1>4, <1>5, <1>6, <1>7

\* The rows of packets that are there say what they said.
LEMMA RowKept ==
  ASSUME Kept, NEW d, NEW D, D = DOMAIN packets, NEW W \in [Modules -> Seq(D)],
         NEW s \in Seq(Requests), Len(s) <= 2, Row(d, W, s)
  PROVE  Row(d, W, s)'
<1>1. \A i \in DOMAIN s : s[i].mod \in Modules
  <2>1. \A i \in DOMAIN s : s[i] \in Requests
    OBVIOUS
  <2>. QED
    BY <2>1 DEF Requests
<1>2. \A m \in Modules : Len(W[m]) \in Nat /\ (Len(W[m]) > 0 => Head(W[m]) \in D /\ Last(W[m]) \in D)
  <2>. SUFFICES ASSUME NEW m \in Modules
                PROVE  Len(W[m]) \in Nat /\ (Len(W[m]) > 0 => Head(W[m]) \in D /\ Last(W[m]) \in D)
    OBVIOUS
  <2>1. PICK z \in Seq(D) : z = W[m]
    OBVIOUS
  <2>. QED
    BY <2>1 DEF Last
<1>3. ASSUME NEW i \in {1, 2}, i \in DOMAIN s
      PROVE  Head(W[s[i].mod]) \in D /\ Last(W[s[i].mod]) \in D
  <2>1. PICK m \in Modules : m = s[i].mod
    BY <1>1, <1>3
  <2>2. Len(W[m]) = Asking(s, 1, m) + Asking(s, 2, m)
    BY DEF Row
  <2>3. Asking(s, i, m) = 1 /\ Asking(s, 1, m) \in {0, 1} /\ Asking(s, 2, m) \in {0, 1}
    BY <1>3, <2>1 DEF Asking
  <2>4. Len(W[m]) > 0
    BY <2>2, <2>3
  <2>. QED
    BY <1>2, <2>1, <2>4
<1>4. 1 \in DOMAIN s => Asked(d, Head(W[s[1].mod]))' = Asked(d, Head(W[s[1].mod]))
  BY <1>3, VoiceKept
<1>5. 2 \in DOMAIN s => Asked(d, Last(W[s[2].mod]))' = Asked(d, Last(W[s[2].mod]))
  BY <1>3, VoiceKept
<1>. QED
  BY <1>4, <1>5 DEF Row, Asking

LEMMA ChipsMove ==
  ASSUME Kept, DepthInv', NEW D, D = DOMAIN packets,
         \A d \in Devices : /\ waiting'[d] \in [Modules -> Seq(D)] /\ chip'[d] \in Seq(Requests)
                            /\ Row(d, waiting'[d], chip'[d])
  PROVE  ChipInv'
<1>1. ASSUME NEW d \in Devices PROVE Row(d, waiting[d], chip[d])'
  <2>1. PICK W, s : W = waiting'[d] /\ s = chip'[d]
    OBVIOUS
  <2>2. PICK n \in 0..2 : Len(s) <= n
    BY <2>1 DEF DepthInv
  <2>3. Len(s) <= 2
    <3>1. s \in Seq(Requests) /\ Len(s) \in Nat
      BY <2>1
    <3>. QED
      BY <2>2, <3>1
  <2>4. Row(d, W, s)'
    BY <2>1, <2>3, RowKept
  <2>. QED
    BY <2>1, <2>4 DEF Row, Asking
<1>. QED
  BY <1>1, ChipsAreRows

LEMMA ChipsStay ==
  ASSUME TypeOK, DepthInv', Kept, ChipInv, UNCHANGED <<waiting, chip>>
  PROVE  ChipInv'
<1>1. PICK D : D = DOMAIN packets
  OBVIOUS
<1>2. \A d \in Devices : /\ waiting'[d] \in [Modules -> Seq(D)] /\ chip'[d] \in Seq(Requests)
  BY <1>1 DEF TypeOK
<1>3. \A d \in Devices : Row(d, waiting'[d], chip'[d])
  BY ChipsAreRows
<1>. QED
  BY <1>1, <1>2, <1>3, ChipsMove

\* A device is asked for what the packet that is fed to it has.
LEMMA FeedAsks ==
  ASSUME TypeOK, TurnInv, SentInv, PlaceInv, ValueInv, NEW d \in Devices, Feed(d)
  PROVE  /\ Head(queue[d]) \in DOMAIN packets
         /\ Request(d, Head(queue[d])) = Asked(d, Head(queue[d]))
<1>. d \in Codecs
  BY DEF Codecs
<1>1. PICK s, D : s = queue[d] /\ D = DOMAIN packets
  OBVIOUS
<1>2. s \in Seq(D) /\ D \in SUBSET Nat /\ s # <<>>
  BY <1>1, Placed DEF Feed
<1>3. PICK p : p = Head(s)
  OBVIOUS
<1>4. p \in D /\ p \in ToSet(s)
  BY <1>2, <1>3, HeadLeaves
<1>. p \in DOMAIN packets
  BY <1>1, <1>4
<1>5. At(d, p)
  BY <1>1, <1>4 DEF At, Queued
<1>6. \A a : <<a>> # <<>>
  OBVIOUS
<1>7. CASE d = Source(p)
  <2>1. packets[p].data[d] = <<Voice(p)>>
    BY <1>7 DEF ValueInv
  <2>2. packets[p].data[d] # <<>>
    BY <1>6, <2>1
  <2>. QED
    BY <1>1, <1>3, <1>7, <2>1, <2>2 DEF Request, Asked, IsSource, Source
<1>8. CASE d # Source(p)
  <2>1. packets[p].data[d] = <<>> /\ ~At(Source(p), p)
    BY <1>5, <1>8, OnItsWay
  <2>2. packets[p].audio = <<Voice(p)>>
    BY <2>1 DEF PlaceInv, ValueInv
  <2>. QED
    BY <1>1, <1>3, <1>8, <2>1, <2>2 DEF Request, Asked, IsSource, Source
<1>. QED
  BY <1>7, <1>8

LEMMA FeedChips ==
  ASSUME Inv, Inv', TurnInv, SentInv, PlaceInv, ValueInv, ChipInv, NEW d \in Devices, Feed(d)
  PROVE  ChipInv'
<1>1. PICK D : D = DOMAIN packets
  OBVIOUS
<1>2. PICK p \in D : p = Head(queue[d]) /\ Request(d, p) = Asked(d, p)
  BY <1>1, FeedAsks DEF Inv
<1>3. PICK m \in Modules : m = packets[p].mod
  BY <1>1, <1>2, PacketTyped DEF Inv
<1>4. PICK r \in Requests : r = Request(d, p)
  BY <1>1, <1>2, RequestTyped DEF Inv
<1>5. r.mod = m
  BY <1>3, <1>4 DEF Request
<1>6. PICK W, s : W = waiting[d] /\ s = chip[d]
  OBVIOUS
<1>7. W \in [Modules -> Seq(D)] /\ s \in Seq(Requests)
  BY <1>1, <1>6 DEF Inv, TypeOK
<1>8. Len(s) <= 1
  <2>1. PICK n \in 0..2 : Len(s) <= n /\ depth[d] = n
    BY <1>6 DEF Inv, DepthInv, Feed
  <2>2. n < 2
    BY <2>1 DEF Feed
  <2>3. Len(s) \in Nat
    BY <1>7
  <2>. QED
    BY <2>1, <2>2, <2>3
<1>9. Row(d, W, s)
  BY <1>6, ChipsAreRows
<1>10. Row(d, [W EXCEPT ![m] = Append(@, p)], Append(s, r))
  BY <1>2, <1>4, <1>5, <1>7, <1>8, <1>9, RowAppends
<1>11. \A e \in Devices : /\ waiting'[e] = IF e = d THEN [W EXCEPT ![m] = Append(@, p)] ELSE waiting[e]
                          /\ chip'[e] = IF e = d THEN Append(s, r) ELSE chip[e]
  BY <1>2, <1>3, <1>4, <1>6 DEF Feed, Inv, TypeOK
<1>12. \A e \in Devices : Row(e, waiting'[e], chip'[e])
  BY <1>10, <1>11, ChipsAreRows
<1>13. Kept /\ UNCHANGED packets
  BY DEF Feed, Kept
<1>14. \A e \in Devices : waiting'[e] \in [Modules -> Seq(D)] /\ chip'[e] \in Seq(Requests)
  BY <1>1, <1>13 DEF Inv, TypeOK
<1>. QED
  BY <1>1, <1>12, <1>13, <1>14, ChipsMove DEF Inv

LEMMA DataEncodes ==
  ASSUME TypeOK, NEW p \in DOMAIN packets, NEW d \in Codecs, NEW a, SetData(d, p, a), d # Source(p)
  PROVE  Encodes(d, p, a)
<1>0. packets' = [packets EXCEPT ![p].data[d] = a]
  BY DEF SetData
<1>1. packets \in Seq(Packets) /\ packets[p] \in Packets /\ packets[p].data \in [Codecs -> Seq(Voices)]
  BY PacketTyped DEF TypeOK
<1>2. \A x \in DOMAIN packets : x # p => packets'[x] = packets[x]
  BY <1>0, <1>1
<1>3. packets'[p] = [packets[p] EXCEPT !.data = [packets[p].data EXCEPT ![d] = a]]
  BY <1>0, <1>1
<1>4. packets'[p].audio = packets[p].audio /\ packets'[p].data = [packets[p].data EXCEPT ![d] = a]
  BY <1>1, <1>3 DEF Packets
<1>5. \A e \in Codecs : packets'[p].data[e] = IF e = d THEN a ELSE packets[p].data[e]
  BY <1>1, <1>4
<1>6. \A x \in DOMAIN packets :
       /\ packets'[x].audio = packets[x].audio
       /\ \A e \in Codecs :
            packets'[x].data[e] = IF x = p /\ e = d THEN a ELSE packets[x].data[e]
  BY <1>2, <1>4, <1>5
<1>. QED
  BY <1>6 DEF Encodes

LEMMA AudioDecodes ==
  ASSUME TypeOK, NEW p \in DOMAIN packets, NEW d, NEW a, SetAudio(p, a), d = Source(p)
  PROVE  Decodes(d, p, a)
BY AudioOf DEF Decodes, SetAudio
\* The voice that a vocoder takes up is that of the packet.
TakesOwn(d, p, a) ==
  /\ Takes(d, p) /\ a # <<>>
  /\ \/ Decodes(d, p, a) /\ a = <<Voice(p)>>
     \/ Encodes(d, p, a) /\ a = Expected(d, p)

\* The answer of a device is that of the packet which takes it.
LEMMA ReadTakes ==
  ASSUME Inv, Inv', LinesInv, ChipInv, NEW d \in Devices, ReadDevice(d), Same
  PROVE  ChipInv' /\ \E p \in DOMAIN packets : TakesOwn(d, p, <<Voice(p)>>)
<1>. d \in Codecs
  BY DEF Codecs
<1>1. PICK i, m, p, s, W, D :
        /\ s = chip[d] /\ W = waiting[d] /\ D = DOMAIN packets
        /\ i \in DOMAIN s
        /\ m = s[i].mod /\ p = Head(W[m])
        /\ IsIdle(d)
        /\ PopWaiting(d, m)
        /\ \A j \in 1..i - 1 : s[j].mod # s[i].mod
        /\ chip' = [chip EXCEPT ![d] = RemoveAt(s, i)]
        /\ packets' = IF s[i].kind = "speech"
                      THEN [packets EXCEPT ![p].audio = s[i].voice]
                      ELSE [packets EXCEPT ![p].data[d] = s[i].voice]
        /\ todo' = [todo EXCEPT ![d] = Job(d, p)]
        /\ UNCHANGED queue
  BY DEF ReadDevice, Answers
<1>2. W \in [Modules -> Seq(D)] /\ s \in Seq(Requests)
  BY <1>1 DEF Inv, TypeOK
<1>3. m \in Modules
  <2>1. s[i] \in Requests
    <3>1. i \in DOMAIN s
      BY <1>1
    <3>. QED
      BY <1>2, <3>1
  <2>. QED
    BY <1>1, <2>1 DEF Requests
<1>4. Len(s) <= 2
  <2>1. PICK n \in 0..2 : Len(s) <= n
    BY <1>1 DEF Inv, DepthInv
  <2>2. Len(s) \in Nat
    BY <1>2
  <2>. QED
    BY <2>1, <2>2
<1>5. Row(d, W, s)
  BY <1>1, ChipsAreRows
<1>6. s[i] = Asked(d, p) /\ Row(d, [W EXCEPT ![m] = Tail(@)], RemoveAt(s, i))
  <2>1. i \in DOMAIN s /\ \A j \in 1..i - 1 : s[j].mod # s[i].mod
    BY <1>1
  <2>2. /\ s[i] = Asked(d, Head(W[s[i].mod]))
        /\ Row(d, [W EXCEPT ![s[i].mod] = Tail(@)], RemoveAt(s, i))
    BY <1>2, <1>4, <1>5, <2>1, RowRemoves
  <2>. QED
    BY <1>1, <2>2
<1>7. p \in DOMAIN packets /\ Takes(d, p)
  BY <1>1, <1>3, DeviceTakes DEF Inv
<1>. p \in DOMAIN packets
  BY <1>7
<1>8. ChipInv'
  <2>1. waiting' = [waiting EXCEPT ![d] = [W EXCEPT ![m] = Tail(@)]]
    BY <1>1 DEF PopWaiting
  <2>2. \A e \in Devices : /\ waiting'[e] = IF e = d THEN [W EXCEPT ![m] = Tail(@)] ELSE waiting[e]
                           /\ chip'[e] = IF e = d THEN RemoveAt(s, i) ELSE chip[e]
    <3>1. \A e \in Devices : waiting'[e] = IF e = d THEN [W EXCEPT ![m] = Tail(@)] ELSE waiting[e]
      BY <2>1 DEF Inv, TypeOK
    <3>2. \A e \in Devices : chip'[e] = IF e = d THEN RemoveAt(s, i) ELSE chip[e]
      BY <1>1 DEF Inv, TypeOK
    <3>. QED
      BY <3>1, <3>2
  <2>3. \A e \in Devices : Row(e, waiting'[e], chip'[e])
    BY <1>6, <2>2, ChipsAreRows
  <2>4. \A e \in Devices : waiting'[e] \in [Modules -> Seq(D)] /\ chip'[e] \in Seq(Requests)
    BY <1>1 DEF Inv, TypeOK, Same
  <2>. QED
    BY <1>1, <2>3, <2>4, ChipsMove DEF Inv, Same
<1>9. /\ s[i].kind = "speech" <=> d = Source(p)
      /\ s[i].voice = <<Voice(p)>>
  BY <1>6 DEF Asked, IsSource, Source
<1>10. <<Voice(p)>> # <<>> /\ Expected(d, p) = <<Voice(p)>>
  BY DEF Expected, Devices
<1>11. CASE d = Source(p)
  <2>1. packets' = [packets EXCEPT ![p].audio = <<Voice(p)>>]
    BY <1>1, <1>9, <1>11
  <2>2. Decodes(d, p, <<Voice(p)>>)
    BY <1>11, <2>1, AudioOf DEF Decodes, Inv
  <2>. QED
    BY <1>7, <1>8, <1>10, <2>2 DEF TakesOwn
<1>12. CASE d # Source(p)
  <2>1. packets' = [packets EXCEPT ![p].data[d] = <<Voice(p)>>]
    BY <1>1, <1>9, <1>12
  <2>2. SetData(d, p, <<Voice(p)>>)
    BY <2>1 DEF SetData
  <2>3. Encodes(d, p, <<Voice(p)>>)
    BY <1>12, <2>2, DataEncodes DEF Inv
  <2>. QED
    BY <1>7, <1>8, <1>10, <2>3 DEF TakesOwn
<1>. QED
  BY <1>11, <1>12

\* M17's thread had no other packet, and keeps nothing.
LEMMA StoresStay ==
  ASSUME Same, StoreInv, UNCHANGED store,
         \A s \in {"data", "audio"}, x \in DOMAIN packets : Halved(s, x)' <=> Halved(s, x)
  PROVE  StoreInv'
<1>. SUFFICES ASSUME NEW s \in {"data", "audio"}, NEW p \in DOMAIN packets, LastFirst(s, p)'
              PROVE  store[s][packets[p].mod] = Half(s, p)
  BY VoiceKept DEF StoreInv, Same, Kept
<1>1. \A x \in DOMAIN packets : (IsSecond(x)' <=> IsSecond(x)) /\ packets'[x].mod = packets[x].mod
  BY VoiceKept DEF Same, Kept
<1>2. LastFirst(s, p)
  BY <1>1 DEF LastFirst, Same
<1>. QED
  BY <1>2 DEF StoreInv

LEMMA HalvedStays ==
  ASSUME Same, NEW x \in DOMAIN packets,
         packets'[x].data["m17"] = packets[x].data["m17"],
         packets[x].codec = "c2_1600" => packets'[x].audio = packets[x].audio
  PROVE  \A s \in {"data", "audio"} : Halved(s, x)' <=> Halved(s, x)
BY DEF Halved, IsSource, Same, Kept

\* Nothing that VoiceInv speaks of changes.
LEMMA Still ==
  ASSUME Inv, Inv', VoiceInv, UNCHANGED <<packets, queue, todo, waiting, chip, store, replies>>
  PROVE  VoiceInv'
<1>. USE DEF Inv
<1>1. Same
  BY DEF Same, Kept
<1>2. ChipInv'
  BY <1>1, ChipsStay DEF VoiceInv, Same
<1>3. PlaceInv'
  <2>1. ASSUME NEW c \in Codecs, NEW x \in DOMAIN packets
        PROVE  (At(c, x)' <=> At(c, x)) /\ (Due(c, x)' <=> Due(c, x))
    <3>1. At(c, x)' <=> At(c, x)
      BY DEF At, Queued, Waits
    <3>2. Due(c, x)' <=> Due(c, x)
      BY DEF At, Due, Queued, Waits, Handled, Source
    <3>. QED
      BY <3>1, <3>2
  <2>. QED
    BY <1>1, <2>1, PlacesStay DEF VoiceInv
<1>4. ValueInv' /\ NumberInv' /\ OwnVoice'
  BY <1>1, ValuesStay, NumbersStay, OwnStays DEF VoiceInv, Same
<1>5. StoreInv'
  BY <1>1, HalvedStays, StoresStay DEF VoiceInv
<1>. QED
  BY <1>2, <1>3, <1>4, <1>5 DEF VoiceInv

LEMMA ReadSpeaks ==
  ASSUME Inv, Inv', LinesInv, TurnInv', VoiceInv, NEW d \in Devices, ReadDevice(d), Same
  PROVE  VoiceInv'
<1>. d \in Codecs /\ d # "m17"
  BY DEF Codecs, Devices
<1>. USE DEF Inv
<1>1. PICK p \in DOMAIN packets : TakesOwn(d, p, <<Voice(p)>>)
  BY ReadTakes DEF VoiceInv
<1>2. ChipInv'
  BY ReadTakes DEF VoiceInv
<1>3. PlaceInv' /\ ValueInv'
  BY <1>1, TakesPlaces, TakesValues DEF VoiceInv, TakesOwn
<1>4. NumberInv'
  BY NumbersStay DEF VoiceInv
<1>5. OwnVoice'
  BY OwnStays DEF VoiceInv, ReadDevice, Same
<1>6. StoreInv'
  <2>1. UNCHANGED store
    BY DEF ReadDevice
  <2>2. ASSUME NEW x \in DOMAIN packets
        PROVE  /\ packets'[x].data["m17"] = packets[x].data["m17"]
               /\ packets[x].codec = "c2_1600" => packets'[x].audio = packets[x].audio
    BY <1>1 DEF TakesOwn, Decodes, Encodes, Source, Home, Codecs
  <2>3. \A s \in {"data", "audio"}, x \in DOMAIN packets : Halved(s, x)' <=> Halved(s, x)
    BY <2>2, HalvedStays
  <2>. QED
    BY <2>1, <2>3, StoresStay DEF VoiceInv
<1>. QED
  BY <1>2, <1>3, <1>4, <1>5, <1>6 DEF VoiceInv

LEMMA FeedSpeaks ==
  ASSUME Inv, Inv', LinesInv, TurnInv, SentInv, VoiceInv, NEW d \in Devices, Feed(d)
  PROVE  VoiceInv'
<1>. USE DEF Inv
<1>1. Same /\ UNCHANGED <<packets, store, replies>>
  BY DEF Feed, Same, Kept
<1>2. ChipInv' /\ PlaceInv'
  BY FeedChips, FeedPlaces DEF VoiceInv
<1>3. ValueInv' /\ NumberInv' /\ OwnVoice'
  BY <1>1, ValuesStay, NumbersStay, OwnStays DEF VoiceInv, Same
<1>4. StoreInv'
  BY <1>1, HalvedStays, StoresStay DEF VoiceInv
<1>. QED
  BY <1>2, <1>3, <1>4 DEF VoiceInv

LEMMA PassOnSpeaks ==
  ASSUME Inv, Inv', LinesInv, TurnInv, JobInv, VoiceInv, NEW w \in Codecs, PassOn(w)
  PROVE  VoiceInv'
<1>. USE DEF Inv
<1>1. Same /\ UNCHANGED <<packets, waiting, chip, store, replies>>
  BY DEF PassOn, deviceVars, Same, Kept
<1>2. ChipInv' /\ PlaceInv'
  BY <1>1, ChipsStay, PassOnPlaces DEF VoiceInv, Same
<1>3. ValueInv' /\ NumberInv' /\ OwnVoice'
  BY <1>1, ValuesStay, NumbersStay, OwnStays DEF VoiceInv, Same
<1>4. StoreInv'
  BY <1>1, HalvedStays, StoresStay DEF VoiceInv
<1>. QED
  BY <1>2, <1>3, <1>4 DEF VoiceInv

\* A reply is sent with all the voices that belong to its packet.
LEMMA OwnGrows ==
  ASSUME TypeOK, Kept, OwnVoice, NEW p \in DOMAIN packets,
         \A c \in Codecs : packets[p].data[c] = Expected(c, p),
         replies' = [replies EXCEPT ![packets[p].mod] =
                       Append(@, [nr |-> p, data |-> packets[p].data])]
  PROVE  OwnVoice'
<1>1. PICK n, reply, R :
        /\ n \in Modules /\ n = packets[p].mod
        /\ reply = [nr |-> p, data |-> packets[p].data]
        /\ R = [nr : DOMAIN packets, data : [Codecs -> Seq(Voices)]]
  BY PacketTyped
<1>2. reply \in R /\ reply.nr = p /\ reply.data = packets[p].data
  BY <1>1, PacketTyped
<1>3. \A k \in Modules : replies[k] \in Seq(R) /\ replies'[k] = IF k = n THEN Append(replies[n], reply) ELSE replies[k]
  BY <1>1 DEF TypeOK
<1>. SUFFICES ASSUME NEW m \in Modules, NEW i \in DOMAIN replies'[m], NEW c \in Codecs
              PROVE  replies'[m][i].data[c] = (Expected(c, replies[m][i].nr))'
  BY DEF OwnVoice
<1>4. PICK e : e = replies'[m][i]
  OBVIOUS
<1>5. e = reply \/ \E j \in DOMAIN replies[m] : e = replies[m][j]
  <2>1. PICK s \in Seq(R) : s = replies[m]
    BY <1>3
  <2>2. \A j \in DOMAIN Append(s, reply) : Append(s, reply)[j] = reply \/ \E k \in DOMAIN s : Append(s, reply)[j] = s[k]
    BY <1>2
  <2>3. replies'[m] = Append(s, reply) \/ replies'[m] = s
    BY <1>3, <2>1
  <2>4. CASE replies'[m] = s
    BY <1>4, <2>1, <2>4
  <2>5. CASE replies'[m] = Append(s, reply)
    <3>1. PICK t : t = Append(s, reply)
      OBVIOUS
    <3>2. i \in DOMAIN t /\ e = t[i]
      BY <1>4, <2>5, <3>1
    <3>3. \A j \in DOMAIN t : t[j] = reply \/ \E k \in DOMAIN s : t[j] = s[k]
      BY <2>2, <3>1
    <3>. QED
      BY <2>1, <3>2, <3>3
  <2>. QED
    BY <2>3, <2>4, <2>5
<1>6. e.nr \in DOMAIN packets /\ e.data[c] = Expected(c, e.nr)
  <2>1. CASE e = reply
    BY <1>2, <2>1
  <2>2. CASE \E j \in DOMAIN replies[m] : e = replies[m][j]
    <3>1. PICK s \in Seq(R) : s = replies[m]
      BY <1>3
    <3>2. PICK j \in DOMAIN s : e = s[j]
      BY <2>2, <3>1
    <3>3. e \in R
      BY <3>2
    <3>. QED
      BY <1>1, <3>1, <3>2, <3>3 DEF OwnVoice
  <2>. QED
    BY <1>5, <2>1, <2>2
<1>7. PICK x \in DOMAIN packets : x = e.nr
  BY <1>6
<1>8. (Expected(c, x))' = Expected(c, x)
  BY VoiceKept
<1>9. (Expected(c, replies[m][i].nr))' = (Expected(c, x))'
  BY <1>4, <1>7 DEF Expected, IsSource, IsSecond, FirstHalf, Voice
<1>. QED
  BY <1>4, <1>6, <1>7, <1>8, <1>9

LEMMA FinishSpeaks ==
  ASSUME Inv, Inv', JobInv, VoiceInv, NEW w \in Codecs, Finish(w)
  PROVE  VoiceInv'
<1>. USE DEF Inv
<1>1. /\ ~IsIdle(w) /\ StepDone(w) /\ Head(todo[w].steps) = "reflector"
      /\ UNCHANGED <<queue, waiting, chip, store>>
  BY DEF Finish, deviceVars
<1>2. PICK p \in DOMAIN packets : p = todo[w].packet
  BY <1>1, StepRests
<1>3. \/ Complete(p) /\ SendToReflector(p)
      \/ UNCHANGED <<packets, replies>>
  BY <1>2 DEF Finish
<1>4. packets' = [packets EXCEPT ![p].sent = TRUE] \/ UNCHANGED packets
  BY <1>3 DEF SendToReflector
<1>5. Same
  <2>1. PICK c \in Codecs : TRUE
    OBVIOUS
  <2>. QED
    BY <1>4, SetKeeps
<1>6. \A x \in DOMAIN packets :
        packets'[x].audio = packets[x].audio /\ packets'[x].data = packets[x].data
  BY <1>4, SentIs
<1>7. NumberInv' /\ PlaceInv' /\ ValueInv' /\ ChipInv'
  BY <1>1, <1>5, <1>6, NumbersStay, FinishPlaces, ValuesStay, ChipsStay DEF VoiceInv, Same
<1>8. StoreInv'
  BY <1>1, <1>5, <1>6, HalvedStays, StoresStay DEF VoiceInv
<1>9. OwnVoice'
  <2>1. CASE UNCHANGED replies
    BY <1>5, <2>1, OwnStays DEF VoiceInv, Same
  <2>2. CASE Complete(p) /\ SendToReflector(p)
    <3>1. \A c \in Codecs : packets[p].data[c] = Expected(c, p)
      BY <2>2 DEF Complete, AllCodecsAreSet, VoiceInv, ValueInv
    <3>. QED
      BY <1>5, <2>2, <3>1, OwnGrows DEF SendToReflector, VoiceInv, Same
  <2>. QED
    BY <1>3, <2>1, <2>2
<1>. QED
  BY <1>7, <1>8, <1>9 DEF VoiceInv

-----------------------------------------------------------------------------
(***************************************************************************)
(* M17's thread and its two stores.                                        *)
(***************************************************************************)

\* The halves that store s is about.
Halves(s, p) ==
  IF s = "data" THEN ~IsSource("m17", p) ELSE packets[p].codec = "c2_1600"

\* While a packet is in M17's queue, none after it has passed there.
LEMMA NoneBefore ==
  ASSUME TypeOK, TurnInv, StreamInv, PlaceInv, NEW s \in {"data", "audio"},
         NEW p \in DOMAIN packets, NEW r \in DOMAIN packets,
         Queued("m17", p), SameTransmission(r, p), p < r
  PROVE  ~Halved(s, r)
<1>. "m17" \in Codecs /\ "p25" \in Codecs /\ At("m17", p)
  BY DEF Codecs, At
<1>1. InTurn(r, p)
  <2>1. p \in Nat /\ r \in Nat /\ p <= r
    BY DEF TypeOK
  <2>. QED
    BY <2>1 DEF TurnInv
<1>2. CASE s = "data" /\ Halved(s, r)
  <2>1. packets[r].data["m17"] # <<>> /\ "m17" # Source(r)
    BY <1>2 DEF Halved, IsSource, Source
  <2>. QED
    BY <1>1, <2>1 DEF InTurn
<1>3. CASE s = "audio" /\ Halved(s, r)
  <2>1. packets[r].codec = "c2_1600" /\ packets[r].audio # <<>>
    BY <1>3 DEF Halved
  <2>2. Source(r) = "m17" /\ Source(p) = "m17"
    BY <2>1 DEF Source, Home, StreamInv
  <2>3. ~At("m17", r)
    BY <2>1, <2>2 DEF PlaceInv
  <2>4. Due("p25", r) \/ At("p25", r) \/ packets[r].data["p25"] # <<>>
    BY <2>2 DEF PlaceInv
  <2>5. ~Handled("m17", r)
    BY <1>1 DEF InTurn
  <2>6. ~Due("p25", r)
    BY <2>2, <2>3, <2>5 DEF Due
  <2>7. Due("p25", p)
    BY <2>2 DEF Due
  <2>8. "p25" \in Codecs \ {Source(r)}
    BY <2>2
  <2>. QED
    BY <1>1, <2>4, <2>6, <2>7, <2>8 DEF InTurn
<1>. QED
  BY <1>2, <1>3

\* The second half of 40 ms finds that the first half was the last to be kept.
LEMMA FirstPlaced ==
  ASSUME TypeOK, Timely, LinesInv, TurnInv, StreamInv, SentInv, TimelyInv,
         NumberInv, PlaceInv, StoreInv, NEW s \in {"data", "audio"},
         NEW p \in DOMAIN packets, queue["m17"] # <<>>, p = Head(queue["m17"]),
         IsSecond(p), Halves(s, p)
  PROVE  \E q \in DOMAIN packets :
           /\ SameTransmission(p, q) /\ packets[p].seq = packets[q].seq + 1
           /\ store[s][packets[p].mod] = Half(s, q)
<1>. "m17" \in Codecs
  BY DEF Codecs
<1>1. \A x \in DOMAIN packets : x \in Nat /\ packets[x].seq \in Nat /\ packets[x].stream \in Nat
  <2>1. \A x \in DOMAIN packets : packets[x] \in Packets
    BY PacketTyped
  <2>2. \A x \in DOMAIN packets : x \in Nat
    BY DEF TypeOK
  <2>. QED
    BY <2>1, <2>2 DEF Packets
<1>2. PICK z, D : z = queue["m17"] /\ D = DOMAIN packets
  OBVIOUS
<1>3. /\ z \in Seq(D) /\ D \in SUBSET Nat /\ z # <<>>
      /\ Follow(z) /\ p = Head(z)
  BY <1>2, Placed DEF LinesInv
<1>4. /\ p \in ToSet(z)
      /\ \A x \in ToSet(z) : x # p /\ SameTransmission(p, x) => p < x
  BY <1>3, HeadLeaves, HeadOrTail
<1>5. Queued("m17", p) /\ At("m17", p)
  BY <1>2, <1>4 DEF Queued, At
<1>6. PICK q \in 1..p - 1 : SameTransmission(p, q) /\ packets[p].seq = packets[q].seq + 1
  <2>1. packets[p].seq # 0
    BY DEF IsSecond
  <2>. QED
    BY <2>1 DEF NumberInv
<1>7. q \in DOMAIN packets /\ q < p /\ q <= p /\ q # p
  BY <1>1, <1>6 DEF TypeOK
<1>. q \in DOMAIN packets
  BY <1>7
<1>8. ~At("m17", q)
  <2>1. ~Queued("m17", q)
    <3>1. ~(p < q)
      BY <1>1, <1>7
    <3>. QED
      BY <1>2, <1>4, <1>6, <1>7, <3>1 DEF Queued
  <2>. QED
    BY <2>1 DEF At, Waits, Devices
<1>9. packets[p].codec = packets[q].codec /\ Source(p) = Source(q)
  BY <1>6 DEF StreamInv, Source
<1>10. Halved(s, q)
  <2>1. CASE s = "data"
    <3>1. "m17" # Source(q) /\ ~IsSource("m17", q)
      BY <1>9, <2>1 DEF Halves, IsSource, Source
    <3>2. ~Due("m17", q)
      BY <1>5, <1>6, <1>7, <1>9, <3>1 DEF TurnInv, InTurn
    <3>. QED
      BY <1>8, <2>1, <3>1, <3>2 DEF PlaceInv, Halved
  <2>2. CASE s = "audio"
    <3>1. packets[q].codec = "c2_1600" /\ Source(q) = "m17"
      BY <1>9, <2>2 DEF Halves, Source, Home
    <3>. QED
      BY <1>8, <2>2, <3>1 DEF PlaceInv, Halved
  <2>. QED
    BY <2>1, <2>2
<1>11. ~IsSecond(q)
  <2>1. \A n \in Nat : (n + 1) % 2 = 1 => n % 2 # 1
    OBVIOUS
  <2>. QED
    BY <1>1, <1>6, <2>1 DEF IsSecond
<1>12. ASSUME NEW r \in DOMAIN packets, r > q, packets[r].mod = packets[q].mod, Halved(s, r), ~IsSecond(r)
       PROVE  FALSE
  <2>1. r # p /\ packets[r].mod = packets[p].mod
    BY <1>6, <1>12 DEF SameTransmission
  <2>2. CASE r > p
    <3>1. ~packets[p].sent /\ p < r /\ p <= r
      BY <1>1, <1>5, <2>2, OnItsWay
    <3>2. SameTransmission(r, p)
      BY <2>1, <3>1, LaterSame DEF SameTransmission
    <3>. QED
      BY <1>5, <1>12, <3>1, <3>2, NoneBefore
  <2>3. CASE r < p
    <3>1. packets[q].stream <= packets[r].stream /\ packets[r].stream <= packets[p].stream
      <4>1. q <= r /\ r <= p
        BY <1>1, <1>12, <2>3
      <4>. QED
        BY <1>12, <2>1, <4>1 DEF TimelyInv
    <3>2. packets[r].stream = packets[p].stream
      BY <1>1, <1>6, <3>1 DEF SameTransmission
    <3>3. SameTransmission(p, r) /\ SameTransmission(r, q)
      BY <1>6, <1>12, <2>1, <3>2 DEF SameTransmission
    <3>4. packets[q].seq < packets[r].seq /\ packets[r].seq < packets[p].seq
      <4>1. q < r /\ r < p
        BY <1>1, <1>12, <2>3
      <4>. QED
        BY <3>3, <4>1 DEF NumberInv
    <3>. QED
      BY <1>1, <1>6, <3>4
  <2>. QED
    BY <1>1, <2>1, <2>2, <2>3
<1>13. LastFirst(s, q)
  BY <1>10, <1>11, <1>12 DEF LastFirst
<1>14. store[s][packets[q].mod] = Half(s, q)
  BY <1>13 DEF StoreInv
<1>. QED
  BY <1>6, <1>14 DEF SameTransmission

\* M17's thread has a second half: what is kept stays.
LEMMA SecondKeeps ==
  ASSUME Same, StoreInv, UNCHANGED store,
         NEW p \in DOMAIN packets, IsSecond(p),
         \A s \in {"data", "audio"}, x \in DOMAIN packets :
           /\ Halved(s, x) => Halved(s, x)'
           /\ Halved(s, x)' => Halved(s, x) \/ x = p
  PROVE  StoreInv'
<1>. SUFFICES ASSUME NEW s \in {"data", "audio"}, NEW y \in DOMAIN packets, LastFirst(s, y)'
              PROVE  store[s][packets[y].mod] = Half(s, y)
  BY VoiceKept DEF StoreInv, Same, Kept
<1>1. \A x \in DOMAIN packets : (IsSecond(x)' <=> IsSecond(x)) /\ packets'[x].mod = packets[x].mod
  BY VoiceKept DEF Same, Kept
<1>2. LastFirst(s, y)
  BY <1>1 DEF LastFirst, Same
<1>. QED
  BY <1>2 DEF StoreInv

\* M17's thread has a first half: it keeps what belongs to the next.
LEMMA FirstKeeps ==
  ASSUME TypeOK, Timely, Same, TurnInv, StreamInv, SentInv, TimelyInv, PlaceInv, StoreInv,
         NEW s \in {"data", "audio"}, NEW p \in DOMAIN packets,
         Queued("m17", p), ~IsSecond(p),
         store' = [store EXCEPT ![s][packets[p].mod] = Half(s, p)],
         \A t \in {"data", "audio"}, x \in DOMAIN packets :
           Halved(t, x)' <=> Halved(t, x) \/ (t = s /\ x = p)
  PROVE  StoreInv'
<1>. SUFFICES ASSUME NEW t \in {"data", "audio"}, NEW y \in DOMAIN packets, LastFirst(t, y)'
              PROVE  store'[t][packets[y].mod] = Half(t, y)
  BY VoiceKept DEF StoreInv, Same, Kept
<1>1. \A x \in DOMAIN packets : /\ IsSecond(x)' <=> IsSecond(x)
                                /\ packets'[x].mod = packets[x].mod /\ packets[x].mod \in Modules
  BY VoiceKept, PacketTyped DEF Same, Kept
<1>2. \A u \in {"data", "audio"}, m \in Modules :
        store'[u][m] = IF u = s /\ m = packets[p].mod THEN Half(s, p) ELSE store[u][m]
  BY DEF TypeOK
<1>3. /\ Halved(t, y)' /\ ~IsSecond(y)
      /\ \A r \in DOMAIN packets :
           r > y /\ packets[r].mod = packets[y].mod /\ Halved(t, r)' => IsSecond(r)
  BY <1>1 DEF LastFirst, Same
<1>4. CASE t = s /\ y = p
  BY <1>1, <1>2, <1>4
<1>5. CASE t # s \/ packets[y].mod # packets[p].mod
  <2>1. LastFirst(t, y)
    BY <1>3, <1>5 DEF LastFirst
  <2>2. store'[t][packets[y].mod] = store[t][packets[y].mod]
    BY <1>1, <1>2, <1>5
  <2>. QED
    BY <2>1, <2>2 DEF StoreInv
<1>6. CASE t = s /\ y # p /\ packets[y].mod = packets[p].mod
  <2>1. y \in Nat /\ p \in Nat
    BY DEF TypeOK
  <2>2. ~(p > y)
    BY <1>3, <1>6
  <2>3. p < y /\ p <= y
    BY <1>6, <2>1, <2>2
  <2>4. "m17" \in Codecs /\ At("m17", p)
    BY DEF Codecs, At
  <2>5. ~packets[p].sent
    BY <2>4, OnItsWay
  <2>6. SameTransmission(y, p)
    BY <1>6, <2>3, <2>5, LaterSame DEF SameTransmission
  <2>7. ~Halved(t, y)
    BY <2>3, <2>6, NoneBefore
  <2>. QED
    BY <1>3, <1>6, <2>7
<1>. QED
  BY <1>4, <1>5, <1>6

\* What is on its way to a vocoder has its voice.
LEMMA VoiceThere ==
  ASSUME TypeOK, TurnInv, SentInv, PlaceInv, ValueInv,
         NEW c \in Codecs, NEW p \in DOMAIN packets, At(c, p)
  PROVE  IF IsSource(c, p) THEN packets[p].data[c] = <<Voice(p)>> ELSE packets[p].audio = <<Voice(p)>>
<1>1. CASE c = Source(p)
  BY <1>1 DEF ValueInv, IsSource, Source
<1>2. CASE c # Source(p)
  <2>1. ~At(Source(p), p)
    BY <1>2, OnItsWay
  <2>2. packets[p].audio = <<Voice(p)>>
    BY <2>1 DEF PlaceInv, ValueInv
  <2>. QED
    BY <1>2, <2>2 DEF IsSource, Source
<1>. QED
  BY <1>1, <1>2

LEMMA PopTakes ==
  ASSUME TypeOK, NEW w \in {"m17", "p25"}, NEW p, Pop(w, p)
  PROVE  w \in Codecs /\ p \in DOMAIN packets /\ Queued(w, p) /\ At(w, p)
<1>. w \in Codecs
  BY DEF Codecs
<1>1. PICK s, D : s = queue[w] /\ D = DOMAIN packets
  OBVIOUS
<1>2. s \in Seq(D) /\ D \in SUBSET Nat /\ s # <<>>
  BY <1>1, Placed DEF Pop
<1>3. p = Head(s) /\ p \in ToSet(s) /\ p \in D
  BY <1>1, <1>2, HeadLeaves DEF Pop
<1>. QED
  BY <1>1, <1>3 DEF At, Queued

\* Whatever a soft vocoder takes, it takes as it should, and M17's stores are kept.
SoftStep(w, p, a) ==
  /\ Pop(w, p) /\ UNCHANGED <<latest, deviceVars, replies>>
  /\ a # <<>>
  /\ \/ SetAudio(p, a) /\ IsSource(w, p) /\ a = <<Voice(p)>>
     \/ SetData(w, p, a) /\ ~IsSource(w, p) /\ a = Expected(w, p)

LEMMA SoftSpeaks ==
  ASSUME Inv, Inv', LinesInv, TurnInv, TurnInv', VoiceInv,
         NEW w \in {"m17", "p25"}, NEW p \in DOMAIN packets, NEW a, SoftStep(w, p, a)
  PROVE  /\ Same /\ (StoreInv' => VoiceInv')
         /\ \A s \in {"data", "audio"}, x \in DOMAIN packets :
              Halved(s, x)' <=> Halved(s, x) \/ (x = p /\ w = "m17" /\ Halves(s, p) /\ (s = "audio" <=> IsSource("m17", p)))
<1>. w \in Codecs
  BY DEF Codecs
<1>. USE DEF Inv
<1>1. /\ Pop(w, p) /\ UNCHANGED <<waiting, chip, replies>>
      /\ a # <<>>
  BY DEF SoftStep, deviceVars
<1>2. Same
  BY SetKeeps DEF SoftStep, SetAudio, SetData
<1>3. \/ Decodes(w, p, a) /\ a = <<Voice(p)>>
      \/ Encodes(w, p, a) /\ a = Expected(w, p)
  BY AudioDecodes, DataEncodes DEF SoftStep, IsSource, Source
<1>4. Takes(w, p)
  BY <1>1, <1>2, SoftTakes
<1>5. PlaceInv' /\ ValueInv'
  BY <1>1, <1>2, <1>3, <1>4, TakesPlaces, TakesValues DEF VoiceInv
<1>6. ChipInv' /\ NumberInv' /\ OwnVoice'
  BY <1>1, <1>2, ChipsStay, NumbersStay, OwnStays DEF VoiceInv, Same
<1>7. ASSUME NEW s \in {"data", "audio"}, NEW x \in DOMAIN packets
      PROVE  Halved(s, x)' <=> Halved(s, x) \/ (x = p /\ w = "m17" /\ Halves(s, p) /\ (s = "audio" <=> IsSource("m17", p)))
  <2>1. packets'[x].codec = packets[x].codec /\ (IsSource("m17", x)' <=> IsSource("m17", x)) /\ "m17" \in Codecs
    BY <1>2, KeptSame DEF Same, Kept, Codecs
  <2>2. CASE Decodes(w, p, a)
    BY <1>1, <2>1, <2>2 DEF Decodes, Halved, Halves, IsSource, Source, Home
  <2>3. CASE Encodes(w, p, a)
    <3>1. packets'[x].audio = packets[x].audio
      BY <2>3 DEF Encodes
    <3>2. packets'[x].data["m17"] = IF x = p /\ w = "m17" THEN a ELSE packets[x].data["m17"]
      BY <2>1, <2>3 DEF Encodes
    <3>3. w # Source(p)
      BY <2>3 DEF Encodes
    <3>. QED
      BY <1>1, <2>1, <3>1, <3>2, <3>3 DEF Halved, Halves, IsSource, Source, Home
  <2>. QED
    BY <1>3, <2>2, <2>3
<1>. QED
  BY <1>2, <1>5, <1>6, <1>7 DEF VoiceInv

\* The half that was kept is that of the packet which looks for it.
LEMMA HalfMeets ==
  ASSUME TypeOK, NEW p \in DOMAIN packets, NEW q \in DOMAIN packets,
         SameTransmission(p, q), packets[p].seq = packets[q].seq + 1
  PROVE  Half("audio", q) = <<Voice(p)>> /\ Half("data", q) = <<FirstHalf(p)>>
<1>1. packets[q].seq \in Nat
  BY PacketTyped DEF Packets
<1>2. [Voice(q) EXCEPT !.seq = @ + 1] = Voice(p)
  BY DEF Voice, SameTransmission
<1>3. FirstHalf(p) = Voice(q)
  BY <1>1 DEF FirstHalf, Voice, SameTransmission
<1>. QED
  BY <1>2, <1>3 DEF Half

LEMMA Both == \A a, b : <<a>> \o <<b>> = <<a, b>>
<1>. SUFFICES ASSUME NEW a, NEW b PROVE <<a>> \o <<b>> = <<a, b>>
  OBVIOUS
<1>1. PICK S : S = {a, b}
  OBVIOUS
<1>2. <<a>> \in Seq(S) /\ <<b>> \in Seq(S) /\ <<a, b>> \in Seq(S)
  BY <1>1
<1>3. PICK x, y \in Seq(S) : x = <<a>> /\ y = <<b>>
  BY <1>2
<1>4. Len(x) = 1 /\ Len(y) = 1 /\ x[1] = a /\ y[1] = b
  BY <1>3
<1>5. PICK z \in Seq(S) :
        /\ z = x \o y /\ Len(z) = Len(x) + Len(y)
        /\ \A i \in 1..Len(x) + Len(y) : z[i] = IF i <= Len(x) THEN x[i] ELSE y[i - Len(x)]
  <2>1. /\ x \o y \in Seq(S) /\ Len(x \o y) = Len(x) + Len(y)
        /\ \A i \in 1..Len(x) + Len(y) : (x \o y)[i] = IF i <= Len(x) THEN x[i] ELSE y[i - Len(x)]
    OBVIOUS
  <2>. QED
    BY <2>1, Zenon
<1>6. Len(z) = 2 /\ z[1] = a /\ z[2] = b
  BY <1>4, <1>5
<1>7. z = <<z[1], z[2]>>
  BY <1>6
<1>. QED
  BY <1>3, <1>5, <1>6, <1>7

LEMMA DecodesCodec2 ==
  ASSUME Inv, Inv', Timely, LinesInv, TurnInv, TurnInv', StreamInv, SentInv, TimelyInv, VoiceInv,
         Codec2toAudio
  PROVE  VoiceInv'
<1>. USE DEF Inv
<1>1. PICK p \in DOMAIN packets :
        /\ Pop("m17", p) /\ IsSource("m17", p)
        /\ UNCHANGED <<latest, deviceVars, replies>>
        /\ \/ /\ packets[p].codec = "c2_1600" /\ IsSecond(p)
              /\ SetAudio(p, store["audio"][packets[p].mod])
              /\ UNCHANGED store
           \/ /\ packets[p].codec = "c2_1600" /\ ~IsSecond(p)
              /\ SetAudio(p, packets[p].data["m17"])
              /\ Keep("audio", packets[p].mod, <<[Voice(p) EXCEPT !.seq = @ + 1]>>)
           \/ /\ packets[p].codec = "c2_3200"
              /\ SetAudio(p, packets[p].data["m17"])
              /\ UNCHANGED store
  BY DEF Codec2toAudio
<1>. p \in DOMAIN packets
  BY <1>1
<1>2. Queued("m17", p) /\ At("m17", p) /\ "m17" \in Codecs
  BY <1>1, PopTakes
<1>3. packets[p].data["m17"] = <<Voice(p)>>
  BY <1>1, <1>2, VoiceThere DEF VoiceInv
<1>4. <<Voice(p)>> # <<>>
  OBVIOUS
<1>5. CASE packets[p].codec = "c2_1600" /\ IsSecond(p)
  <2>1. UNCHANGED store /\ SetAudio(p, store["audio"][packets[p].mod])
    BY <1>1, <1>5
  <2>2. store["audio"][packets[p].mod] = <<Voice(p)>>
    <3>1. queue["m17"] # <<>> /\ p = Head(queue["m17"]) /\ Halves("audio", p)
      BY <1>1, <1>5 DEF Pop, Halves
    <3>2. PICK q \in DOMAIN packets :
            /\ SameTransmission(p, q) /\ packets[p].seq = packets[q].seq + 1
            /\ store["audio"][packets[p].mod] = Half("audio", q)
      BY <1>5, <3>1, FirstPlaced DEF VoiceInv
    <3>. QED
      BY <3>2, HalfMeets
  <2>3. SoftStep("m17", p, <<Voice(p)>>)
    BY <1>1, <1>4, <2>1, <2>2 DEF SoftStep
  <2>4. /\ Same /\ (StoreInv' => VoiceInv')
        /\ \A s \in {"data", "audio"}, x \in DOMAIN packets :
             /\ Halved(s, x) => Halved(s, x)'
             /\ Halved(s, x)' => Halved(s, x) \/ x = p
    BY <2>3, SoftSpeaks
  <2>. QED
    BY <1>5, <2>1, <2>4, SecondKeeps DEF VoiceInv
<1>6. CASE packets[p].codec = "c2_1600" /\ ~IsSecond(p)
  <2>1. SetAudio(p, <<Voice(p)>>) /\ Keep("audio", packets[p].mod, <<[Voice(p) EXCEPT !.seq = @ + 1]>>)
    BY <1>1, <1>3, <1>6
  <2>2. SoftStep("m17", p, <<Voice(p)>>)
    BY <1>1, <1>4, <2>1 DEF SoftStep
  <2>3. Same /\ (StoreInv' => VoiceInv')
    BY <2>2, SoftSpeaks
  <2>4. \A s \in {"data", "audio"}, x \in DOMAIN packets :
          Halved(s, x)' <=> Halved(s, x) \/ (s = "audio" /\ x = p)
    <3>1. \A s \in {"data", "audio"} : Halves(s, p) /\ (s = "audio" <=> IsSource("m17", p)) <=> s = "audio"
      BY <1>1, <1>6 DEF Halves
    <3>. QED
      BY <2>2, <3>1, SoftSpeaks
  <2>5. store' = [store EXCEPT !["audio"][packets[p].mod] = Half("audio", p)]
    BY <2>1 DEF Keep, Half
  <2>. QED
    BY <1>2, <1>6, <2>3, <2>4, <2>5, FirstKeeps DEF VoiceInv
<1>7. CASE packets[p].codec = "c2_3200"
  <2>1. UNCHANGED store /\ SetAudio(p, <<Voice(p)>>)
    BY <1>1, <1>3, <1>7
  <2>2. SoftStep("m17", p, <<Voice(p)>>)
    BY <1>1, <1>4, <2>1 DEF SoftStep
  <2>3. Same /\ (StoreInv' => VoiceInv')
    BY <2>2, SoftSpeaks
  <2>4. \A s \in {"data", "audio"}, x \in DOMAIN packets : Halved(s, x)' <=> Halved(s, x)
    <3>1. \A s \in {"data", "audio"} : ~(Halves(s, p) /\ (s = "audio" <=> IsSource("m17", p)))
      BY <1>1, <1>7 DEF Halves
    <3>. QED
      BY <2>2, <3>1, SoftSpeaks
  <2>. QED
    BY <2>1, <2>3, <2>4, StoresStay DEF VoiceInv
<1>. QED
  BY <1>1, <1>5, <1>6, <1>7

LEMMA EncodesCodec2 ==
  ASSUME Inv, Inv', Timely, LinesInv, TurnInv, TurnInv', StreamInv, SentInv, TimelyInv, VoiceInv,
         AudiotoCodec2
  PROVE  VoiceInv'
<1>. USE DEF Inv
<1>1. PICK p \in DOMAIN packets :
        /\ Pop("m17", p) /\ ~IsSource("m17", p)
        /\ UNCHANGED <<latest, deviceVars, replies>>
        /\ \/ /\ IsSecond(p)
              /\ SetData("m17", p, store["data"][packets[p].mod] \o packets[p].audio)
              /\ UNCHANGED store
           \/ /\ ~IsSecond(p)
              /\ SetData("m17", p, packets[p].audio)
              /\ Keep("data", packets[p].mod, packets[p].audio)
  BY DEF AudiotoCodec2
<1>. p \in DOMAIN packets
  BY <1>1
<1>2. Queued("m17", p) /\ At("m17", p) /\ "m17" \in Codecs
  BY <1>1, PopTakes
<1>3. packets[p].audio = <<Voice(p)>>
  BY <1>1, <1>2, VoiceThere DEF VoiceInv
<1>4. Halves("data", p) /\ \A s \in {"data", "audio"} : (s = "audio" <=> IsSource("m17", p)) <=> s = "data"
  BY <1>1 DEF Halves
<1>5. CASE IsSecond(p)
  <2>1. UNCHANGED store /\ SetData("m17", p, store["data"][packets[p].mod] \o packets[p].audio)
    BY <1>1, <1>5
  <2>2. store["data"][packets[p].mod] = <<FirstHalf(p)>>
    <3>1. queue["m17"] # <<>> /\ p = Head(queue["m17"])
      BY <1>1 DEF Pop
    <3>2. PICK q \in DOMAIN packets :
            /\ SameTransmission(p, q) /\ packets[p].seq = packets[q].seq + 1
            /\ store["data"][packets[p].mod] = Half("data", q)
      BY <1>4, <1>5, <3>1, FirstPlaced DEF VoiceInv
    <3>. QED
      BY <3>2, HalfMeets
  <2>3. <<FirstHalf(p)>> \o <<Voice(p)>> = <<FirstHalf(p), Voice(p)>>
    BY Both
  <2>4. Expected("m17", p) = <<FirstHalf(p), Voice(p)>> /\ Expected("m17", p) # <<>>
    BY <1>1, <1>5 DEF Expected
  <2>5. SoftStep("m17", p, Expected("m17", p))
    BY <1>1, <1>3, <2>1, <2>2, <2>3, <2>4 DEF SoftStep
  <2>6. /\ Same /\ (StoreInv' => VoiceInv')
        /\ \A s \in {"data", "audio"}, x \in DOMAIN packets :
             /\ Halved(s, x) => Halved(s, x)'
             /\ Halved(s, x)' => Halved(s, x) \/ x = p
    BY <2>5, SoftSpeaks
  <2>. QED
    BY <1>5, <2>1, <2>6, SecondKeeps DEF VoiceInv
<1>6. CASE ~IsSecond(p)
  <2>1. Expected("m17", p) = <<Voice(p)>> /\ <<Voice(p)>> # <<>>
    BY <1>6 DEF Expected
  <2>2. SetData("m17", p, <<Voice(p)>>) /\ Keep("data", packets[p].mod, <<Voice(p)>>)
    BY <1>1, <1>3, <1>6
  <2>3. SoftStep("m17", p, <<Voice(p)>>)
    BY <1>1, <2>1, <2>2 DEF SoftStep
  <2>4. Same /\ (StoreInv' => VoiceInv')
    BY <2>3, SoftSpeaks
  <2>5. \A s \in {"data", "audio"}, x \in DOMAIN packets :
          Halved(s, x)' <=> Halved(s, x) \/ (s = "data" /\ x = p)
    BY <1>4, <2>3, SoftSpeaks
  <2>6. store' = [store EXCEPT !["data"][packets[p].mod] = Half("data", p)]
    BY <2>2 DEF Keep, Half
  <2>. QED
    BY <1>2, <1>6, <2>4, <2>5, <2>6, FirstKeeps DEF VoiceInv
<1>. QED
  BY <1>5, <1>6

LEMMA TakesIMBE ==
  ASSUME Inv, Inv', LinesInv, TurnInv, TurnInv', SentInv, VoiceInv, IMBEtoAudio \/ AudiotoIMBE
  PROVE  VoiceInv'
<1>. USE DEF Inv
<1>1. PICK p \in DOMAIN packets :
        /\ Pop("p25", p) /\ UNCHANGED <<latest, store, deviceVars, replies>>
        /\ \/ IsSource("p25", p) /\ SetAudio(p, packets[p].data["p25"])
           \/ ~IsSource("p25", p) /\ SetData("p25", p, packets[p].audio)
  BY DEF IMBEtoAudio, AudiotoIMBE
<1>. p \in DOMAIN packets
  BY <1>1
<1>2. At("p25", p) /\ "p25" \in Codecs
  BY <1>1, PopTakes
<1>3. IF IsSource("p25", p) THEN packets[p].data["p25"] = <<Voice(p)>> ELSE packets[p].audio = <<Voice(p)>>
  BY <1>2, VoiceThere DEF VoiceInv
<1>4. <<Voice(p)>> # <<>> /\ Expected("p25", p) = <<Voice(p)>>
  BY DEF Expected
<1>5. SoftStep("p25", p, <<Voice(p)>>)
  BY <1>1, <1>3, <1>4 DEF SoftStep
<1>6. /\ Same /\ (StoreInv' => VoiceInv')
      /\ \A s \in {"data", "audio"}, x \in DOMAIN packets : Halved(s, x)' <=> Halved(s, x)
  BY <1>5, SoftSpeaks
<1>. QED
  BY <1>1, <1>6, StoresStay DEF VoiceInv

-----------------------------------------------------------------------------
(***************************************************************************)
(* What comes from the reflector.                                          *)
(***************************************************************************)
\* What comes from the reflector continues its transmission, or begins one.
LEMMA ArrivalNumbers ==
  ASSUME Inv, Inv', StreamInv, NumberInv, NEW m \in Modules, NEW p, NEW codec, NEW stream,
         Arrival(m, p, codec, stream),
         \/ packets'[p].seq = 0 /\ (latest[m] # 0 => stream = packets[latest[m]].stream + 1)
         \/ /\ latest[m] # 0
            /\ stream = packets[latest[m]].stream /\ packets'[p].seq = packets[latest[m]].seq + 1
  PROVE  NumberInv'
<1>. USE DEF Inv
<1>1. /\ p \notin DOMAIN packets /\ p \in Nat /\ DOMAIN packets' = DOMAIN packets \cup {p}
      /\ packets'[p].mod = m /\ packets'[p].stream = stream
      /\ \A x \in DOMAIN packets : x \in Nat /\ x > 0 /\ x < p /\ packets'[x] = packets[x]
                                   /\ packets[x].stream \in Nat /\ packets[x].seq \in Nat
  <2>1. \A x \in DOMAIN packets : packets[x] \in Packets
    BY PacketTyped
  <2>2. \A x \in DOMAIN packets : x \in Nat /\ x > 0
    BY DEF TypeOK
  <2>. QED
    BY <2>1, <2>2 DEF Arrival, Packets
<1>2. \A x, y \in DOMAIN packets : SameTransmission(x, y)' <=> SameTransmission(x, y)
  BY <1>1 DEF SameTransmission
<1>3. latest[m] # 0 => latest[m] \in DOMAIN packets
  BY DEF TypeOK
<1>4. ASSUME NEW x \in DOMAIN packets', NEW q \in DOMAIN packets', SameTransmission(x, q)', q < x
      PROVE  packets'[q].seq < packets'[x].seq
  <2>1. q \in DOMAIN packets
    BY <1>1, <1>4
  <2>2. CASE x \in DOMAIN packets
    BY <1>1, <1>2, <1>4, <2>1, <2>2 DEF NumberInv
  <2>3. CASE x = p
    <3>1. packets[q].mod = m /\ packets[q].stream = stream
      BY <1>1, <1>4, <2>1, <2>3 DEF SameTransmission
    <3>2. q <= latest[m] /\ packets[q].stream <= packets[latest[m]].stream
      BY <2>1, <3>1 DEF StreamInv
    <3>3. latest[m] # 0
      BY <1>1, <2>1, <3>2
    <3>4. PICK l \in DOMAIN packets : l = latest[m]
      BY <1>3, <3>3
    <3>5. stream = packets[l].stream /\ packets'[p].seq = packets[l].seq + 1
      BY <1>1, <2>1, <3>1, <3>2, <3>3, <3>4
    <3>6. SameTransmission(l, q)
      BY <3>1, <3>3, <3>4, <3>5 DEF SameTransmission, StreamInv
    <3>7. q = l \/ packets[q].seq < packets[l].seq
      BY <1>1, <2>1, <3>2, <3>4, <3>6 DEF NumberInv
    <3>. QED
      BY <1>1, <2>1, <2>3, <3>4, <3>5, <3>7
  <2>. QED
    BY <1>1, <2>2, <2>3
<1>5. ASSUME NEW x \in DOMAIN packets', packets'[x].seq # 0
      PROVE  \E q \in 1..x - 1 : SameTransmission(x, q)' /\ packets'[x].seq = packets'[q].seq + 1
  <2>1. CASE x \in DOMAIN packets
    <3>1. PICK q \in 1..x - 1 : SameTransmission(x, q) /\ packets[x].seq = packets[q].seq + 1
      BY <1>1, <1>5, <2>1 DEF NumberInv
    <3>2. q \in DOMAIN packets
      BY <2>1 DEF TypeOK
    <3>. QED
      BY <1>1, <1>2, <2>1, <3>1, <3>2
  <2>2. CASE x = p
    <3>1. PICK l \in DOMAIN packets : l = latest[m] /\ latest[m] # 0 /\ stream = packets[l].stream /\ packets'[p].seq = packets[l].seq + 1
      BY <1>3, <1>5, <2>2
    <3>2. SameTransmission(p, l)'
      BY <1>1, <3>1 DEF SameTransmission, StreamInv
    <3>3. l \in 1..p - 1
      BY <1>1
    <3>. QED
      BY <1>1, <2>2, <3>1, <3>2, <3>3
  <2>. QED
    BY <1>1, <2>1, <2>2
<1>. QED
  BY <1>4, <1>5 DEF NumberInv

LEMMA ArrivalPlaces ==
  ASSUME Inv, Inv', PlaceInv, NEW m \in Modules, NEW p, NEW codec, NEW stream,
         Arrival(m, p, codec, stream)
  PROVE  PlaceInv'
<1>. USE DEF Inv
<1>1. /\ p \notin DOMAIN packets /\ DOMAIN packets' = DOMAIN packets \cup {p}
      /\ \A x \in DOMAIN packets : packets'[x] = packets[x]
      /\ UNCHANGED <<waiting, todo>>
  BY DEF Arrival
<1>2. PICK h \in Codecs : h = Home(codec) /\ h = Source(p)'
  BY DEF Arrival, Source
<1>3. \A c \in Codecs : queue'[c] = IF c = h THEN Append(queue[h], p) ELSE queue[c]
  BY <1>2 DEF Arrival, TypeOK
<1>4. ToSet(queue'[h]) = ToSet(queue[h]) \cup {p}
  <2>1. PICK z, D : z = queue[h] /\ D = DOMAIN packets'
    OBVIOUS
  <2>2. z \in Seq(D)
    <3>1. z \in Seq(DOMAIN packets)
      BY <2>1, Placed
    <3>2. DOMAIN packets \subseteq D
      BY <1>1, <2>1
    <3>. QED
      BY <3>1, <3>2
  <2>3. D \in SUBSET Nat /\ p \in D
    BY <1>1, <2>1 DEF TypeOK
  <2>. QED
    BY <1>3, <2>1, <2>2, <2>3, LastJoins
<1>5. \A c \in Codecs, x \in DOMAIN packets : At(c, x)' <=> At(c, x)
  <2>1. \A c \in Codecs, x \in DOMAIN packets : Queued(c, x)' <=> Queued(c, x)
    BY <1>1, <1>3, <1>4 DEF Queued
  <2>2. \A c \in Codecs, x \in DOMAIN packets : Waits(c, x)' <=> Waits(c, x)
    BY <1>1 DEF Waits
  <2>. QED
    BY <2>1, <2>2 DEF At
<1>6. At(Source(p), p)'
  BY <1>2, <1>4 DEF At, Queued
<1>7. ASSUME NEW x \in DOMAIN packets
      PROVE  /\ packets'[x].audio = <<>> <=> At(Source(x), x)'
             /\ \A w \in Codecs \ {Source(x)'} : Due(w, x)' \/ At(w, x)' \/ packets'[x].data[w] # <<>>
  <2>1. PICK c \in Codecs : c = Source(x) /\ c = Source(x)'
    BY <1>1, HomeTyped DEF Source
  <2>2. At(Source(x), x)' <=> At(c, x)
    <3>1. At(Source(x), x)' <=> At(c, x)'
      BY <2>1 DEF At, Queued, Waits
    <3>. QED
      BY <1>5, <3>1
  <2>3. \A w \in Codecs : Due(w, x)' <=> Due(w, x)
    BY <1>1, <2>1, <2>2 DEF Due, Handled
  <2>. QED
    BY <1>1, <1>5, <2>1, <2>2, <2>3 DEF PlaceInv
<1>8. /\ packets'[p].audio = <<>> <=> At(Source(p), p)'
      /\ \A w \in Codecs \ {Source(p)'} : Due(w, p)'
  BY <1>6 DEF Arrival, Due
<1>. QED
  BY <1>1, <1>7, <1>8 DEF PlaceInv

LEMMA ArrivalSpeaks ==
  ASSUME Inv, Inv', StreamInv, VoiceInv, NextPacket \/ FirstPacket
  PROVE  VoiceInv'
<1>. USE DEF Inv
<1>1. PICK m \in Modules, codec \in CodecIns, stream \in Nat : \E p : Arrival(m, p, codec, stream)
  BY ReaderArrives
<1>2. PICK p : Arrival(m, p, codec, stream)
  BY <1>1
<1>3. /\ packets' = Append(packets, packets'[Len(packets) + 1])
      /\ LET new == packets'[Len(packets) + 1]
             last == packets[latest[new.mod]]
         IN  /\ new.mod \in Modules
             /\ \A c \in Codecs : new.data[c] =
                  IF c = Home(new.codec)
                  THEN <<[mod |-> new.mod, stream |-> new.stream, seq |-> new.seq]>> ELSE <<>>
             /\ new.audio = <<>>
             /\ \/ /\ new.seq = 0
                   /\ latest[new.mod] # 0 => new.stream = last.stream + 1
                   /\ latest[new.mod] = 0 => new.stream = 1
                \/ /\ latest[new.mod] # 0
                   /\ new.stream = last.stream /\ new.seq = last.seq + 1
  BY NextNumber
<1>4. p = Len(packets) + 1
  <2>1. packets \in Seq(Packets) /\ packets' \in Seq(Packets)
    BY DEF TypeOK
  <2>2. DOMAIN packets' = 1..Len(packets) + 1 /\ DOMAIN packets = 1..Len(packets) /\ Len(packets) \in Nat
    BY <1>3, <2>1
  <2>3. p \in DOMAIN packets' /\ p \notin DOMAIN packets /\ p \in Nat
    BY <1>2 DEF Arrival
  <2>. QED
    BY <2>2, <2>3
<1>5. /\ DOMAIN packets' = DOMAIN packets \cup {p} /\ p \notin DOMAIN packets
      /\ \A x \in DOMAIN packets : packets'[x] = packets[x]
      /\ packets'[p].mod = m /\ packets'[p].stream = stream /\ packets'[p].codec = codec
      /\ packets'[p].audio = <<>>
      /\ UNCHANGED <<waiting, chip, store, replies>>
      /\ Home(codec) \in Codecs
  BY <1>2 DEF Arrival
<1>6. Kept
  BY <1>5 DEF Kept
<1>7. \A c \in Codecs : packets'[p].data[c] = IF c = Source(p)' THEN <<Voice(p)>>' ELSE <<>>
  BY <1>3, <1>4 DEF Source, Voice
<1>8. NumberInv'
  <2>1. \/ packets'[p].seq = 0 /\ (latest[m] # 0 => stream = packets[latest[m]].stream + 1)
        \/ /\ latest[m] # 0
           /\ stream = packets[latest[m]].stream /\ packets'[p].seq = packets[latest[m]].seq + 1
    BY <1>3, <1>4, <1>5
  <2>. QED
    BY <1>2, <2>1, ArrivalNumbers DEF VoiceInv
<1>9. PlaceInv' /\ ChipInv' /\ OwnVoice'
  BY <1>2, <1>5, <1>6, ArrivalPlaces, ChipsStay, OwnStays DEF VoiceInv
<1>10. ValueInv'
  <2>1. ASSUME NEW x \in DOMAIN packets
        PROVE  /\ packets'[x].audio \in {<<>>, <<Voice(x)>>'}
               /\ packets'[x].data[Source(x)'] = <<Voice(x)>>'
               /\ \A c \in Codecs : packets'[x].data[c] \in {<<>>, (Expected(c, x))'}
    <3>1. Voice(x)' = Voice(x) /\ Source(x)' = Source(x) /\ \A c : (Expected(c, x))' = Expected(c, x)
      BY <1>6, VoiceKept
    <3>. QED
      BY <1>5, <3>1 DEF VoiceInv, ValueInv
  <2>2. /\ packets'[p].audio \in {<<>>, <<Voice(p)>>'}
        /\ packets'[p].data[Source(p)'] = <<Voice(p)>>'
        /\ \A c \in Codecs : packets'[p].data[c] \in {<<>>, (Expected(c, p))'}
    <3>1. Source(p)' \in Codecs
      BY <1>5 DEF Source
    <3>2. (Expected(Source(p), p))' = <<Voice(p)>>'
      BY DEF Expected, IsSource, Source
    <3>. QED
      BY <1>5, <1>7, <3>1, <3>2
  <2>. QED
    BY <1>5, <2>1, <2>2 DEF ValueInv
<1>11. StoreInv'
  <2>1. "m17" \in Codecs
    BY DEF Codecs
  <2>2. \A s \in {"data", "audio"} : ~Halved(s, p)'
    BY <1>5, <1>7, <2>1 DEF Halved, IsSource, Source
  <2>3. \A s \in {"data", "audio"}, x \in DOMAIN packets : Halved(s, x)' <=> Halved(s, x)
    BY <1>5 DEF Halved, IsSource
  <2>. SUFFICES ASSUME NEW s \in {"data", "audio"}, NEW y \in DOMAIN packets', LastFirst(s, y)'
                PROVE  store[s][packets'[y].mod] = (Half(s, y))'
    BY <1>5 DEF StoreInv
  <2>4. y \in DOMAIN packets
    BY <1>5, <2>2 DEF LastFirst
  <2>5. LastFirst(s, y)
    <3>1. \A x \in DOMAIN packets : IsSecond(x)' <=> IsSecond(x)
      BY <1>6, VoiceKept
    <3>. QED
      BY <1>5, <2>3, <2>4, <3>1 DEF LastFirst
  <2>6. (Half(s, y))' = Half(s, y)
    BY <1>6, <2>4, VoiceKept
  <2>. QED
    BY <1>5, <2>4, <2>5, <2>6 DEF VoiceInv, StoreInv
<1>. QED
  BY <1>8, <1>9, <1>10, <1>11 DEF VoiceInv

-----------------------------------------------------------------------------
(***************************************************************************)
(* The invariant.                                                          *)
(***************************************************************************)
LEMMA VoiceInitially == Init => VoiceInv
<1>. SUFFICES ASSUME Init PROVE VoiceInv
  OBVIOUS
<1>1. /\ DOMAIN packets = {}
      /\ \A d \in Devices : chip[d] = <<>> /\ \A m \in Modules : waiting[d][m] = <<>>
      /\ \A m \in Modules : replies[m] = <<>>
  BY DEF Init
<1>2. DOMAIN <<>> = {} /\ Len(<<>>) = 0
  OBVIOUS
<1>3. NumberInv /\ PlaceInv /\ ValueInv /\ StoreInv
  BY <1>1 DEF NumberInv, PlaceInv, ValueInv, StoreInv
<1>4. ChipInv
  BY <1>1, <1>2 DEF ChipInv, Asks
<1>5. OwnVoice
  BY <1>1, <1>2 DEF OwnVoice
<1>. QED
  BY <1>3, <1>4, <1>5 DEF VoiceInv

LEMMA VoiceStep ==
  ASSUME OrderInv, OrderInv', ~Faulty, Timely, VoiceInv, [Next]_vars PROVE VoiceInv'
<1>. USE DEF OrderInv, WayInv
<1>1. CASE UNCHANGED vars
  BY <1>1, Still DEF vars, deviceVars
<1>2. CASE NextPacket \/ FirstPacket
  BY <1>2, ArrivalSpeaks
<1>3. CASE Soft
  BY <1>3, DecodesCodec2, EncodesCodec2, TakesIMBE DEF Soft
<1>4. CASE \E d \in Devices : Device(d) \/ UnexpectedResponse(d) \/ NoResponse(d)
  <2>1. PICK d \in Devices : Feed(d) \/ Count(d) \/ ReadDevice(d)
    BY <1>4 DEF Device, UnexpectedResponse, NoResponse
  <2>2. CASE Feed(d)
    BY <2>2, FeedSpeaks
  <2>3. CASE Count(d)
    BY <2>3, Still DEF Count
  <2>4. CASE ReadDevice(d)
    <3>1. Same
      BY <2>4, ReadInTurn DEF Inv
    <3>. QED
      BY <2>4, <3>1, ReadSpeaks
  <2>. QED
    BY <2>1, <2>2, <2>3, <2>4
<1>5. CASE \E w \in Codecs : PassOn(w)
  BY <1>5, PassOnSpeaks
<1>6. CASE \E w \in Codecs : Finish(w)
  BY <1>6, FinishSpeaks
<1>. QED
  BY <1>1, <1>2, <1>3, <1>4, <1>5, <1>6 DEF Next

-----------------------------------------------------------------------------

\* While the hardware answers as it should and the reflector begins a module's
\* next transmission when the last has come back, every reply of tcd carries in
\* each codec the voice of its own packet: whatever order the vocoders' threads
\* run in, no device's answer goes to another packet, and the two stores give
\* the second 20 ms of an M17 packet the half that belongs to it.
THEOREM OwnVoiceCorrect == ~Faulty /\ Timely => (Spec => []OwnVoice)
<1>. SUFFICES ASSUME ~Faulty, Timely PROVE Spec => []OwnVoice
  OBVIOUS
<1>1. OrderInv /\ OrderInv' /\ VoiceInv /\ [Next]_vars => VoiceInv'
  BY VoiceStep
<1>2. VoiceInv => OwnVoice
  BY DEF VoiceInv
<1>. QED
  BY <1>1, <1>2, VoiceInitially, OrderInvariance, PTL DEF Spec
=============================================================================
