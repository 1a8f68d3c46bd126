------------------------- MODULE TranscoderOrderProofs -------------------------
(***************************************************************************)
(* tcd keeps the packets of a transmission in order and the modules apart, *)
(* for any modules, codecs and packets, and whatever the hardware answers: *)
(* its vocoders finish a packet in any order, but each takes the packets   *)
(* of a transmission in turn.                                              *)
(***************************************************************************)
EXTENDS TranscoderProofs

-----------------------------------------------------------------------------
(***************************************************************************)
(* Lines of packets.                                                       *)
(***************************************************************************)

LEMMA HeadLeaves ==
  ASSUME NEW D \in SUBSET Nat, NEW s \in Seq(D), s # <<>>
  PROVE  /\ Head(s) \in ToSet(s) /\ Head(s) \in D
         /\ Tail(s) \in Seq(D)
         /\ ToSet(Tail(s)) \subseteq ToSet(s)
         /\ Follow(s) => Follow(Tail(s))
         /\ Follow(s) => \A x \in ToSet(Tail(s)) : SameTransmission(Head(s), x) => Head(s) < x
<1>1. /\ Head(s) = s[1] /\ 1 \in DOMAIN s /\ s[1] \in D
      /\ Tail(s) \in Seq(D)
      /\ \A i \in DOMAIN Tail(s) : i + 1 \in DOMAIN s /\ Tail(s)[i] = s[i + 1] /\ i \in Nat /\ i > 0
  OBVIOUS
<1>2. Head(s) \in ToSet(s) /\ ToSet(Tail(s)) \subseteq ToSet(s)
  BY <1>1 DEF ToSet
<1>3. Follow(s) => Follow(Tail(s))
  BY <1>1 DEF Follow
<1>4. Follow(s) => \A x \in ToSet(Tail(s)) : SameTransmission(Head(s), x) => Head(s) < x
  BY <1>1 DEF Follow, ToSet
<1>. QED
  BY <1>1, <1>2, <1>3, <1>4

LEMMA LastJoins ==
  ASSUME NEW D \in SUBSET Nat, NEW s \in Seq(D), NEW x \in D
  PROVE  /\ Append(s, x) \in Seq(D)
         /\ ToSet(Append(s, x)) = ToSet(s) \cup {x}
         /\ \A i \in DOMAIN s : i \in DOMAIN Append(s, x) /\ Append(s, x)[i] = s[i]
         /\ \A i \in DOMAIN Append(s, x) :
              \/ i \in DOMAIN s /\ Append(s, x)[i] = s[i]
              \/ i \notin DOMAIN s /\ Append(s, x)[i] = x
         /\ \A i, j \in DOMAIN Append(s, x) : i < j => i \in DOMAIN s
<1>. DEFINE t == Append(s, x)
<1>1. /\ t \in Seq(D)
      /\ \A i \in DOMAIN s : i \in DOMAIN t /\ t[i] = s[i]
      /\ \A i \in DOMAIN t : (i \in DOMAIN s /\ t[i] = s[i]) \/ (i \notin DOMAIN s /\ t[i] = x)
      /\ \E i \in DOMAIN t : t[i] = x
      /\ \A i, j \in DOMAIN t : i < j => i \in DOMAIN s
  <2>1. Len(s) + 1 \in DOMAIN t /\ t[Len(s) + 1] = x
    OBVIOUS
  <2>. QED
    BY <2>1
<1>. HIDE DEF t
<1>2. ToSet(t) = ToSet(s) \cup {x}
  BY <1>1 DEF ToSet
<1>. QED
  BY <1>1, <1>2 DEF t

-----------------------------------------------------------------------------
(***************************************************************************)
(* Packets that are there stay what they are.                              *)
(***************************************************************************)

Kept ==
  \A p \in DOMAIN packets :
    /\ p \in DOMAIN packets'
    /\ packets'[p].mod = packets[p].mod
    /\ packets'[p].codec = packets[p].codec
    /\ packets'[p].stream = packets[p].stream
    /\ packets'[p].seq = packets[p].seq
Same == Kept /\ DOMAIN packets' = DOMAIN packets

LEMMA KeptSame ==
  ASSUME Kept, NEW p \in DOMAIN packets
  PROVE  /\ Source(p)' = Source(p)
         /\ \A c : IsSource(c, p)' <=> IsSource(c, p)
         /\ \A q \in DOMAIN packets : SameTransmission(p, q)' <=> SameTransmission(p, q)
BY DEF Kept, Source, IsSource, SameTransmission

LEMMA FollowKept ==
  ASSUME Kept, NEW s \in Seq(DOMAIN packets), Follow(s)
  PROVE  Follow(s)'
<1>1. \A i \in DOMAIN s : s[i] \in DOMAIN packets
  OBVIOUS
<1>. QED
  BY <1>1, KeptSame DEF Follow

\* A line stays, loses its head, or takes a packet behind those of its transmission.
LineStep(s, t) ==
  \/ t = s
  \/ s # <<>> /\ t = Tail(s)
  \/ \E x \in DOMAIN packets' :
       /\ t = Append(s, x)
       /\ \A y \in ToSet(s) : SameTransmission(y, x)' => y < x

LEMMA LineMoves ==
  ASSUME Kept, DOMAIN packets \in SUBSET Nat, DOMAIN packets' \in SUBSET Nat,
         NEW s \in Seq(DOMAIN packets), NEW t, Follow(s), LineStep(s, t)
  PROVE  Follow(t)'
<1>1. Follow(s)'
  BY FollowKept
<1>2. CASE t = s
  BY <1>1, <1>2
<1>3. CASE s # <<>> /\ t = Tail(s)
  <2>1. \A i \in DOMAIN t : i + 1 \in DOMAIN s /\ t[i] = s[i + 1] /\ i \in Nat
    BY <1>3
  <2>. QED
    BY <1>1, <2>1 DEF Follow
<1>4. ASSUME NEW x \in DOMAIN packets', t = Append(s, x),
             \A y \in ToSet(s) : SameTransmission(y, x)' => y < x
      PROVE  Follow(t)'
  <2>1. PICK D \in SUBSET Nat : D = DOMAIN packets'
    OBVIOUS
  <2>2. \A i \in DOMAIN s : s[i] \in D
    BY <2>1 DEF Kept
  <2>3. s \in Seq(D)
    <3>1. \A n \in DOMAIN packets : n \in D
      BY <2>1 DEF Kept
    <3>. QED
      BY <3>1
  <2>4. \A i \in DOMAIN s : s[i] \in ToSet(s)
    BY DEF ToSet
  <2>5. /\ \A i \in DOMAIN t : (i \in DOMAIN s /\ t[i] = s[i]) \/ (i \notin DOMAIN s /\ t[i] = x)
        /\ \A i, j \in DOMAIN t : i < j => i \in DOMAIN s
    BY <1>4, <2>1, <2>3, LastJoins
  <2>. QED
    BY <1>1, <1>4, <2>4, <2>5 DEF Follow
<1>. QED
  BY <1>2, <1>3, <1>4 DEF LineStep

\* What is set in a packet changes nothing else in it.
LEMMA SetKeeps ==
  ASSUME TypeOK, NEW p \in DOMAIN packets, NEW a, NEW c \in Codecs,
         \/ packets' = [packets EXCEPT ![p].audio = a]
         \/ packets' = [packets EXCEPT ![p].data[c] = a]
         \/ packets' = [packets EXCEPT ![p].sent = TRUE]
         \/ UNCHANGED packets
  PROVE  Same
<1>1. packets[p] \in Packets /\ packets \in Seq(Packets)
  BY DEF TypeOK
<1>2. ASSUME NEW new,
             new.mod = packets[p].mod, new.codec = packets[p].codec,
             new.stream = packets[p].stream, new.seq = packets[p].seq,
             packets' = [packets EXCEPT ![p] = new]
      PROVE  Same
  <2>1. DOMAIN packets' = DOMAIN packets /\ packets'[p] = new
    BY <1>1, <1>2
  <2>2. \A q \in DOMAIN packets : q # p => packets'[q] = packets[q]
    BY <1>1, <1>2
  <2>. QED
    BY <1>2, <2>1, <2>2 DEF Same, Kept
<1>3. CASE packets' = [packets EXCEPT ![p].audio = a]
  BY <1>1, <1>2, <1>3 DEF Packets
<1>4. CASE packets' = [packets EXCEPT ![p].data[c] = a]
  BY <1>1, <1>2, <1>4 DEF Packets
<1>5. CASE packets' = [packets EXCEPT ![p].sent = TRUE]
  BY <1>1, <1>2, <1>5 DEF Packets
<1>6. CASE UNCHANGED packets
  BY <1>6 DEF Same, Kept
<1>. QED
  BY <1>3, <1>4, <1>5, <1>6

\* Only what is set is changed.
LEMMA DataOf ==
  ASSUME TypeOK, NEW p \in DOMAIN packets, NEW a, NEW d \in Codecs,
         \/ packets' = [packets EXCEPT ![p].audio = a]
         \/ packets' = [packets EXCEPT ![p].data[d] = a]
         \/ packets' = [packets EXCEPT ![p].sent = TRUE]
         \/ UNCHANGED packets,
         NEW c \in Codecs, NEW x \in DOMAIN packets
  PROVE  packets'[x].data[c] = packets[x].data[c] \/ (c = d /\ x = p)
<1>1. packets \in Seq(Packets) /\ packets[p] \in Packets /\ packets[x] \in Packets
  BY DEF TypeOK
<1>2. packets[p].data \in [Codecs -> Seq(Voices)] /\ packets[x].data \in [Codecs -> Seq(Voices)]
  BY <1>1 DEF Packets
<1>3. CASE packets' = [packets EXCEPT ![p].audio = a]
  <2>1. packets'[x].data = packets[x].data
    BY <1>1, <1>3 DEF Packets
  <2>. QED
    BY <2>1
<1>4. CASE packets' = [packets EXCEPT ![p].data[d] = a]
  <2>1. x # p => packets'[x] = packets[x]
    BY <1>1, <1>4
  <2>2. packets'[p].data = [packets[p].data EXCEPT ![d] = a]
    BY <1>1, <1>4 DEF Packets
  <2>. QED
    BY <1>2, <2>1, <2>2
<1>5. CASE packets' = [packets EXCEPT ![p].sent = TRUE]
  <2>1. packets'[x].data = packets[x].data
    BY <1>1, <1>5 DEF Packets
  <2>. QED
    BY <2>1
<1>6. CASE UNCHANGED packets
  BY <1>6
<1>. QED
  BY <1>3, <1>4, <1>5, <1>6

LEMMA SentOf ==
  ASSUME TypeOK, NEW p \in DOMAIN packets, NEW a, NEW d \in Codecs,
         \/ packets' = [packets EXCEPT ![p].audio = a]
         \/ packets' = [packets EXCEPT ![p].data[d] = a],
         NEW x \in DOMAIN packets
  PROVE  packets'[x].sent = packets[x].sent
<1>1. packets \in Seq(Packets) /\ packets[p] \in Packets
  BY DEF TypeOK
<1>2. \A q \in DOMAIN packets : q # p => packets'[q] = packets[q]
  BY <1>1
<1>3. packets'[p].sent = packets[p].sent
  BY <1>1 DEF Packets
<1>. QED
  BY <1>2, <1>3

\* No packet is marked as sent, and data are set only where a packet is.
SetOnly ==
  /\ \A x \in DOMAIN packets : packets'[x].sent = packets[x].sent
  /\ \A c \in Codecs, x \in DOMAIN packets : packets'[x].data[c] = packets[x].data[c] \/ At(c, x)

LEMMA HomeTyped ==
  ASSUME TypeOK, NEW p \in DOMAIN packets
  PROVE  Source(p) \in Codecs
<1>1. packets[p].codec \in {"dstar", "dmr", "p25", "c2_1600", "c2_3200"}
  BY PacketTyped, TranscoderAssumption
<1>. QED
  BY <1>1 DEF Source, Home, Codecs, Devices

\* Who is in whose line is a packet.
LEMMA Placed ==
  ASSUME TypeOK, NEW c \in Codecs
  PROVE  /\ queue[c] \in Seq(DOMAIN packets)
         /\ ToSet(queue[c]) \subseteq DOMAIN packets
         /\ DOMAIN packets \in SUBSET Nat
         /\ \A x \in DOMAIN packets : Handled(c, x) => ~IsIdle(c) /\ x # 0
         /\ IsIdle(c) => \A x \in DOMAIN packets : ~Handled(c, x)
<1>1. queue[c] \in Seq(DOMAIN packets) /\ DOMAIN packets = 1..Len(packets) /\ Len(packets) \in Nat
  BY DEF TypeOK
<1>2. ToSet(queue[c]) \subseteq DOMAIN packets
  <2>. DEFINE D == DOMAIN packets
  <2>1. queue[c] \in Seq(D)
    BY <1>1
  <2>. HIDE DEF D
  <2>2. \A i \in DOMAIN queue[c] : queue[c][i] \in D
    BY <2>1
  <2>. QED
    BY <2>2 DEF ToSet, D
<1>3. 0 \notin DOMAIN packets
  BY <1>1
<1>4. IsIdle(c) => todo[c] = Idle
  <2>1. todo[c] \in Jobs
    BY DEF TypeOK
  <2>. QED
    BY <2>1 DEF IsIdle, Jobs
<1>. QED
  BY <1>1, <1>2, <1>3, <1>4 DEF Handled, Idle

-----------------------------------------------------------------------------
(***************************************************************************)
(* The moves a packet makes, and why each keeps the turn.                  *)
(***************************************************************************)

\* Nobody comes nearer to a vocoder than he was.
NobodyNearer ==
  \A c \in Codecs, x \in DOMAIN packets :
    /\ Queued(c, x)' => Queued(c, x)
    /\ Waits(c, x)' => Waits(c, x)
    /\ Handled(c, x)' => Handled(c, x)
    /\ Due(c, x)' => Due(c, x)
    /\ packets'[x].data[c] # <<>> => packets[x].data[c] # <<>>

LEMMA NobodyMoves == ASSUME TurnInv, Same, NobodyNearer PROVE TurnInv'
<1>. SUFFICES ASSUME NEW x \in DOMAIN packets, NEW q \in DOMAIN packets,
                     SameTransmission(x, q)', q <= x
              PROVE  InTurn(x, q)'
  BY DEF TurnInv, Same
<1>1. InTurn(x, q) /\ Source(x)' = Source(x)
  BY KeptSame DEF TurnInv, Same
<1>2. \A c \in Codecs : At(c, q)' => At(c, q)
  BY DEF At, NobodyNearer
<1>3. \A c \in Codecs : At(c, x)' => At(c, x)
  BY DEF At, NobodyNearer
<1>4. \A c \in Codecs : (Waits(c, x) => ~Queued(c, q))' /\ (Handled(c, x) => ~At(c, q))'
  BY <1>1, <1>2 DEF InTurn, NobodyNearer
<1>5. ASSUME NEW w \in Codecs, w # Source(x)'
      PROVE  /\ (At(w, x) \/ Handled(w, x) => ~Due(w, q))'
             /\ (packets[x].data[w] # <<>> =>
                  ~Due(w, q) /\ ~At(w, q) /\ (q < x => ~Handled(w, q)))'
  <2>1. w \in Codecs \ {Source(x)}
    BY <1>1, <1>5
  <2>. QED
    BY <1>1, <1>2, <1>3, <2>1 DEF InTurn, NobodyNearer
<1>. QED
  BY <1>4, <1>5 DEF InTurn

\* Packet p is taken from d's queue to the hardware.
Fed(d, p) ==
  /\ Queued(d, p)
  /\ \A c \in Codecs, x \in DOMAIN packets :
       /\ Queued(c, x)' => Queued(c, x)
       /\ Waits(c, x)' => Waits(c, x) \/ (c = d /\ x = p)
       /\ Handled(c, x)' => Handled(c, x)
       /\ Due(c, x)' => Due(c, x)
       /\ packets'[x].data[c] = packets[x].data[c]
  /\ \A q \in DOMAIN packets : SameTransmission(p, q) /\ q <= p => ~Queued(d, q)'

LEMMA FeedMoves ==
  ASSUME TurnInv, Same, NEW d \in Codecs, NEW p \in DOMAIN packets, Fed(d, p)
  PROVE  TurnInv'
<1>. SUFFICES ASSUME NEW x \in DOMAIN packets, NEW q \in DOMAIN packets,
                     SameTransmission(x, q)', q <= x
              PROVE  InTurn(x, q)'
  BY DEF TurnInv, Same
<1>1. InTurn(x, q) /\ Source(x)' = Source(x) /\ SameTransmission(x, q)
  BY KeptSame DEF TurnInv, Same
<1>2. \A c \in Codecs : (At(c, q)' => At(c, q)) /\ (At(c, x)' => At(c, x))
  BY DEF At, Fed
<1>3. ASSUME NEW c \in Codecs
      PROVE  (Waits(c, x) => ~Queued(c, q))' /\ (Handled(c, x) => ~At(c, q))'
  BY <1>1, <1>2 DEF InTurn, Fed
<1>4. ASSUME NEW w \in Codecs, w # Source(x)'
      PROVE  /\ (At(w, x) \/ Handled(w, x) => ~Due(w, q))'
             /\ (packets[x].data[w] # <<>> =>
                  ~Due(w, q) /\ ~At(w, q) /\ (q < x => ~Handled(w, q)))'
  <2>1. w \in Codecs \ {Source(x)}
    BY <1>1, <1>4
  <2>. QED
    BY <1>1, <1>2, <2>1 DEF InTurn, Fed
<1>. QED
  BY <1>3, <1>4 DEF InTurn

\* Vocoder d takes packet p into its hands, and may set its data.
Taken(d, p) ==
  /\ At(d, p)
  /\ \A c \in Codecs, x \in DOMAIN packets :
       /\ Queued(c, x)' => Queued(c, x)
       /\ Waits(c, x)' => Waits(c, x)
       /\ Handled(c, x)' => Handled(c, x) \/ (c = d /\ x = p)
       /\ Due(c, x)' => Due(c, x)
       /\ packets'[x].data[c] # <<>> => packets[x].data[c] # <<>> \/ (c = d /\ x = p)
  /\ \A x \in DOMAIN packets : Handled(d, x)' => x = p
  /\ \A q \in DOMAIN packets : SameTransmission(p, q) /\ q <= p => ~At(d, q)'

LEMMA TakingMoves ==
  ASSUME TypeOK, TurnInv, Same, NEW d \in Codecs, NEW p \in DOMAIN packets, Taken(d, p)
  PROVE  TurnInv'
<1>. SUFFICES ASSUME NEW x \in DOMAIN packets, NEW q \in DOMAIN packets,
                     SameTransmission(x, q)', q <= x
              PROVE  InTurn(x, q)'
  BY DEF TurnInv, Same
<1>1. InTurn(x, q) /\ Source(x)' = Source(x) /\ SameTransmission(x, q)
  BY KeptSame DEF TurnInv, Same
<1>2. \A c \in Codecs : (At(c, q)' => At(c, q)) /\ (At(c, x)' => At(c, x))
  BY DEF At, Taken
<1>3. ASSUME NEW c \in Codecs
      PROVE  (Waits(c, x) => ~Queued(c, q))' /\ (Handled(c, x) => ~At(c, q))'
  BY <1>1, <1>2 DEF InTurn, Taken
<1>4. ASSUME NEW w \in Codecs, w # Source(x)'
      PROVE  /\ (At(w, x) \/ Handled(w, x) => ~Due(w, q))'
             /\ (packets[x].data[w] # <<>> =>
                  ~Due(w, q) /\ ~At(w, q) /\ (q < x => ~Handled(w, q)))'
  <2>1. w \in Codecs \ {Source(x)}
    BY <1>1, <1>4
  <2>2. At(w, x)' \/ Handled(w, x)' => ~Due(w, q)'
    BY <1>1, <1>2, <2>1 DEF InTurn, Taken
  <2>3. CASE packets[x].data[w] # <<>>
    <3>1. ~Due(w, q)' /\ ~At(w, q)'
      BY <1>1, <1>2, <2>1, <2>3 DEF InTurn, Taken
    <3>2. q < x => ~Handled(w, q)'
      BY <1>1, <2>1, <2>3 DEF InTurn, Taken
    <3>. QED
      BY <2>2, <3>1, <3>2
  <2>4. CASE packets[x].data[w] = <<>> /\ packets'[x].data[w] # <<>>
    <3>1. w = d /\ x = p
      BY <2>4 DEF Taken
    <3>2. ~Due(w, q)'
      BY <1>1, <2>1, <3>1 DEF InTurn, Taken
    <3>3. ~At(w, q)'
      BY <1>1, <3>1 DEF Taken
    <3>4. Handled(w, q)' => q = x
      BY <3>1 DEF Taken
    <3>5. ~(x < x)
      BY Placed
    <3>. QED
      BY <2>2, <3>2, <3>3, <3>4, <3>5
  <2>. QED
    BY <2>2, <2>3, <2>4
<1>. QED
  BY <1>3, <1>4 DEF InTurn

\* Packet p, which is in the hands of the vocoder that decodes it, is passed on to c.
PassedOn(c, p) ==
  /\ Handled(Source(p), p) /\ Due(c, p) /\ c # Source(p)
  /\ \A e \in Codecs, x \in DOMAIN packets :
       /\ Queued(e, x)' => Queued(e, x) \/ (e = c /\ x = p)
       /\ Waits(e, x)' => Waits(e, x)
       /\ Handled(e, x)' => Handled(e, x)
       /\ Due(e, x)' => Due(e, x)
       /\ packets'[x].data[e] = packets[x].data[e]
  /\ ~Due(c, p)'
  /\ \A e \in Codecs, x \in DOMAIN packets : e = Source(p) /\ Handled(e, x)' => x = p

LEMMA PassingMoves ==
  ASSUME TurnInv, StreamInv, Same,
         NEW c \in Codecs, NEW p \in DOMAIN packets, Source(p) \in Codecs, PassedOn(c, p)
  PROVE  TurnInv'
<1>. SUFFICES ASSUME NEW x \in DOMAIN packets, NEW q \in DOMAIN packets,
                     SameTransmission(x, q)', q <= x
              PROVE  InTurn(x, q)'
  BY DEF TurnInv, Same
<1>1. InTurn(x, q) /\ Source(x)' = Source(x) /\ SameTransmission(x, q)
  BY KeptSame DEF TurnInv, Same
<1>2. Source(x) = Source(q) /\ Source(q)' = Source(q)
  BY <1>1, KeptSame DEF StreamInv, Source, Same
<1>3. /\ \A e \in Codecs : At(e, q)' => At(e, q) \/ (e = c /\ q = p)
      /\ \A e \in Codecs : At(e, x)' => At(e, x) \/ (e = c /\ x = p)
  BY DEF At, PassedOn
<1>4. q = p => ~At(c, x) /\ ~Handled(c, x) /\ packets[x].data[c] = <<>>
  BY <1>1, <1>2 DEF InTurn, PassedOn
<1>5. ASSUME NEW e \in Codecs
      PROVE  (Waits(e, x) => ~Queued(e, q))' /\ (Handled(e, x) => ~At(e, q))'
  <2>1. Waits(e, x)' => ~Queued(e, q)'
    BY <1>1, <1>4 DEF InTurn, PassedOn, At
  <2>2. Handled(e, x)' => ~At(e, q)'
    BY <1>1, <1>3, <1>4 DEF InTurn, PassedOn
  <2>. QED
    BY <2>1, <2>2
<1>6. ASSUME NEW w \in Codecs, w # Source(x)'
      PROVE  /\ (At(w, x) \/ Handled(w, x) => ~Due(w, q))'
             /\ (packets[x].data[w] # <<>> =>
                  ~Due(w, q) /\ ~At(w, q) /\ (q < x => ~Handled(w, q)))'
  <2>1. w \in Codecs \ {Source(x)}
    BY <1>1, <1>6
  <2>2. CASE w = c /\ x = p
    <3>1. ~At(Source(p), q)
      BY <1>1, <2>2 DEF InTurn, PassedOn
    <3>2. ~At(Source(q), q)'
      BY <1>2, <1>3, <2>1, <2>2, <3>1
    <3>4. ~Due(c, q)'
      <4>0. PICK e \in Codecs : e = Source(p)
        OBVIOUS
      <4>3. Handled(e, q)' => q = p
        BY <4>0 DEF PassedOn
      <4>4. Source(q)' = e /\ ~At(e, q)'
        BY <1>2, <2>2, <3>2, <4>0 DEF At, Queued, Waits
      <4>1. Due(c, q)' => q = p
        BY <4>3, <4>4 DEF Due, Handled
      <4>. QED
        BY <4>1 DEF PassedOn
    <3>5. packets'[x].data[w] # <<>> => ~At(w, q)' /\ (q < x => ~Handled(w, q)')
      BY <1>1, <1>3, <1>4, <2>1, <2>2 DEF InTurn, PassedOn
    <3>. QED
      BY <2>2, <3>4, <3>5
  <2>3. CASE ~(w = c /\ x = p)
    <3>1. At(w, x)' \/ Handled(w, x)' => ~Due(w, q)'
      BY <1>1, <1>3, <2>1, <2>3 DEF InTurn, PassedOn
    <3>2. packets'[x].data[w] # <<>> =>
            ~Due(w, q)' /\ ~At(w, q)' /\ (q < x => ~Handled(w, q)')
      BY <1>1, <1>3, <1>4, <2>1, <2>3 DEF InTurn, PassedOn
    <3>. QED
      BY <3>1, <3>2
  <2>. QED
    BY <2>2, <2>3
<1>. QED
  BY <1>5, <1>6 DEF InTurn

-----------------------------------------------------------------------------
(***************************************************************************)
(* Every action makes one of these moves.                                  *)
(***************************************************************************)

LEMMA LinesMove ==
  ASSUME TypeOK, TypeOK', Kept, LinesInv,
         \A c \in Codecs : LineStep(queue[c], queue'[c]),
         \A d \in Devices, m \in Modules :
           /\ LineStep(waiting[d][m], waiting'[d][m])
           /\ \A i \in DOMAIN waiting'[d][m] : packets'[waiting'[d][m][i]].mod = m
  PROVE  LinesInv'
<1>1. DOMAIN packets \in SUBSET Nat /\ DOMAIN packets' \in SUBSET Nat
  BY DEF TypeOK
<1>2. ASSUME NEW c \in Codecs PROVE Follow(queue[c])'
  <2>1. PICK s, t : s = queue[c] /\ t = queue'[c]
    OBVIOUS
  <2>2. s \in Seq(DOMAIN packets) /\ Follow(s) /\ LineStep(s, t)
    BY <2>1 DEF TypeOK, LinesInv
  <2>. QED
    BY <1>1, <2>1, <2>2, LineMoves DEF Follow
<1>3. ASSUME NEW d \in Devices, NEW m \in Modules PROVE Follow(waiting[d][m])'
  <2>1. PICK s, t : s = waiting[d][m] /\ t = waiting'[d][m]
    OBVIOUS
  <2>2. s \in Seq(DOMAIN packets) /\ Follow(s) /\ LineStep(s, t)
    BY <2>1 DEF TypeOK, LinesInv
  <2>. QED
    BY <1>1, <2>1, <2>2, LineMoves DEF Follow
<1>. QED
  BY <1>2, <1>3 DEF LinesInv

\* Who waits on a channel is a packet of its module.
LEMMA Channel ==
  ASSUME TypeOK, LinesInv, NEW d \in Devices, NEW m \in Modules
  PROVE  /\ waiting[d][m] \in Seq(DOMAIN packets)
         /\ \A x \in ToSet(waiting[d][m]) : x \in DOMAIN packets /\ packets[x].mod = m /\ Waits(d, x)
<1>1. PICK s, D : s = waiting[d][m] /\ D = DOMAIN packets
  OBVIOUS
<1>2. s \in Seq(D)
  BY <1>1 DEF TypeOK
<1>3. \A i \in DOMAIN s : s[i] \in D /\ packets[s[i]].mod = m
  BY <1>1, <1>2 DEF LinesInv
<1>. QED
  BY <1>1, <1>2, <1>3 DEF ToSet, Waits

LEMMA FeedInTurn ==
  ASSUME TypeOK, TypeOK', LinesInv, TurnInv, NEW d \in Devices, Feed(d)
  PROVE  LinesInv' /\ TurnInv'
<1>. d \in Codecs
  BY DEF Codecs
<1>1. PICK p, m : p = Head(queue[d]) /\ m = packets[p].mod
  OBVIOUS
<1>2. /\ p \in DOMAIN packets /\ m \in Modules /\ Queued(d, p)
      /\ \A q \in ToSet(Tail(queue[d])) : SameTransmission(p, q) => p < q
      /\ ToSet(Tail(queue[d])) \subseteq ToSet(queue[d])
  <2>1. PICK s, D : s = queue[d] /\ D = DOMAIN packets
    OBVIOUS
  <2>2. s \in Seq(D) /\ D \in SUBSET Nat /\ s # <<>> /\ Follow(s)
    BY <2>1, Placed DEF Feed, LinesInv
  <2>3. /\ Head(s) \in ToSet(s) /\ Head(s) \in D
        /\ ToSet(Tail(s)) \subseteq ToSet(s)
        /\ \A x \in ToSet(Tail(s)) : SameTransmission(Head(s), x) => Head(s) < x
    BY <2>2, HeadLeaves
  <2>4. p \in DOMAIN packets
    BY <1>1, <2>1, <2>3
  <2>. QED
    BY <1>1, <2>1, <2>3, <2>4, PacketTyped DEF Queued
<1>3. Same /\ packets' = packets /\ todo' = todo
  BY DEF Feed, Same, Kept
<1>4. /\ \A c \in Codecs : queue'[c] = IF c = d THEN Tail(queue[d]) ELSE queue[c]
      /\ queue[d] # <<>>
  BY DEF Feed, TypeOK
<1>5. \A e \in Devices, n \in Modules :
        waiting'[e][n] = IF e = d /\ n = m THEN Append(waiting[d][m], p) ELSE waiting[e][n]
  BY <1>1, <1>2 DEF Feed, TypeOK
<1>6. /\ ToSet(Append(waiting[d][m], p)) = ToSet(waiting[d][m]) \cup {p}
      /\ \A i \in DOMAIN Append(waiting[d][m], p) :
           packets[Append(waiting[d][m], p)[i]].mod = m
  <2>1. PICK s, D : s = waiting[d][m] /\ D = DOMAIN packets
    OBVIOUS
  <2>2. s \in Seq(D) /\ D \in SUBSET Nat /\ p \in D
    BY <1>2, <2>1, Placed, Channel
  <2>3. /\ ToSet(Append(s, p)) = ToSet(s) \cup {p}
        /\ \A i \in DOMAIN Append(s, p) :
             \/ i \in DOMAIN s /\ Append(s, p)[i] = s[i]
             \/ Append(s, p)[i] = p
    BY <2>2, LastJoins
  <2>4. \A i \in DOMAIN s : packets[s[i]].mod = m
    BY <1>2, <2>1 DEF LinesInv
  <2>5. \A i \in DOMAIN Append(s, p) : packets[Append(s, p)[i]].mod = m
    <3>1. packets[p].mod = m
      BY <1>1
    <3>. QED
      BY <2>3, <2>4, <3>1
  <2>. QED
    BY <2>1, <2>3, <2>5
<1>7. TurnInv'
  <2>1. \A c \in Codecs, x \in DOMAIN packets :
          /\ Queued(c, x)' => Queued(c, x)
          /\ Waits(c, x)' => Waits(c, x) \/ (c = d /\ x = p)
    BY <1>2, <1>3, <1>4, <1>5, <1>6, PacketTyped DEF Queued, Waits
  <2>2. \A c \in Codecs, x \in DOMAIN packets : At(c, x)' => At(c, x)
    BY <1>2, <2>1 DEF At
  <2>3. \A c \in Codecs, x \in DOMAIN packets : Due(c, x)' => Due(c, x)
    <3>1. \A x \in DOMAIN packets : Source(x) \in Codecs /\ Source(x)' = Source(x)
      BY <1>3, HomeTyped, PacketTyped DEF Source
    <3>2. \A x \in DOMAIN packets : At(Source(x), x)' => At(Source(x), x)
      BY <1>3, <2>2, <3>1 DEF At, Queued, Waits
    <3>. QED
      BY <1>3, <3>1, <3>2 DEF Due, Handled
  <2>4. \A q \in DOMAIN packets : SameTransmission(p, q) /\ q <= p => ~Queued(d, q)'
    <3>1. \A q \in DOMAIN packets : q <= p => ~(p < q)
      BY <1>2, Placed
    <3>. QED
      BY <1>2, <1>4, <3>1 DEF Queued
  <2>5. Fed(d, p)
    BY <1>2, <1>3, <2>1, <2>3, <2>4 DEF Fed, Handled
  <2>. QED
    BY <1>2, <1>3, <2>5, FeedMoves
<1>8. LinesInv'
  <2>1. \A c \in Codecs : LineStep(queue[c], queue'[c])
    BY <1>4 DEF LineStep
  <2>2. \A y \in ToSet(waiting[d][m]) : SameTransmission(y, p)' => y < p
    <3>1. ASSUME NEW y \in DOMAIN packets, Waits(d, y), SameTransmission(y, p) PROVE y < p
      <4>1. ~(p <= y)
        BY <1>2, <3>1 DEF TurnInv, InTurn
      <4>. QED
        BY <1>2, <4>1, Placed
    <3>. QED
      BY <1>2, <1>3, <3>1, Channel, KeptSame DEF Same
  <2>3. LineStep(waiting[d][m], Append(waiting[d][m], p))
    BY <1>2, <1>3, <2>2 DEF LineStep
  <2>4. ASSUME NEW e \in Devices, NEW n \in Modules
        PROVE  /\ LineStep(waiting[e][n], waiting'[e][n])
               /\ \A i \in DOMAIN waiting'[e][n] : packets'[waiting'[e][n][i]].mod = n
    <3>1. CASE e = d /\ n = m
      BY <1>3, <1>5, <1>6, <2>3, <3>1
    <3>2. CASE ~(e = d /\ n = m)
      BY <1>3, <1>5, <3>2 DEF LineStep, LinesInv
    <3>. QED
      BY <3>1, <3>2
  <2>. QED
    BY <1>3, <2>1, <2>4, LinesMove DEF Same
<1>. QED
  BY <1>7, <1>8

\* The packet at the head of a channel is taken from it.
LEMMA ChannelPopped ==
  ASSUME TypeOK, TypeOK', LinesInv, Same, NEW d \in Devices, NEW m \in Modules,
         PopWaiting(d, m), UNCHANGED queue
  PROVE  /\ LinesInv'
         /\ Head(waiting[d][m]) \in DOMAIN packets
         /\ Waits(d, Head(waiting[d][m]))
         /\ \A c \in Codecs, x \in DOMAIN packets :
              /\ Queued(c, x)' <=> Queued(c, x)
              /\ Waits(c, x)' => Waits(c, x)
              /\ At(c, x)' => At(c, x)
         /\ \A x \in DOMAIN packets :
              SameTransmission(Head(waiting[d][m]), x) /\ x <= Head(waiting[d][m]) => ~Waits(d, x)'
<1>1. PICK s, D : s = waiting[d][m] /\ D = DOMAIN packets
  OBVIOUS
<1>2. s \in Seq(D) /\ D \in SUBSET Nat /\ s # <<>> /\ Follow(s)
  <2>. d \in Codecs
    BY DEF Codecs
  <2>. QED
    BY <1>1, Placed, Channel DEF PopWaiting, LinesInv
<1>3. PICK p : p = Head(s)
  OBVIOUS
<1>4. /\ p \in ToSet(s) /\ p \in D
      /\ ToSet(Tail(s)) \subseteq ToSet(s)
      /\ \A x \in ToSet(Tail(s)) : SameTransmission(p, x) => p < x
  BY <1>2, <1>3, HeadLeaves
<1>5. Waits(d, p) /\ packets[p].mod = m
  BY <1>1, <1>4, Channel
<1>6. \A e \in Devices, n \in Modules :
        waiting'[e][n] = IF e = d /\ n = m THEN Tail(s) ELSE waiting[e][n]
  BY <1>1 DEF PopWaiting, TypeOK
<1>7. \A c \in Codecs, x \in DOMAIN packets :
        /\ Queued(c, x)' <=> Queued(c, x)
        /\ Waits(c, x)' => Waits(c, x)
  <2>1. \A x \in DOMAIN packets : packets'[x].mod = packets[x].mod /\ packets[x].mod \in Modules
    BY PacketTyped DEF Same, Kept
  <2>. QED
    BY <1>1, <1>4, <1>6, <2>1 DEF Queued, Waits
<1>8. \A c \in Codecs, x \in DOMAIN packets : At(c, x)' => At(c, x)
  BY <1>7 DEF At
<1>9. ASSUME NEW x \in DOMAIN packets, SameTransmission(p, x), x <= p
      PROVE  ~Waits(d, x)'
  <2>1. packets[x].mod = m /\ packets'[x].mod = m
    BY <1>5, <1>9 DEF SameTransmission, Same, Kept
  <2>2. ~(p < x)
    BY <1>1, <1>2, <1>4, <1>9
  <2>. QED
    BY <1>4, <1>6, <1>9, <2>1, <2>2 DEF Waits
<1>10. LinesInv'
  <2>1. \A c \in Codecs : LineStep(queue[c], queue'[c])
    BY DEF LineStep
  <2>2. ASSUME NEW e \in Devices, NEW n \in Modules
        PROVE  /\ LineStep(waiting[e][n], waiting'[e][n])
               /\ \A i \in DOMAIN waiting'[e][n] : packets'[waiting'[e][n][i]].mod = n
    <3>1. waiting[e][n] \in Seq(DOMAIN packets) /\ \A i \in DOMAIN waiting[e][n] : packets[waiting[e][n][i]].mod = n
      <4>1. waiting[e][n] \in Seq(DOMAIN packets)
        BY Channel
      <4>2. \A i \in DOMAIN waiting[e][n] : packets[waiting[e][n][i]].mod = n
        BY DEF LinesInv
      <4>. QED
        BY <4>1, <4>2
    <3>2. \A i \in DOMAIN waiting[e][n] : packets'[waiting[e][n][i]].mod = n
      <4>1. PICK z : z = waiting[e][n]
        OBVIOUS
      <4>2. \A i \in DOMAIN z : z[i] \in D
        BY <1>1, <3>1, <4>1
      <4>. QED
        BY <1>1, <3>1, <4>1, <4>2 DEF Same, Kept
    <3>3. CASE e = d /\ n = m
      <4>1. \A i \in DOMAIN Tail(s) : i + 1 \in DOMAIN s /\ Tail(s)[i] = s[i + 1]
        BY <1>2
      <4>2. waiting'[e][n] = Tail(s) /\ waiting[e][n] = s
        BY <1>1, <1>6, <3>3
      <4>3. LineStep(waiting[e][n], waiting'[e][n])
        BY <1>2, <4>2 DEF LineStep
      <4>. QED
        BY <3>2, <4>1, <4>2, <4>3
    <3>4. CASE ~(e = d /\ n = m)
      BY <1>6, <3>2, <3>4 DEF LineStep
    <3>. QED
      BY <3>3, <3>4
  <2>. QED
    BY <2>1, <2>2, LinesMove DEF Same
<1>. QED
  BY <1>1, <1>3, <1>4, <1>5, <1>7, <1>8, <1>9, <1>10

\* A vocoder that was idle has a packet in its hands: it comes no nearer to the others.
LEMMA TakenIsDue ==
  ASSUME TypeOK, Same, NEW d \in Codecs, NEW p \in DOMAIN packets, IsIdle(d),
         todo' = [todo EXCEPT ![d] = Job(d, p)],
         At(d, p), NEW w, NEW x \in DOMAIN packets,
         \A c \in Codecs : At(c, x)' => At(c, x)
  PROVE  /\ Due(w, x)' => Due(w, x)
         /\ \A c \in Codecs : Handled(c, x)' => Handled(c, x) \/ (c = d /\ x = p)
         /\ Handled(d, x)' => x = p
<1>1. PICK e \in Codecs : e = Source(x)
  BY HomeTyped
<1>2. Source(x)' = e
  BY <1>1, KeptSame DEF Same
<1>3. \A c \in Codecs : todo'[c] = IF c = d THEN Job(d, p) ELSE todo[c]
  BY DEF TypeOK
<1>4. \A c \in Codecs : Handled(c, x)' => Handled(c, x) \/ (c = d /\ x = p)
  BY <1>3 DEF Handled, Job
<1>5. Handled(d, x)' => x = p
  BY <1>3 DEF Handled, Job
<1>6. Due(w, x)' => Due(w, x)
  <2>1. CASE e = d
    BY <1>1, <1>2, <1>5, <2>1 DEF Due, At, Queued, Waits, Handled
  <2>2. CASE e # d
    BY <1>1, <1>2, <1>3, <2>2 DEF Due, At, Queued, Waits, Handled
  <2>. QED
    BY <2>1, <2>2
<1>. QED
  BY <1>4, <1>5, <1>6

LEMMA ReadInTurn ==
  ASSUME TypeOK, TypeOK', LinesInv, TurnInv, NEW d \in Devices, ReadDevice(d)
  PROVE  /\ LinesInv' /\ TurnInv' /\ Same /\ SetOnly
         /\ \E p \in DOMAIN packets : todo' = [todo EXCEPT ![d] = Job(d, p)]
<1>. d \in Codecs
  BY DEF Codecs
<1>1. PICK i, m, p :
        /\ i \in DOMAIN chip[d]
        /\ m = chip[d][i].mod /\ p = Head(waiting[d][m])
        /\ IsIdle(d)
        /\ PopWaiting(d, m)
        /\ packets' = IF chip[d][i].kind = "speech"
                      THEN [packets EXCEPT ![p].audio = chip[d][i].voice]
                      ELSE [packets EXCEPT ![p].data[d] = chip[d][i].voice]
        /\ todo' = [todo EXCEPT ![d] = Job(d, p)]
        /\ UNCHANGED queue
  BY DEF ReadDevice
<1>. i \in DOMAIN chip[d]
  BY <1>1
<1>2. m \in Modules
  <2>1. chip[d] \in Seq(Requests)
    BY DEF TypeOK
  <2>2. chip[d][i] \in Requests
    BY <2>1
  <2>. QED
    BY <1>1, <2>2 DEF Requests
<1>3. p \in DOMAIN packets
  <2>1. PICK s, D : s = waiting[d][m] /\ D = DOMAIN packets
    OBVIOUS
  <2>2. s \in Seq(D) /\ s # <<>>
    BY <1>1, <1>2, <2>1, Channel DEF PopWaiting
  <2>3. Head(s) \in D
    BY <2>2
  <2>. QED
    BY <1>1, <2>1, <2>3
<1>4. Same
  BY <1>1, <1>3, SetKeeps
<1>5. /\ LinesInv'
      /\ Waits(d, p)
      /\ \A c \in Codecs, x \in DOMAIN packets :
           /\ Queued(c, x)' <=> Queued(c, x)
           /\ Waits(c, x)' => Waits(c, x)
           /\ At(c, x)' => At(c, x)
      /\ \A x \in DOMAIN packets : SameTransmission(p, x) /\ x <= p => ~Waits(d, x)'
  BY <1>1, <1>2, <1>4, ChannelPopped
<1>6. \A c \in Codecs, x \in DOMAIN packets :
        packets'[x].data[c] # <<>> => packets[x].data[c] # <<>> \/ (c = d /\ x = p)
  <2>1. CASE packets' = [packets EXCEPT ![p].audio = chip[d][i].voice]
    BY <1>3, <2>1, DataOf
  <2>2. CASE packets' = [packets EXCEPT ![p].data[d] = chip[d][i].voice]
    BY <1>3, <2>2, DataOf
  <2>. QED
    BY <1>1, <2>1, <2>2
<1>7. Taken(d, p)
  <2>1. At(d, p)
    BY <1>5 DEF At
  <2>2. ASSUME NEW x \in DOMAIN packets
        PROVE  /\ \A c \in Codecs : Due(c, x)' => Due(c, x)
               /\ \A c \in Codecs : Handled(c, x)' => Handled(c, x) \/ (c = d /\ x = p)
               /\ Handled(d, x)' => x = p
    BY <1>1, <1>3, <1>4, <1>5, <2>1, TakenIsDue
  <2>3. \A q \in DOMAIN packets : SameTransmission(p, q) /\ q <= p => ~At(d, q)'
    BY <1>3, <1>5 DEF At, TurnInv, InTurn
  <2>. QED
    BY <1>5, <1>6, <2>1, <2>2, <2>3 DEF Taken
<1>8. SetOnly
  <2>1. CASE packets' = [packets EXCEPT ![p].audio = chip[d][i].voice]
    BY <1>3, <1>5, <2>1, SentOf, DataOf DEF SetOnly, At
  <2>2. CASE packets' = [packets EXCEPT ![p].data[d] = chip[d][i].voice]
    BY <1>3, <1>5, <2>2, SentOf, DataOf DEF SetOnly, At
  <2>. QED
    BY <1>1, <2>1, <2>2
<1>. QED
  BY <1>1, <1>3, <1>4, <1>5, <1>7, <1>8, TakingMoves

\* Answers that are lost, or cannot be used, and counting move nobody.
LEMMA DropInTurn ==
  ASSUME TypeOK, TypeOK', LinesInv, TurnInv, NEW d \in Devices,
         UnexpectedResponse(d) \/ NoResponse(d) \/ Count(d)
  PROVE  LinesInv' /\ TurnInv' /\ Same
<1>1. /\ UNCHANGED <<packets, queue, todo>>
      /\ waiting' = waiting \/ \E m \in Modules : PopWaiting(d, m)
  <2>1. \A i \in DOMAIN chip[d] : chip[d][i].mod \in Modules
    <3>1. chip[d] \in Seq(Requests)
      BY DEF TypeOK
    <3>2. \A i \in DOMAIN chip[d] : chip[d][i] \in Requests
      BY <3>1
    <3>. QED
      BY <3>2 DEF Requests
  <2>. QED
    BY <2>1 DEF UnexpectedResponse, NoResponse, Count
<1>2. Same
  BY <1>1 DEF Same, Kept
<1>3. /\ LinesInv'
      /\ \A c \in Codecs, x \in DOMAIN packets :
           /\ Queued(c, x)' => Queued(c, x)
           /\ Waits(c, x)' => Waits(c, x)
           /\ At(c, x)' => At(c, x)
  <2>1. CASE waiting' = waiting
    BY <1>1, <2>1 DEF LinesInv, Follow, SameTransmission, Queued, Waits, At
  <2>2. CASE \E m \in Modules : PopWaiting(d, m)
    BY <1>1, <1>2, <2>2, ChannelPopped
  <2>. QED
    BY <1>1, <2>1, <2>2
<1>4. NobodyNearer
  <2>1. \A c \in Codecs, x \in DOMAIN packets : Due(c, x)' => Due(c, x)
    <3>1. \A x \in DOMAIN packets : Source(x) \in Codecs
      BY HomeTyped
    <3>2. \A x \in DOMAIN packets : Source(x)' = Source(x)
      BY <1>1 DEF Source
    <3>3. \A x \in DOMAIN packets : At(Source(x), x)' => At(Source(x), x)
      BY <1>3, <3>1, <3>2 DEF At, Queued, Waits
    <3>. QED
      BY <1>1, <3>2, <3>3 DEF Due, Handled
  <2>. QED
    BY <1>1, <1>3, <2>1 DEF NobodyNearer, Handled
<1>. QED
  BY <1>2, <1>3, <1>4, NobodyMoves

\* A vocoder in software has no channels.
LEMMA NoChannel == ASSUME NEW w \in Codecs, w \notin Devices, NEW x PROVE ~Waits(w, x)
BY DEF Waits

LEMMA PopInTurn ==
  ASSUME TypeOK, TypeOK', LinesInv, TurnInv, Same,
         NEW w \in {"m17", "p25"}, NEW p \in DOMAIN packets, Pop(w, p), UNCHANGED waiting,
         \A c \in Codecs, x \in DOMAIN packets :
           packets'[x].data[c] = packets[x].data[c] \/ (c = w /\ x = p)
  PROVE  LinesInv' /\ TurnInv'
<1>. w \in Codecs /\ w \notin Devices
  BY DEF Codecs, Devices
<1>1. PICK s, D : s = queue[w] /\ D = DOMAIN packets
  OBVIOUS
<1>2. s \in Seq(D) /\ D \in SUBSET Nat /\ s # <<>> /\ Follow(s)
  BY <1>1, Placed DEF Pop, LinesInv
<1>3. /\ p = Head(s) /\ p \in ToSet(s)
      /\ ToSet(Tail(s)) \subseteq ToSet(s)
      /\ \A x \in ToSet(Tail(s)) : SameTransmission(p, x) => p < x
  BY <1>1, <1>2, HeadLeaves DEF Pop
<1>4. \A c \in Codecs : queue'[c] = IF c = w THEN Tail(s) ELSE queue[c]
  BY <1>1 DEF Pop, TypeOK
<1>5. LinesInv'
  <2>1. \A c \in Codecs : LineStep(queue[c], queue'[c])
    BY <1>1, <1>2, <1>4 DEF LineStep
  <2>2. ASSUME NEW e \in Devices, NEW n \in Modules
        PROVE  /\ LineStep(waiting[e][n], waiting'[e][n])
               /\ \A i \in DOMAIN waiting'[e][n] : packets'[waiting'[e][n][i]].mod = n
    <3>1. PICK z : z = waiting[e][n]
      OBVIOUS
    <3>2. z \in Seq(DOMAIN packets)
      BY <3>1, Channel
    <3>3. \A i \in DOMAIN z : z[i] \in DOMAIN packets /\ packets[z[i]].mod = n
      BY <3>1, <3>2 DEF LinesInv
    <3>. QED
      BY <3>1, <3>3 DEF LineStep, Same, Kept
  <2>. QED
    BY <2>1, <2>2, LinesMove DEF Same
<1>6. \A c \in Codecs, x \in DOMAIN packets :
        /\ Queued(c, x)' => Queued(c, x)
        /\ Waits(c, x)' => Waits(c, x)
        /\ At(c, x)' => At(c, x)
  <2>1. \A c \in Codecs, x \in DOMAIN packets : Queued(c, x)' => Queued(c, x)
    BY <1>1, <1>3, <1>4 DEF Queued
  <2>2. \A c \in Codecs, x \in DOMAIN packets : Waits(c, x)' => Waits(c, x)
    BY DEF Waits, Same, Kept
  <2>. QED
    BY <2>1, <2>2 DEF At
<1>7. At(w, p)
  BY <1>1, <1>3 DEF At, Queued
<1>8. ASSUME NEW x \in DOMAIN packets
      PROVE  /\ \A c \in Codecs : Due(c, x)' => Due(c, x)
             /\ \A c \in Codecs : Handled(c, x)' => Handled(c, x) \/ (c = w /\ x = p)
             /\ Handled(w, x)' => x = p
  BY <1>6, <1>7, TakenIsDue DEF Pop
<1>9. ASSUME NEW q \in DOMAIN packets, SameTransmission(p, q), q <= p PROVE ~At(w, q)'
  <2>1. ~(p < q)
    BY <1>1, <1>2, <1>9
  <2>2. ~Queued(w, q)'
    BY <1>3, <1>4, <1>9, <2>1 DEF Queued
  <2>. QED
    BY <2>2, <1>6, NoChannel DEF At
<1>10. Taken(w, p)
  BY <1>6, <1>7, <1>8, <1>9 DEF Taken
<1>. QED
  BY <1>5, <1>10, TakingMoves

LEMMA SoftInTurn ==
  ASSUME TypeOK, TypeOK', LinesInv, TurnInv, Soft
  PROVE  /\ LinesInv' /\ TurnInv' /\ Same /\ SetOnly
         /\ \E w \in Codecs, p \in DOMAIN packets : todo' = [todo EXCEPT ![w] = Job(w, p)]
<1>1. PICK w, p, a :
        /\ w \in {"m17", "p25"} /\ p \in DOMAIN packets
        /\ Pop(w, p) /\ UNCHANGED waiting
        /\ \/ packets' = [packets EXCEPT ![p].audio = a]
           \/ packets' = [packets EXCEPT ![p].data[w] = a]
  <2>1. \E w \in {"m17", "p25"}, p \in DOMAIN packets : \E a :
          /\ Pop(w, p) /\ UNCHANGED waiting
          /\ \/ packets' = [packets EXCEPT ![p].audio = a]
             \/ packets' = [packets EXCEPT ![p].data[w] = a]
    BY DEF Soft, Codec2toAudio, AudiotoCodec2, IMBEtoAudio, AudiotoIMBE, SetAudio, SetData, deviceVars
  <2>. QED
    BY <2>1
<1>. w \in {"m17", "p25"} /\ p \in DOMAIN packets
  BY <1>1
<1>2. w \in Codecs
  BY DEF Codecs
<1>3. Same /\ \A c \in Codecs, x \in DOMAIN packets :
                packets'[x].data[c] = packets[x].data[c] \/ (c = w /\ x = p)
  <2>1. Same
    BY <1>1, <1>2, SetKeeps
  <2>2. CASE packets' = [packets EXCEPT ![p].audio = a]
    BY <1>2, <2>1, <2>2, DataOf
  <2>3. CASE packets' = [packets EXCEPT ![p].data[w] = a]
    BY <1>2, <2>1, <2>3, DataOf
  <2>. QED
    BY <1>1, <2>1, <2>2, <2>3
<1>4. At(w, p)
  <2>1. PICK s, D : s = queue[w] /\ D = DOMAIN packets
    OBVIOUS
  <2>2. s \in Seq(D) /\ D \in SUBSET Nat /\ s # <<>>
    BY <1>1, <1>2, <2>1, Placed DEF Pop
  <2>3. Head(s) \in ToSet(s)
    BY <2>2, HeadLeaves
  <2>. QED
    BY <1>1, <2>1, <2>3 DEF Pop, At, Queued
<1>5. \A x \in DOMAIN packets : packets'[x].sent = packets[x].sent
  <2>1. CASE packets' = [packets EXCEPT ![p].audio = a]
    BY <1>2, <2>1, SentOf
  <2>2. CASE packets' = [packets EXCEPT ![p].data[w] = a]
    BY <1>2, <2>2, SentOf
  <2>. QED
    BY <1>1, <2>1, <2>2
<1>6. SetOnly
  BY <1>3, <1>4, <1>5 DEF SetOnly
<1>7. LinesInv' /\ TurnInv'
  BY <1>1, <1>3, PopInTurn
<1>8. todo' = [todo EXCEPT ![w] = Job(w, p)]
  BY <1>1 DEF Pop
<1>. QED
  BY <1>2, <1>3, <1>6, <1>7, <1>8

\* A vocoder has done a step: what is left is the rest of it.
LEMMA StepRests ==
  ASSUME TypeOK, NEW w \in Codecs, ~IsIdle(w), StepDone(w)
  PROVE  /\ todo[w].packet \in DOMAIN packets
         /\ todo[w].steps # <<>> /\ Head(todo[w].steps) \in ToSet(todo[w].steps)
         /\ \A c \in Codecs, x \in DOMAIN packets :
              Handled(c, x)' =>
                Handled(c, x) /\ todo'[c].steps = IF c = w THEN Tail(todo[w].steps) ELSE todo[c].steps
         /\ ToSet(Tail(todo[w].steps)) \subseteq ToSet(todo[w].steps)
<1>1. \A c \in Codecs : todo'[c] = IF c = w THEN Rest(todo[w]) ELSE todo[c]
  BY DEF StepDone, TypeOK
<1>2. todo[w] \in [packet : DOMAIN packets, steps : Seq(Codecs \cup {"reflector"}) \ {<<>>}]
  BY DEF TypeOK, Jobs, IsIdle, Idle
<1>3. PICK s, S : s = todo[w].steps /\ S = Codecs \cup {"reflector"}
  OBVIOUS
<1>4. s \in Seq(S) /\ s # <<>>
  BY <1>2, <1>3
<1>5. Head(s) \in ToSet(s) /\ ToSet(Tail(s)) \subseteq ToSet(s)
  <2>1. 1 \in DOMAIN s /\ Head(s) = s[1] /\ \A i \in DOMAIN Tail(s) : i + 1 \in DOMAIN s /\ Tail(s)[i] = s[i + 1]
    BY <1>4
  <2>. QED
    BY <2>1 DEF ToSet
<1>6. 0 \notin DOMAIN packets
  BY DEF TypeOK
<1>7. \A x \in DOMAIN packets : Handled(w, x)' => Handled(w, x) /\ todo'[w].steps = Tail(s)
  <2>1. todo'[w] = Idle \/ todo'[w] = [todo[w] EXCEPT !.steps = Tail(s)]
    BY <1>1, <1>3 DEF Rest
  <2>2. CASE todo'[w] = Idle
    BY <1>6, <2>2 DEF Idle, Handled
  <2>3. CASE todo'[w] = [todo[w] EXCEPT !.steps = Tail(s)]
    <3>1. todo'[w].packet = todo[w].packet /\ todo'[w].steps = Tail(s)
      BY <1>2, <2>3
    <3>. QED
      BY <3>1 DEF Handled
  <2>. QED
    BY <2>1, <2>2, <2>3
<1>8. \A c \in Codecs, x \in DOMAIN packets :
        Handled(c, x)' => Handled(c, x) /\ todo'[c].steps = IF c = w THEN Tail(s) ELSE todo[c].steps
  BY <1>1, <1>7 DEF Handled
<1>. QED
  BY <1>2, <1>3, <1>4, <1>5, <1>8

\* Lines that did not change stay in order.
LEMMA LinesStay ==
  ASSUME TypeOK, TypeOK', Same, LinesInv, UNCHANGED <<queue, waiting>>
  PROVE  LinesInv'
<1>1. \A c \in Codecs : LineStep(queue[c], queue'[c])
  BY DEF LineStep
<1>2. ASSUME NEW e \in Devices, NEW n \in Modules
      PROVE  /\ LineStep(waiting[e][n], waiting'[e][n])
             /\ \A i \in DOMAIN waiting'[e][n] : packets'[waiting'[e][n][i]].mod = n
  <2>1. PICK z : z = waiting[e][n]
    OBVIOUS
  <2>2. z \in Seq(DOMAIN packets)
    BY <2>1, Channel
  <2>3. \A i \in DOMAIN z : z[i] \in DOMAIN packets /\ packets[z[i]].mod = n
    BY <2>1, <2>2 DEF LinesInv
  <2>. QED
    BY <2>1, <2>3 DEF LineStep, Same, Kept
<1>. QED
  BY <1>1, <1>2, LinesMove DEF Same

LEMMA FinishInTurn ==
  ASSUME TypeOK, TypeOK', LinesInv, TurnInv, NEW w \in Codecs, Finish(w)
  PROVE  LinesInv' /\ TurnInv' /\ Same
<1>1. /\ ~IsIdle(w) /\ StepDone(w) /\ UNCHANGED <<queue, waiting>>
      /\ \/ packets' = [packets EXCEPT ![todo[w].packet].sent = TRUE]
         \/ UNCHANGED packets
  BY DEF Finish, SendToReflector, deviceVars
<1>2. PICK p \in DOMAIN packets : p = todo[w].packet
  BY <1>1, StepRests
<1>3. Same
  BY <1>1, <1>2, SetKeeps
<1>4. \A c \in Codecs, x \in DOMAIN packets : packets'[x].data[c] = packets[x].data[c]
  <2>1. packets[p] \in Packets /\ packets \in Seq(Packets)
    BY DEF TypeOK
  <2>2. CASE packets' = [packets EXCEPT ![p].sent = TRUE]
    <3>1. packets'[p].data = packets[p].data
      BY <2>1, <2>2 DEF Packets
    <3>2. \A x \in DOMAIN packets : x # p => packets'[x] = packets[x]
      BY <2>1, <2>2
    <3>. QED
      BY <3>1, <3>2
  <2>. QED
    BY <1>1, <1>2, <2>2
<1>5. \A c \in Codecs, x \in DOMAIN packets :
        /\ Queued(c, x)' => Queued(c, x)
        /\ Waits(c, x)' => Waits(c, x)
        /\ Handled(c, x)' => Handled(c, x)
  BY <1>1, <1>3, StepRests DEF Queued, Waits, Same, Kept
<1>6. ASSUME NEW c \in Codecs, NEW x \in DOMAIN packets, Due(c, x)' PROVE Due(c, x)
  <2>1. PICK e \in Codecs : e = Source(x) /\ e = Source(x)'
    BY <1>3, HomeTyped, KeptSame DEF Same
  <2>2. At(e, x)' => At(e, x)
    BY <1>5 DEF At
  <2>3. Handled(e, x)' => Handled(e, x) /\ ToSet(todo'[e].steps) \subseteq ToSet(todo[e].steps)
    BY <1>1, StepRests
  <2>. QED
    BY <1>6, <2>1, <2>2, <2>3 DEF Due, At, Queued, Waits, Handled
<1>7. NobodyNearer
  BY <1>4, <1>5, <1>6 DEF NobodyNearer
<1>. QED
  BY <1>1, <1>3, <1>7, LinesStay, NobodyMoves

\* In a sequence of different steps the first does not come again.
LEMMA FirstOnce ==
  ASSUME NEW S, NEW s \in Seq(S), s # <<>>,
         \A i, j \in DOMAIN s : i # j => s[i] # s[j]
  PROVE  /\ Head(s) \notin ToSet(Tail(s))
         /\ \A i, j \in DOMAIN Tail(s) : i # j => Tail(s)[i] # Tail(s)[j]
<1>1. /\ 1 \in DOMAIN s /\ Head(s) = s[1]
      /\ \A i \in DOMAIN Tail(s) : i + 1 \in DOMAIN s /\ Tail(s)[i] = s[i + 1] /\ i \in Nat /\ i > 0
  OBVIOUS
<1>2. \A i \in DOMAIN Tail(s) : Tail(s)[i] # Head(s)
  BY <1>1
<1>3. \A i, j \in DOMAIN Tail(s) : i # j => Tail(s)[i] # Tail(s)[j]
  BY <1>1
<1>. QED
  BY <1>2, <1>3 DEF ToSet

\* A packet is in one place of its vocoder.
LEMMA SelfInTurn ==
  ASSUME TypeOK, TurnInv, NEW c \in Codecs, NEW p \in DOMAIN packets, Handled(c, p)
  PROVE  ~At(c, p)
<1>1. SameTransmission(p, p) /\ p <= p
  BY DEF SameTransmission, TypeOK
<1>. QED
  BY <1>1 DEF TurnInv, InTurn

LEMMA PassOnInTurn ==
  ASSUME TypeOK, TypeOK', LinesInv, TurnInv, JobInv, StreamInv, NEW w \in Codecs, PassOn(w)
  PROVE  LinesInv' /\ TurnInv' /\ Same
<1>1. /\ ~IsIdle(w) /\ StepDone(w) /\ UNCHANGED <<packets, waiting>>
      /\ Head(todo[w].steps) # "reflector"
  BY DEF PassOn, deviceVars
<1>2. PICK p, c, s : p \in DOMAIN packets /\ p = todo[w].packet /\ s = todo[w].steps /\ c = Head(s)
  BY <1>1, StepRests
<1>. p \in DOMAIN packets
  BY <1>2
<1>3. /\ s # <<>> /\ c \in ToSet(s) /\ c # "reflector"
      /\ \A e \in Codecs, x \in DOMAIN packets :
           Handled(e, x)' =>
             Handled(e, x) /\ todo'[e].steps = IF e = w THEN Tail(s) ELSE todo[e].steps
      /\ ToSet(Tail(s)) \subseteq ToSet(s)
  BY <1>1, <1>2, StepRests
<1>4. /\ IsSource(w, p)
      /\ ToSet(s) \subseteq Codecs \ {w}
      /\ \A i, j \in DOMAIN s : i # j => s[i] # s[j]
  <2>1. IsSource(w, p)
    <3>1. <<"reflector">> # <<>> /\ Head(<<"reflector">>) = "reflector"
      OBVIOUS
    <3>. QED
      BY <1>1, <1>2, <1>3, <3>1 DEF JobInv
  <2>. QED
    BY <1>1, <1>2, <2>1 DEF JobInv
<1>5. c \in Codecs /\ c # w /\ Source(p) = w /\ c \notin ToSet(Tail(s))
  <2>1. todo[w] \in [packet : DOMAIN packets, steps : Seq(Codecs \cup {"reflector"}) \ {<<>>}]
    BY <1>1 DEF TypeOK, Jobs, IsIdle, Idle
  <2>2. s \in Seq(Codecs \cup {"reflector"})
    BY <1>2, <2>1
  <2>3. c \notin ToSet(Tail(s))
    BY <1>2, <1>3, <1>4, <2>2, FirstOnce
  <2>. QED
    BY <1>3, <1>4, <2>3 DEF IsSource, Source
<1>6. Same
  BY <1>1 DEF Same, Kept
<1>7. \A e \in Codecs : queue'[e] = IF e = c THEN Append(queue[c], p) ELSE queue[e]
  BY <1>2 DEF PassOn, Push, TypeOK
<1>8. ToSet(Append(queue[c], p)) = ToSet(queue[c]) \cup {p}
  <2>1. PICK z, D : z = queue[c] /\ D = DOMAIN packets
    OBVIOUS
  <2>2. z \in Seq(D) /\ D \in SUBSET Nat /\ p \in D
    BY <1>5, <2>1, Placed
  <2>. QED
    BY <2>1, <2>2, LastJoins
<1>9. Handled(w, p) /\ Due(c, p)
  BY <1>2, <1>3, <1>5 DEF Handled, Due
<1>10. LinesInv'
  <2>1. \A y \in ToSet(queue[c]) : SameTransmission(y, p)' => y < p
    <3>1. ASSUME NEW y \in DOMAIN packets, Queued(c, y), SameTransmission(y, p) PROVE y < p
      <4>1. ~(p <= y)
        <5>1. Source(y) = w
          BY <1>5, <3>1 DEF StreamInv, Source
        <5>. QED
          BY <1>5, <1>9, <3>1, <5>1 DEF TurnInv, InTurn, At
      <4>. QED
        BY <4>1, <1>5, Placed
    <3>2. \A y \in ToSet(queue[c]) : y \in DOMAIN packets /\ Queued(c, y)
      BY <1>5, Placed DEF Queued
    <3>. QED
      BY <1>6, <3>1, <3>2, KeptSame DEF Same
  <2>2. \A e \in Codecs : LineStep(queue[e], queue'[e])
    BY <1>1, <1>7, <2>1 DEF LineStep
  <2>3. ASSUME NEW e \in Devices, NEW n \in Modules
        PROVE  /\ LineStep(waiting[e][n], waiting'[e][n])
               /\ \A i \in DOMAIN waiting'[e][n] : packets'[waiting'[e][n][i]].mod = n
    BY <1>1 DEF LineStep, LinesInv
  <2>. QED
    BY <1>6, <2>2, <2>3, LinesMove DEF Same
<1>11. PassedOn(c, p)
  <2>1. \A e \in Codecs, x \in DOMAIN packets :
          /\ Queued(e, x)' => Queued(e, x) \/ (e = c /\ x = p)
          /\ Waits(e, x)' => Waits(e, x)
    BY <1>1, <1>7, <1>8 DEF Queued, Waits
  <2>2. ASSUME NEW e \in Codecs, NEW x \in DOMAIN packets, Due(e, x)'
        PROVE  Due(e, x) /\ ~(e = c /\ x = p)
    <3>1. PICK h \in Codecs : h = Source(x) /\ h = Source(x)'
      BY <1>6, HomeTyped, KeptSame DEF Same
    <3>2. At(h, x)' => At(h, x)
      BY <1>5, <2>1, <3>1 DEF At
    <3>3. Handled(h, x)' =>
            Handled(h, x) /\ todo'[h].steps = IF h = w THEN Tail(s) ELSE todo[h].steps
      BY <1>3
    <3>4. x = p => h = w /\ ~At(h, x)
      BY <1>5, <1>9, <3>1, SelfInTurn
    <3>5. At(h, x)' \/ (Handled(h, x)' /\ e \in ToSet(todo'[h].steps))
      BY <2>2, <3>1 DEF Due, At, Queued, Waits, Handled
    <3>6. CASE At(h, x)'
      BY <3>1, <3>2, <3>4, <3>6 DEF Due
    <3>7. CASE Handled(h, x)' /\ e \in ToSet(todo'[h].steps)
      BY <1>2, <1>3, <1>5, <3>1, <3>3, <3>4, <3>7 DEF Due
    <3>. QED
      BY <3>5, <3>6, <3>7
  <2>3. \A e \in Codecs, x \in DOMAIN packets : e = Source(p) /\ Handled(e, x)' => x = p
    BY <1>2, <1>3, <1>5 DEF Handled
  <2>4. \A e \in Codecs, x \in DOMAIN packets : Handled(e, x)' => Handled(e, x)
    BY <1>3
  <2>. QED
    BY <1>1, <1>5, <1>9, <2>1, <2>2, <2>3, <2>4 DEF PassedOn
<1>. QED
  BY <1>5, <1>6, <1>10, <1>11, PassingMoves

\* What the reflector sends is the next packet of its module: of the last
\* transmission, or of another one.
Arrival(m, p, codec, stream) ==
  /\ p \notin DOMAIN packets /\ p \in Nat /\ \A x \in DOMAIN packets : x < p
  /\ DOMAIN packets' = DOMAIN packets \cup {p}
  /\ \A x \in DOMAIN packets : packets'[x] = packets[x]
  /\ packets'[p].mod = m /\ packets'[p].codec = codec /\ packets'[p].stream = stream
  /\ packets'[p].sent = FALSE /\ packets'[p].audio = <<>>
  /\ \A c \in Codecs : packets'[p].data[c] = <<>> \/ c = Home(codec)
  /\ \A c \in Codecs : Of(m, packets'[p].data[c])
  /\ Home(codec) \in Codecs
  /\ queue' = [queue EXCEPT ![Home(codec)] = Append(@, p)]
  /\ latest' = [latest EXCEPT ![m] = p]
  /\ UNCHANGED <<todo, waiting, chip, store, replies>>
  /\ IF latest[m] = 0 THEN stream = 1
     ELSE \/ stream = packets[latest[m]].stream /\ codec = packets[latest[m]].codec
          \/ /\ stream = packets[latest[m]].stream + 1
             /\ Timely => \A x \in DOMAIN packets : packets[x].mod = m => packets[x].sent

LEMMA ReaderArrives ==
  ASSUME Inv, NextPacket \/ FirstPacket
  PROVE  \E m \in Modules, codec \in CodecIns, stream \in Nat : \E p : Arrival(m, p, codec, stream)
<1>1. \A m \in Modules : latest[m] # 0 => latest[m] \in DOMAIN packets /\ packets[latest[m]] \in Packets
  <2>1. \A m \in Modules : latest[m] # 0 => latest[m] \in DOMAIN packets
    BY DEF Inv, TypeOK
  <2>. QED
    BY <2>1, PacketTyped DEF Inv
<1>2. PICK m \in Modules, codec \in CodecIns, stream \in Nat, seq \in Nat :
        /\ ReadReflector(m, codec, stream, seq)
        /\ IF latest[m] = 0 THEN stream = 1
           ELSE \/ stream = packets[latest[m]].stream /\ codec = packets[latest[m]].codec
                \/ /\ stream = packets[latest[m]].stream + 1
                   /\ Timely => \A x \in DOMAIN packets : packets[x].mod = m => packets[x].sent
  <2>1. CASE NextPacket
    <3>1. PICK m \in Modules :
            /\ latest[m] # 0
            /\ ReadReflector(m, packets[latest[m]].codec, packets[latest[m]].stream,
                             packets[latest[m]].seq + 1)
      BY <2>1 DEF NextPacket
    <3>. QED
      BY <1>1, <3>1 DEF Packets
  <2>2. CASE FirstPacket
    <3>. DEFINE next(m) == IF latest[m] = 0 THEN 1 ELSE packets[latest[m]].stream + 1
    <3>1. PICK m \in Modules, codec \in CodecIns :
            /\ Timely => \A x \in DOMAIN packets : packets[x].mod = m => packets[x].sent
            /\ ReadReflector(m, codec, next(m), 0)
      BY <2>2 DEF FirstPacket
    <3>2. /\ next(m) \in Nat
          /\ latest[m] = 0 => next(m) = 1
          /\ latest[m] # 0 => next(m) = packets[latest[m]].stream + 1
      BY <1>1 DEF Packets
    <3>. HIDE DEF next
    <3>. QED
      BY <3>1, <3>2
  <2>. QED
    BY <2>1, <2>2
<1>. DEFINE voice == [mod |-> m, stream |-> stream, seq |-> seq]
            data == [c \in Codecs |-> IF c = Home(codec) THEN <<voice>> ELSE <<>>]
            new == [mod |-> m, codec |-> codec, stream |-> stream, seq |-> seq,
                    data |-> data, audio |-> <<>>, sent |-> FALSE]
            p == Len(packets) + 1
<1>3. packets' = Append(packets, new)
  BY <1>2 DEF ReadReflector
<1>4. \A c \in Codecs : (data[c] = <<>> \/ c = Home(codec)) /\ Of(m, data[c])
  <2>1. voice.mod = m
    OBVIOUS
  <2>. HIDE DEF voice
  <2>2. Of(m, <<>>) /\ Of(m, <<voice>>)
    BY <2>1 DEF Of
  <2>. QED
    BY <2>2
<1>5. /\ new.mod = m /\ new.codec = codec /\ new.stream = stream
      /\ new.sent = FALSE /\ new.audio = <<>> /\ new.data = data
  OBVIOUS
<1>. HIDE DEF new, data
<1>6. packets \in Seq(Packets) /\ Len(packets) \in Nat /\ DOMAIN packets = 1..Len(packets)
  BY DEF Inv, TypeOK
<1>7. /\ p \notin DOMAIN packets /\ p \in Nat /\ \A x \in DOMAIN packets : x < p
      /\ DOMAIN packets' = DOMAIN packets \cup {p}
      /\ packets'[p] = new
      /\ \A x \in DOMAIN packets : packets'[x] = packets[x]
  BY <1>3, <1>6
<1>8. Home(codec) \in Codecs
  BY TranscoderAssumption DEF TranscoderAssumption, Home, Codecs, Devices
<1>9. /\ queue' = [queue EXCEPT ![Home(codec)] = Append(@, p)]
      /\ latest' = [latest EXCEPT ![m] = p]
      /\ UNCHANGED <<todo, waiting, chip, store, replies>>
  BY <1>2 DEF ReadReflector, Push, deviceVars
<1>10. PICK n : n = p
  OBVIOUS
<1>. HIDE DEF p
<1>11. Arrival(m, n, codec, stream)
  BY <1>2, <1>4, <1>5, <1>7, <1>8, <1>9, <1>10 DEF Arrival
<1>. QED
  BY <1>11

LEMMA ArrivalInTurn ==
  ASSUME TypeOK, TypeOK', LinesInv, TurnInv,
         NEW m \in Modules, NEW p, NEW codec, NEW stream, Arrival(m, p, codec, stream)
  PROVE  LinesInv' /\ TurnInv' /\ Kept
<1>1. Kept /\ p \in DOMAIN packets'
  BY DEF Arrival, Kept
<1>2. PICK h \in Codecs : h = Home(codec)
  BY DEF Arrival
<1>3. \A c \in Codecs : queue'[c] = IF c = h THEN Append(queue[h], p) ELSE queue[c]
  BY <1>2 DEF Arrival, TypeOK
<1>4. \A c \in Codecs : ToSet(queue'[c]) = ToSet(queue[c]) \cup (IF c = h THEN {p} ELSE {})
  <2>1. PICK z, D : z = queue[h] /\ D = DOMAIN packets'
    OBVIOUS
  <2>2. \A n \in DOMAIN packets : n \in D
    BY <1>1, <2>1 DEF Kept
  <2>3. z \in Seq(D)
    <3>1. z \in Seq(DOMAIN packets)
      BY <2>1, Placed
    <3>. QED
      BY <2>2, <3>1
  <2>4. D \in SUBSET Nat /\ p \in D
    BY <1>1, <2>1 DEF TypeOK
  <2>5. ToSet(Append(z, p)) = ToSet(z) \cup {p}
    BY <2>3, <2>4, LastJoins
  <2>. QED
    BY <1>3, <2>1, <2>5
<1>5. LinesInv'
  <2>1. \A y \in ToSet(queue[h]) : y < p
    BY Placed DEF Arrival
  <2>2. \A c \in Codecs : LineStep(queue[c], queue'[c])
    BY <1>1, <1>3, <2>1 DEF LineStep
  <2>3. ASSUME NEW e \in Devices, NEW n \in Modules
        PROVE  /\ LineStep(waiting[e][n], waiting'[e][n])
               /\ \A i \in DOMAIN waiting'[e][n] : packets'[waiting'[e][n][i]].mod = n
    <3>1. PICK z, D : z = waiting[e][n] /\ z = waiting'[e][n] /\ D = DOMAIN packets
      BY DEF Arrival
    <3>2. z \in Seq(D)
      BY <3>1, Channel
    <3>3. \A i \in DOMAIN z : z[i] \in D
      BY <3>2
    <3>4. \A i \in DOMAIN z : packets[z[i]].mod = n
      BY <3>1 DEF LinesInv
    <3>. QED
      BY <1>1, <3>1, <3>3, <3>4 DEF LineStep, Kept
  <2>. QED
    BY <1>1, <2>2, <2>3, LinesMove
<1>6. ASSUME NEW x \in DOMAIN packets, NEW c \in Codecs
      PROVE  /\ Queued(c, x)' <=> Queued(c, x)
             /\ Waits(c, x)' <=> Waits(c, x)
             /\ At(c, x)' <=> At(c, x)
             /\ Handled(c, x)' <=> Handled(c, x)
             /\ packets'[x].data[c] = packets[x].data[c]
             /\ Due(c, x)' <=> Due(c, x)
  <2>1. x # p
    BY DEF Arrival
  <2>2. PICK e \in Codecs : e = Source(x) /\ e = Source(x)'
    BY <1>1, HomeTyped, KeptSame
  <2>3. \A w \in Codecs : /\ Queued(w, x)' <=> Queued(w, x)
                          /\ Waits(w, x)' <=> Waits(w, x)
    <3>1. waiting' = waiting /\ packets'[x] = packets[x]
      BY DEF Arrival
    <3>2. \A w \in Codecs : Queued(w, x)' <=> Queued(w, x)
      BY <1>4, <2>1 DEF Queued
    <3>3. \A w \in Codecs : Waits(w, x)' <=> Waits(w, x)
      BY <3>1 DEF Waits
    <3>. QED
      BY <3>2, <3>3
  <2>4. \A w \in Codecs : At(w, x)' <=> At(w, x)
    BY <2>3 DEF At
  <2>5. Due(c, x)' <=> Due(c, x)
    <3>1. At(e, x)' <=> At(e, x)
      BY <2>4
    <3>2. todo' = todo
      BY DEF Arrival
    <3>. QED
      BY <2>2, <3>1, <3>2 DEF Due, At, Queued, Waits, Handled
  <2>. QED
    BY <2>3, <2>4, <2>5 DEF Handled, Arrival
<1>7. ASSUME NEW x \in DOMAIN packets, NEW q \in DOMAIN packets,
             SameTransmission(x, q)', q <= x
      PROVE  InTurn(x, q)'
  <2>1. InTurn(x, q) /\ Source(x)' = Source(x)
    BY <1>1, <1>7, KeptSame DEF TurnInv
  <2>. QED
    BY <1>6, <2>1 DEF InTurn
<1>8. /\ \A c \in Codecs : ~Waits(c, p)' /\ ~Handled(c, p)'
      /\ \A c \in Codecs : Queued(c, p)' => c = h
      /\ \A c \in Codecs : packets'[p].data[c] # <<>> => c = h
      /\ Source(p)' = h
  <2>1. p \notin DOMAIN packets
    BY DEF Arrival
  <2>2. ASSUME NEW c \in Codecs PROVE ~Handled(c, p)'
    <3>1. todo'[c] = todo[c] /\ todo[c] \in Jobs
      BY DEF Arrival, TypeOK
    <3>2. p # 0
      BY <1>1 DEF TypeOK
    <3>. QED
      BY <2>1, <3>1, <3>2 DEF Handled, Jobs, Idle
  <2>3. ASSUME NEW c \in Codecs PROVE ~Waits(c, p)'
    <3>1. packets'[p].mod \in Modules /\ waiting' = waiting
      BY DEF Arrival
    <3>. QED
      BY <2>1, <3>1, Channel DEF Waits
  <2>4. \A c \in Codecs : Queued(c, p)' => c = h
    BY <1>4, <2>1, Placed DEF Queued
  <2>. QED
    BY <1>2, <2>2, <2>3, <2>4 DEF Arrival, Source
<1>9. \A q \in DOMAIN packets' : InTurn(p, q)'
  BY <1>8 DEF InTurn, At
<1>10. \A x \in DOMAIN packets : ~(p <= x)
  BY DEF Arrival, TypeOK
<1>11. DOMAIN packets' = DOMAIN packets \cup {p}
  BY DEF Arrival
<1>12. TurnInv'
  BY <1>7, <1>9, <1>10, <1>11 DEF TurnInv
<1>. QED
  BY <1>1, <1>5, <1>12

-----------------------------------------------------------------------------
(***************************************************************************)
(* Jobs, streams, and what was sent.                                       *)
(***************************************************************************)

LEMMA OthersOnce ==
  ASSUME NEW w \in Codecs
  PROVE  /\ ToSet(Others[w]) \subseteq Codecs \ {w}
         /\ \A i, j \in DOMAIN Others[w] : i # j => Others[w][i] # Others[w][j]
<1>1. w \in {"dstar", "dmr", "m17", "p25"} /\ Codecs = {"dstar", "dmr", "m17", "p25"}
  BY DEF Codecs, Devices
<1>2. \E a, b, c \in Codecs \ {w} : Others[w] = <<a, b, c>> /\ a # b /\ a # c /\ b # c
  BY <1>1 DEF Others
<1>3. \A a, b, c : DOMAIN <<a, b, c>> = 1..3 /\ <<a, b, c>>[1] = a /\ <<a, b, c>>[2] = b /\ <<a, b, c>>[3] = c
  OBVIOUS
<1>4. 1..3 = {1, 2, 3}
  OBVIOUS
<1>. QED
  BY <1>2, <1>3, <1>4 DEF ToSet

LEMMA JobsStay ==
  ASSUME TypeOK, Kept, JobInv,
         \A c \in Codecs :
           \/ todo'[c] = todo[c]
           \/ \E p \in DOMAIN packets : todo'[c] = Job(c, p)
           \/ ~IsIdle(c) /\ todo'[c] = Rest(todo[c])
  PROVE  JobInv'
<1>. SUFFICES ASSUME NEW c \in Codecs, ~IsIdle(c)'
              PROVE  IF IsSource(c, todo[c].packet)'
                     THEN /\ ToSet(todo'[c].steps) \subseteq Codecs \ {c}
                          /\ \A i, j \in DOMAIN todo'[c].steps :
                               i # j => todo'[c].steps[i] # todo'[c].steps[j]
                     ELSE todo'[c].steps = <<"reflector">>
  BY DEF JobInv
<1>1. \A p \in DOMAIN packets : IsSource(c, p)' <=> IsSource(c, p)
  BY DEF Kept, IsSource
<1>2. ~IsIdle(c) => todo[c] \in [packet : DOMAIN packets, steps : Seq(Codecs \cup {"reflector"}) \ {<<>>}]
  BY DEF TypeOK, Jobs, IsIdle, Idle
<1>3. CASE todo'[c] = todo[c]
  <2>1. ~IsIdle(c)
    BY <1>3 DEF IsIdle
  <2>2. PICK p \in DOMAIN packets : p = todo[c].packet
    BY <1>2, <2>1
  <2>3. IsSource(c, todo[c].packet)' <=> IsSource(c, p)
    BY <1>1, <1>3, <2>2 DEF IsSource
  <2>. QED
    BY <1>3, <2>1, <2>2, <2>3 DEF JobInv
<1>4. ASSUME NEW p \in DOMAIN packets, todo'[c] = Job(c, p)
      PROVE  IF IsSource(c, todo[c].packet)'
             THEN /\ ToSet(todo'[c].steps) \subseteq Codecs \ {c}
                  /\ \A i, j \in DOMAIN todo'[c].steps :
                       i # j => todo'[c].steps[i] # todo'[c].steps[j]
             ELSE todo'[c].steps = <<"reflector">>
  <2>1. /\ todo'[c].packet = p
        /\ todo'[c].steps = IF IsSource(c, p) THEN Others[c] ELSE <<"reflector">>
    BY <1>4 DEF Job
  <2>2. IsSource(c, todo[c].packet)' <=> IsSource(c, p)
    BY <1>1, <2>1 DEF IsSource
  <2>. QED
    BY <2>1, <2>2, OthersOnce
<1>5. CASE ~IsIdle(c) /\ todo'[c] = Rest(todo[c])
  <2>1. PICK p, s : p \in DOMAIN packets /\ p = todo[c].packet /\ s = todo[c].steps
    BY <1>2, <1>5
  <2>. p \in DOMAIN packets
    BY <2>1
  <2>2. s \in Seq(Codecs \cup {"reflector"}) /\ s # <<>>
    BY <1>2, <1>5, <2>1
  <2>3. Len(s) # 1 /\ todo'[c].packet = p /\ todo'[c].steps = Tail(s)
    <3>1. Rest(todo[c]) # Idle
      BY <1>5 DEF IsIdle, Idle
    <3>2. Len(s) # 1 /\ todo'[c] = [todo[c] EXCEPT !.steps = Tail(s)]
      BY <1>5, <2>1, <3>1 DEF Rest
    <3>. QED
      BY <1>2, <1>5, <2>1, <3>2
  <2>4. IsSource(c, todo[c].packet)' <=> IsSource(c, p)
    BY <1>1, <2>3 DEF IsSource
  <2>5. IsSource(c, p)
    <3>1. Len(<<"reflector">>) = 1
      OBVIOUS
    <3>. QED
      BY <1>5, <2>1, <2>3, <3>1 DEF JobInv
  <2>6. /\ ToSet(s) \subseteq Codecs \ {c}
        /\ \A i, j \in DOMAIN s : i # j => s[i] # s[j]
    BY <1>5, <2>1, <2>5 DEF JobInv
  <2>7. \A i, j \in DOMAIN Tail(s) : i # j => Tail(s)[i] # Tail(s)[j]
    BY <2>2, <2>6, FirstOnce
  <2>8. ToSet(Tail(s)) \subseteq ToSet(s)
    <3>1. \A i \in DOMAIN Tail(s) : i + 1 \in DOMAIN s /\ Tail(s)[i] = s[i + 1]
      BY <2>2
    <3>. QED
      BY <3>1 DEF ToSet
  <2>. QED
    BY <2>3, <2>4, <2>5, <2>6, <2>7, <2>8
<1>. QED
  BY <1>3, <1>4, <1>5

LEMMA StreamsStay ==
  ASSUME TypeOK, Same, StreamInv, UNCHANGED latest
  PROVE  StreamInv'
<1>1. \A m \in Modules : latest[m] # 0 => latest[m] \in DOMAIN packets
  BY DEF TypeOK
<1>2. \A p \in DOMAIN packets : packets[p].mod \in Modules
  BY PacketTyped
<1>3. \A p \in DOMAIN packets : latest[packets[p].mod] # 0
  BY <1>2 DEF StreamInv, TypeOK
<1>4. \A m \in Modules : latest'[m] # 0 => packets'[latest'[m]].mod = m
  BY <1>1 DEF StreamInv, Same, Kept
<1>5. ASSUME NEW p \in DOMAIN packets
      PROVE  LET last == latest[packets[p].mod]
             IN  /\ p <= last
                 /\ packets'[p].stream <= packets'[last].stream
                 /\ packets'[p].stream = packets'[last].stream => packets'[p].codec = packets'[last].codec
  BY <1>1, <1>2, <1>3 DEF StreamInv, Same, Kept
<1>6. \A p, q \in DOMAIN packets : SameTransmission(p, q)' => packets'[p].codec = packets'[q].codec
  BY KeptSame DEF StreamInv, Same, Kept
<1>. QED
  BY <1>4, <1>5, <1>6 DEF StreamInv, Same, Kept

LEMMA ArrivalInStream ==
  ASSUME TypeOK, StreamInv, NEW m \in Modules, NEW p, NEW codec, NEW stream \in Nat,
         Arrival(m, p, codec, stream)
  PROVE  StreamInv'
<1>1. \A n \in Modules : latest[n] # 0 => latest[n] \in DOMAIN packets
  BY DEF TypeOK
<1>2. \A x \in DOMAIN packets : packets[x].mod \in Modules /\ packets[x].stream \in Nat
  BY PacketTyped DEF Packets
<1>3. \A x \in DOMAIN packets : latest[packets[x].mod] # 0
  BY <1>2 DEF StreamInv, TypeOK
<1>4. /\ \A n \in Modules : latest'[n] = IF n = m THEN p ELSE latest[n]
      /\ DOMAIN packets' = DOMAIN packets \cup {p}
      /\ p \notin DOMAIN packets /\ p \in Nat /\ \A x \in DOMAIN packets : x < p
      /\ \A x \in DOMAIN packets : packets'[x] = packets[x]
      /\ packets'[p].mod = m /\ packets'[p].codec = codec /\ packets'[p].stream = stream
  BY DEF Arrival, TypeOK
<1>5. \A n \in Modules : latest'[n] # 0 => packets'[latest'[n]].mod = n
  BY <1>1, <1>4 DEF StreamInv
<1>6. ASSUME NEW x \in DOMAIN packets, packets[x].mod = m
      PROVE  packets[x].stream <= stream /\ (packets[x].stream = stream => packets[x].codec = codec)
  <2>1. PICK l \in DOMAIN packets : l = latest[m]
    BY <1>1, <1>3, <1>6
  <2>2. /\ packets[x].stream <= packets[l].stream
        /\ packets[x].stream = packets[l].stream => packets[x].codec = packets[l].codec
    BY <1>6, <2>1 DEF StreamInv
  <2>3. \/ stream = packets[l].stream /\ codec = packets[l].codec
        \/ stream = packets[l].stream + 1
    BY <1>3, <1>6, <2>1 DEF Arrival
  <2>4. packets[x].stream \in Nat /\ packets[l].stream \in Nat
    BY <1>2
  <2>. QED
    BY <2>2, <2>3, <2>4
<1>7. ASSUME NEW x \in DOMAIN packets'
      PROVE  LET last == latest'[packets'[x].mod]
             IN  /\ x <= last
                 /\ packets'[x].stream <= packets'[last].stream
                 /\ packets'[x].stream = packets'[last].stream => packets'[x].codec = packets'[last].codec
  <2>1. CASE x = p
    BY <1>4, <2>1
  <2>2. CASE x \in DOMAIN packets /\ packets[x].mod = m
    <3>1. x <= p
      BY <1>4, <2>2 DEF TypeOK
    <3>. QED
      BY <1>4, <1>6, <2>2, <3>1
  <2>3. CASE x \in DOMAIN packets /\ packets[x].mod # m
    BY <1>1, <1>2, <1>3, <1>4, <2>3 DEF StreamInv
  <2>. QED
    BY <1>4, <2>1, <2>2, <2>3
<1>8. ASSUME NEW x \in DOMAIN packets', NEW y \in DOMAIN packets', SameTransmission(x, y)'
      PROVE  packets'[x].codec = packets'[y].codec
  <2>1. packets'[x].mod = packets'[y].mod /\ packets'[x].stream = packets'[y].stream
    BY <1>8 DEF SameTransmission
  <2>2. CASE x = p \/ y = p
    BY <1>4, <1>6, <2>1, <2>2
  <2>3. CASE x \in DOMAIN packets /\ y \in DOMAIN packets
    BY <1>4, <2>1, <2>3 DEF StreamInv, SameTransmission
  <2>. QED
    BY <1>4, <2>2, <2>3
<1>. QED
  BY <1>5, <1>7, <1>8 DEF StreamInv

\* Nothing is sent, and data are set only of packets that have not been there.
LEMMA SentStays ==
  ASSUME TypeOK, TurnInv, Kept, SentInv, TransmissionInOrder, UNCHANGED replies,
         \A x \in DOMAIN packets' : packets'[x].sent => x \in DOMAIN packets /\ packets[x].sent,
         \A x \in DOMAIN packets : packets[x].sent => packets'[x].sent,
         \A c \in Codecs, x \in DOMAIN packets : packets'[x].data[c] = packets[x].data[c] \/ At(c, x)
  PROVE  SentInv' /\ TransmissionInOrder'
<1>1. \A m \in Modules : \A i \in DOMAIN replies[m] : replies[m][i].nr \in DOMAIN packets
  <2>1. PICK R : R = [nr : DOMAIN packets, data : [Codecs -> Seq(Voices)]]
    OBVIOUS
  <2>2. \A m \in Modules : replies[m] \in Seq(R)
    BY <2>1 DEF TypeOK
  <2>3. \A m \in Modules : \A i \in DOMAIN replies[m] : replies[m][i] \in R
    BY <2>2
  <2>. QED
    BY <2>1, <2>3
<1>2. ASSUME NEW x \in DOMAIN packets', packets'[x].sent, NEW w \in Codecs, w # Source(x)'
      PROVE  packets'[x].data[w] # <<>>
  <2>1. x \in DOMAIN packets /\ packets[x].sent
    BY <1>2
  <2>2. w \in Codecs \ {Source(x)}
    BY <1>2, <2>1, KeptSame
  <2>3. packets[x].data[w] # <<>>
    BY <2>1, <2>2 DEF SentInv
  <2>4. ~At(w, x)
    <3>1. SameTransmission(x, x) /\ x <= x
      BY <2>1 DEF SameTransmission, TypeOK
    <3>. QED
      BY <2>1, <2>2, <2>3, <3>1 DEF TurnInv, InTurn
  <2>. QED
    BY <2>1, <2>3, <2>4
<1>3. SentInv'
  <2>1. \A m \in Modules : \A i \in DOMAIN replies[m] :
          packets'[replies[m][i].nr].sent /\ packets'[replies[m][i].nr].mod = m
    BY <1>1 DEF SentInv, Kept
  <2>. QED
    BY <1>2, <2>1 DEF SentInv
<1>4. TransmissionInOrder'
  BY <1>1, KeptSame DEF TransmissionInOrder
<1>. QED
  BY <1>3, <1>4

\* What was sent before the packet a vocoder has finished is an earlier one.
LEMMA SentEarlier ==
  ASSUME TypeOK, TurnInv, JobInv, StreamInv, SentInv, NEW w \in Codecs,
         ~IsIdle(w), Head(todo[w].steps) = "reflector",
         NEW p \in DOMAIN packets, p = todo[w].packet, ~packets[p].sent,
         NEW r \in DOMAIN packets, packets[r].sent, SameTransmission(r, p)
  PROVE  r < p
<1>1. r # p /\ r \in Nat /\ p \in Nat
  BY DEF TypeOK
<1>2. Source(r) = Source(p)
  BY DEF StreamInv, Source
<1>3. w # Source(p)
  <2>1. "reflector" \notin Codecs
    BY DEF Codecs, Devices
  <2>2. Head(todo[w].steps) \in ToSet(todo[w].steps)
    <3>1. todo[w] \in [packet : DOMAIN packets, steps : Seq(Codecs \cup {"reflector"}) \ {<<>>}]
      BY DEF TypeOK, Jobs, IsIdle, Idle
    <3>2. PICK s \in Seq(Codecs \cup {"reflector"}) : s = todo[w].steps /\ s # <<>>
      BY <3>1
    <3>3. 1 \in DOMAIN s /\ Head(s) = s[1]
      BY <3>2
    <3>. QED
      BY <3>2, <3>3 DEF ToSet
  <2>. QED
    BY <2>1, <2>2 DEF JobInv, IsSource, Source
<1>4. packets[r].data[w] # <<>>
  BY <1>2, <1>3 DEF SentInv
<1>5. Handled(w, p)
  BY DEF Handled
<1>6. ~(p < r)
  <2>1. p < r => p <= r
    BY <1>1
  <2>. QED
    BY <1>2, <1>3, <1>4, <1>5, <2>1 DEF TurnInv, InTurn
<1>. QED
  BY <1>1, <1>6

LEMMA FinishSends ==
  ASSUME TypeOK, TurnInv, JobInv, StreamInv, SentInv, TransmissionInOrder,
         NEW w \in Codecs, Finish(w)
  PROVE  SentInv' /\ TransmissionInOrder'
<1>1. /\ ~IsIdle(w) /\ StepDone(w) /\ Head(todo[w].steps) = "reflector"
  BY DEF Finish
<1>2. PICK p \in DOMAIN packets : p = todo[w].packet
  BY <1>1, StepRests
<1>3. CASE UNCHANGED <<packets, replies>>
  <2>1. Kept
    BY <1>3 DEF Kept
  <2>. QED
    BY <1>3, <2>1, SentStays
<1>4. CASE Complete(p) /\ SendToReflector(p)
  <2>1. /\ packets' = [packets EXCEPT ![p].sent = TRUE]
        /\ packets[p] \in Packets /\ packets \in Seq(Packets)
    BY <1>4 DEF SendToReflector, TypeOK
  <2>2. /\ DOMAIN packets' = DOMAIN packets
        /\ packets'[p].sent = TRUE /\ packets'[p].data = packets[p].data
        /\ \A x \in DOMAIN packets : x # p => packets'[x] = packets[x]
    BY <2>1 DEF Packets
  <2>3. Same
    BY <2>1, SetKeeps
  <2>4. PICK m, reply, R :
          /\ m \in Modules /\ m = packets[p].mod
          /\ reply = [nr |-> p, data |-> packets[p].data]
          /\ R = [nr : DOMAIN packets, data : [Codecs -> Seq(Voices)]]
    BY PacketTyped
  <2>. m \in Modules
    BY <2>4
  <2>5. replies' = [replies EXCEPT ![m] = Append(@, reply)] /\ reply \in R
    BY <1>4, <2>4, PacketTyped DEF SendToReflector
  <2>6. \A n \in Modules : replies[n] \in Seq(R) /\ replies'[n] = IF n = m THEN Append(replies[m], reply) ELSE replies[n]
    BY <2>4, <2>5 DEF TypeOK
  <2>7. ASSUME NEW n \in Modules, NEW j \in DOMAIN replies'[n]
        PROVE  /\ replies'[n][j].nr \in DOMAIN packets
               /\ \/ j \in DOMAIN replies[n] /\ replies'[n][j] = replies[n][j]
                  \/ n = m /\ j = Len(replies[m]) + 1 /\ replies'[n][j].nr = p
    <3>1. PICK s \in Seq(R) : s = replies[n]
      BY <2>6
    <3>2. \A i \in DOMAIN s : s[i] \in R
      BY <3>1
    <3>3. \A i \in DOMAIN Append(s, reply) :
            \/ i \in DOMAIN s /\ Append(s, reply)[i] = s[i]
            \/ i = Len(s) + 1 /\ Append(s, reply)[i] = reply
      BY <3>1
    <3>4. reply.nr = p
      BY <2>4
    <3>5. \A i \in DOMAIN s : s[i].nr \in DOMAIN packets
      BY <2>4, <3>2
    <3>. QED
      BY <2>6, <2>7, <3>1, <3>3, <3>4, <3>5
  <2>8. ~packets[p].sent /\ \A c \in Codecs : packets[p].data[c] # <<>>
    BY <1>4 DEF Complete, AllCodecsAreSet
  <2>9. SentInv'
    <3>1. ASSUME NEW x \in DOMAIN packets, packets'[x].sent, NEW c \in Codecs \ {Source(x)}
          PROVE  packets'[x].data[c] # <<>>
      BY <2>2, <2>8, <3>1 DEF SentInv
    <3>2. ASSUME NEW n \in Modules, NEW j \in DOMAIN replies'[n]
          PROVE  packets'[replies'[n][j].nr].sent /\ packets'[replies'[n][j].nr].mod = n
      <4>1. PICK x \in DOMAIN packets : x = replies'[n][j].nr
        BY <2>7
      <4>2. packets'[x].mod = packets[x].mod
        BY <2>3 DEF Same, Kept
      <4>3. (packets[x].sent \/ x = p) /\ packets[x].mod = n
        BY <2>4, <2>7, <4>1 DEF SentInv
      <4>. QED
        BY <2>2, <4>1, <4>2, <4>3
    <3>3. \A x \in DOMAIN packets : Source(x)' = Source(x)
      BY <2>3, KeptSame DEF Same
    <3>. QED
      BY <2>2, <3>1, <3>2, <3>3 DEF SentInv
  <2>10. ASSUME NEW i \in DOMAIN replies[m], NEW r \in DOMAIN packets, r = replies[m][i].nr,
                SameTransmission(r, p)
         PROVE  r < p
    <3>1. packets[r].sent
      BY <2>10 DEF SentInv
    <3>. QED
      BY <1>1, <1>2, <2>8, <2>10, <3>1, SentEarlier
  <2>11. TransmissionInOrder'
    <3>. SUFFICES ASSUME NEW n \in Modules, NEW i \in DOMAIN replies'[n], NEW j \in DOMAIN replies'[n],
                         i < j, SameTransmission(replies[n][i].nr, replies[n][j].nr)'
                  PROVE  replies'[n][i].nr < replies'[n][j].nr
      BY DEF TransmissionInOrder
    <3>1. PICK x \in DOMAIN packets, y \in DOMAIN packets :
            x = replies'[n][i].nr /\ y = replies'[n][j].nr
      BY <2>7
    <3>2. SameTransmission(x, y)
      <4>1. SameTransmission(x, y)'
        BY <3>1 DEF SameTransmission
      <4>. QED
        BY <2>3, <4>1, KeptSame DEF Same
    <3>3. i \in DOMAIN replies[n] /\ replies'[n][i] = replies[n][i]
      <4>1. PICK s \in Seq(R) : s = replies[n]
        BY <2>6
      <4>2. \A k, l \in DOMAIN Append(s, reply) : k < l => k \in DOMAIN s /\ Append(s, reply)[k] = s[k]
        BY <2>5
      <4>3. CASE n = m
        BY <2>6, <4>1, <4>2, <4>3
      <4>4. CASE n # m
        BY <2>6, <4>4
      <4>. QED
        BY <4>3, <4>4
    <3>4. CASE j \in DOMAIN replies[n] /\ replies'[n][j] = replies[n][j]
      BY <3>1, <3>2, <3>3, <3>4 DEF TransmissionInOrder
    <3>5. CASE n = m /\ y = p
      BY <2>10, <3>1, <3>2, <3>3, <3>5
    <3>. QED
      BY <2>7, <3>1, <3>4, <3>5
  <2>. QED
    BY <2>9, <2>11
<1>. QED
  BY <1>2, <1>3, <1>4 DEF Finish

-----------------------------------------------------------------------------
(***************************************************************************)
(* Whose voice is where.                                                   *)
(***************************************************************************)

\* The voices in the packets, in the devices, in the stores.
PacketsOwn ==
  \A p \in DOMAIN packets :
    /\ Of(packets[p].mod, packets[p].audio)
    /\ \A c \in Codecs : Of(packets[p].mod, packets[p].data[c])
ChipsOwn == \A d \in Devices : \A i \in DOMAIN chip[d] : Of(chip[d][i].mod, chip[d][i].voice)
StoresOwn == \A s \in {"data", "audio"}, m \in Modules : Of(m, store[s][m])

LEMMA ModuleParts == ModuleInv <=> PacketsOwn /\ ChipsOwn /\ StoresOwn /\ OwnModule
BY DEF ModuleInv, PacketsOwn, ChipsOwn, StoresOwn

LEMMA SetOwn ==
  ASSUME TypeOK, PacketsOwn, NEW p \in DOMAIN packets, NEW c \in Codecs, NEW a,
         \/ packets' = [packets EXCEPT ![p].audio = a] /\ Of(packets[p].mod, a)
         \/ packets' = [packets EXCEPT ![p].data[c] = a] /\ Of(packets[p].mod, a)
         \/ packets' = [packets EXCEPT ![p].sent = TRUE]
         \/ UNCHANGED packets
  PROVE  PacketsOwn'
<1>1. packets \in Seq(Packets) /\ packets[p] \in Packets /\ packets[p].data \in [Codecs -> Seq(Voices)]
  BY PacketTyped DEF TypeOK
<1>2. ASSUME NEW new, packets' = [packets EXCEPT ![p] = new],
             Of(new.mod, new.audio), \A w \in Codecs : Of(new.mod, new.data[w])
      PROVE  PacketsOwn'
  <2>1. DOMAIN packets' = DOMAIN packets /\ packets'[p] = new
    BY <1>1, <1>2
  <2>2. \A q \in DOMAIN packets : q # p => packets'[q] = packets[q]
    BY <1>1, <1>2
  <2>3. ASSUME NEW q \in DOMAIN packets
        PROVE  /\ Of(packets'[q].mod, packets'[q].audio)
               /\ \A w \in Codecs : Of(packets'[q].mod, packets'[q].data[w])
    BY <1>2, <2>1, <2>2 DEF PacketsOwn
  <2>. QED
    BY <2>1, <2>3 DEF PacketsOwn, Of
<1>3. CASE packets' = [packets EXCEPT ![p].audio = a] /\ Of(packets[p].mod, a)
  <2>1. PICK new : new = [packets[p] EXCEPT !.audio = a]
    OBVIOUS
  <2>2. new.mod = packets[p].mod /\ new.audio = a /\ new.data = packets[p].data
    BY <1>1, <2>1 DEF Packets
  <2>3. Of(new.mod, new.audio) /\ \A w \in Codecs : Of(new.mod, new.data[w])
    BY <1>3, <2>2 DEF PacketsOwn
  <2>. QED
    BY <1>2, <1>3, <2>1, <2>3
<1>4. CASE packets' = [packets EXCEPT ![p].data[c] = a] /\ Of(packets[p].mod, a)
  <2>1. PICK new : new = [packets[p] EXCEPT !.data[c] = a]
    OBVIOUS
  <2>2. /\ new.mod = packets[p].mod /\ new.audio = packets[p].audio
        /\ new.data = [packets[p].data EXCEPT ![c] = a]
    BY <1>1, <2>1 DEF Packets
  <2>3. \A w \in Codecs : new.data[w] = IF w = c THEN a ELSE packets[p].data[w]
    BY <1>1, <2>2
  <2>4. Of(new.mod, new.audio) /\ \A w \in Codecs : Of(new.mod, new.data[w])
    BY <1>4, <2>2, <2>3 DEF PacketsOwn
  <2>. QED
    BY <1>2, <1>4, <2>1, <2>4
<1>5. CASE packets' = [packets EXCEPT ![p].sent = TRUE]
  <2>1. PICK new : new = [packets[p] EXCEPT !.sent = TRUE]
    OBVIOUS
  <2>2. new.mod = packets[p].mod /\ new.audio = packets[p].audio /\ new.data = packets[p].data
    BY <1>1, <2>1 DEF Packets
  <2>3. Of(new.mod, new.audio) /\ \A w \in Codecs : Of(new.mod, new.data[w])
    BY <2>2 DEF PacketsOwn
  <2>. QED
    BY <1>2, <1>5, <2>1, <2>3
<1>6. CASE UNCHANGED packets
  BY <1>6 DEF PacketsOwn
<1>. QED
  BY <1>3, <1>4, <1>5, <1>6

\* Answers taken out of a device leave the others as they were.
LEMMA AnswersOwn ==
  ASSUME TypeOK, ChipsOwn, NEW d \in Devices, NEW i, Answers(d, i)
  PROVE  ChipsOwn'
<1>1. PICK s \in Seq(Requests) : s = chip[d]
  BY DEF TypeOK
<1>2. i \in 1..Len(s) /\ chip' = [chip EXCEPT ![d] = RemoveAt(s, i)]
  BY <1>1 DEF Answers
<1>3. \A j \in DOMAIN RemoveAt(s, i) : \E k \in DOMAIN s : RemoveAt(s, i)[j] = s[k]
  <2>. SUFFICES ASSUME NEW j \in DOMAIN RemoveAt(s, i)
                PROVE  \E k \in DOMAIN s : RemoveAt(s, i)[j] = s[k]
    OBVIOUS
  <2>1. PICK a \in Seq(Requests), b \in Seq(Requests) :
          a = SubSeq(s, 1, i - 1) /\ b = SubSeq(s, i + 1, Len(s))
    <3>1. SubSeq(s, 1, i - 1) \in Seq(Requests)
      BY <1>2
    <3>2. SubSeq(s, i + 1, Len(s)) \in Seq(Requests)
      BY <1>2
    <3>. QED
      BY <3>1, <3>2
  <2>2. /\ \A k \in DOMAIN a : k \in DOMAIN s /\ a[k] = s[k]
        /\ \A k \in DOMAIN b : k + i \in DOMAIN s /\ b[k] = s[k + i]
    BY <1>2, <2>1
  <2>3. RemoveAt(s, i) = a \o b
    BY <2>1 DEF RemoveAt
  <2>4. \A k \in DOMAIN (a \o b) :
          (k \in DOMAIN a /\ (a \o b)[k] = a[k]) \/ \E l \in DOMAIN b : (a \o b)[k] = b[l]
    <3>1. ASSUME NEW k \in DOMAIN (a \o b), k \notin DOMAIN a
          PROVE  k - Len(a) \in DOMAIN b /\ (a \o b)[k] = b[k - Len(a)]
      BY <3>1
    <3>. QED
      BY <3>1
  <2>. QED
    BY <2>2, <2>3, <2>4
<1>4. \A e \in Devices : chip'[e] = IF e = d THEN RemoveAt(s, i) ELSE chip[e]
  BY <1>2 DEF TypeOK
<1>5. ASSUME NEW e \in Devices, NEW j \in DOMAIN chip'[e] PROVE Of(chip'[e][j].mod, chip'[e][j].voice)
  BY <1>1, <1>3, <1>4, <1>5 DEF ChipsOwn
<1>. QED
  BY <1>5 DEF ChipsOwn, Of

LEMMA FeedOwn ==
  ASSUME TypeOK, ModuleInv, NEW d \in Devices, Feed(d)
  PROVE  ModuleInv'
<1>. d \in Codecs
  BY DEF Codecs
<1>1. PICK p \in DOMAIN packets : p = Head(queue[d])
  <2>1. PICK D, s : D = DOMAIN packets /\ s = queue[d]
    OBVIOUS
  <2>2. s \in Seq(D) /\ s # <<>>
    BY <2>1, Placed DEF Feed
  <2>3. Head(s) \in D
    BY <2>2
  <2>. QED
    BY <2>1, <2>3
<1>2. PICK s, r : s \in Seq(Requests) /\ s = chip[d] /\ r = Request(d, p)
  BY DEF TypeOK
<1>. s \in Seq(Requests)
  BY <1>2
<1>3. r \in Requests /\ Of(r.mod, r.voice)
  <2>1. r.mod = packets[p].mod /\ (r.voice = packets[p].data[d] \/ r.voice = packets[p].audio)
    BY <1>2 DEF Request
  <2>. QED
    BY <1>2, <2>1, RequestTyped DEF ModuleInv
<1>4. \A e \in Devices : chip'[e] = IF e = d THEN Append(s, r) ELSE chip[e]
  BY <1>1, <1>2 DEF Feed, TypeOK
<1>5. \A i \in DOMAIN Append(s, r) : Append(s, r)[i] = r \/ (i \in DOMAIN s /\ Append(s, r)[i] = s[i])
  BY <1>3
<1>6. ASSUME NEW e \in Devices, NEW j \in DOMAIN chip'[e] PROVE Of(chip'[e][j].mod, chip'[e][j].voice)
  BY <1>2, <1>3, <1>4, <1>5, <1>6 DEF ModuleInv
<1>7. ChipsOwn'
  BY <1>6 DEF ChipsOwn, Of
<1>8. PacketsOwn' /\ StoresOwn' /\ OwnModule'
  BY DEF Feed, ModuleInv, PacketsOwn, StoresOwn, OwnModule, Of
<1>. QED
  BY <1>7, <1>8 DEF ModuleInv, PacketsOwn, StoresOwn, ChipsOwn

LEMMA ReadOwn ==
  ASSUME TypeOK, LinesInv, ModuleInv, NEW d \in Devices, ReadDevice(d)
  PROVE  ModuleInv'
<1>. d \in Codecs
  BY DEF Codecs
<1>0. PICK i \in DOMAIN chip[d] :
        /\ Answers(d, i) /\ PopWaiting(d, chip[d][i].mod)
        /\ packets' = IF chip[d][i].kind = "speech"
                      THEN [packets EXCEPT ![Head(waiting[d][chip[d][i].mod])].audio = chip[d][i].voice]
                      ELSE [packets EXCEPT ![Head(waiting[d][chip[d][i].mod])].data[d] = chip[d][i].voice]
        /\ UNCHANGED <<store, replies>>
  BY DEF ReadDevice
<1>1. PICK m, p, a :
        /\ m = chip[d][i].mod /\ p = Head(waiting[d][m]) /\ a = chip[d][i].voice
        /\ Answers(d, i) /\ PopWaiting(d, m)
        /\ \/ packets' = [packets EXCEPT ![p].audio = a]
           \/ packets' = [packets EXCEPT ![p].data[d] = a]
        /\ UNCHANGED <<store, replies>>
  BY <1>0
<1>2. m \in Modules /\ Of(m, a)
  <2>1. chip[d] \in Seq(Requests)
    BY DEF TypeOK
  <2>2. chip[d][i] \in Requests
    BY <2>1
  <2>. QED
    BY <1>1, <2>2 DEF Requests, ModuleInv
<1>3. p \in DOMAIN packets /\ packets[p].mod = m
  <2>1. PICK s, D : s = waiting[d][m] /\ D = DOMAIN packets
    OBVIOUS
  <2>2. s \in Seq(D) /\ s # <<>>
    BY <1>1, <1>2, <2>1, Channel DEF PopWaiting
  <2>3. Head(s) \in ToSet(s)
    <3>1. 1 \in DOMAIN s /\ Head(s) = s[1]
      BY <2>2
    <3>. QED
      BY <3>1 DEF ToSet
  <2>4. p \in ToSet(waiting[d][m])
    BY <1>1, <2>1, <2>3
  <2>. QED
    BY <1>2, <2>4, Channel
<1>4. PacketsOwn'
  BY <1>1, <1>2, <1>3, SetOwn, ModuleParts
<1>5. ChipsOwn'
  BY <1>1, AnswersOwn, ModuleParts
<1>6. StoresOwn' /\ OwnModule'
  <2>1. UNCHANGED <<store, replies>>
    BY <1>1
  <2>. QED
    BY <2>1 DEF ModuleInv, StoresOwn, OwnModule, Of
<1>. QED
  BY <1>4, <1>5, <1>6 DEF ModuleInv, PacketsOwn, StoresOwn, ChipsOwn

LEMMA DropOwn ==
  ASSUME TypeOK, ModuleInv, NEW d \in Devices, UnexpectedResponse(d) \/ NoResponse(d) \/ Count(d)
  PROVE  ModuleInv'
<1>1. UNCHANGED <<packets, store, replies>> /\ (chip' = chip \/ \E i : Answers(d, i))
  BY DEF UnexpectedResponse, NoResponse, Count
<1>2. ChipsOwn'
  <2>1. CASE chip' = chip
    BY <2>1 DEF ModuleInv, ChipsOwn, Of
  <2>. QED
    BY <1>1, <2>1, AnswersOwn, ModuleParts
<1>3. PacketsOwn' /\ StoresOwn' /\ OwnModule'
  BY <1>1 DEF ModuleInv, PacketsOwn, StoresOwn, OwnModule, Of
<1>. QED
  BY <1>2, <1>3 DEF ModuleInv, PacketsOwn, StoresOwn, ChipsOwn

LEMMA SoftOwn ==
  ASSUME TypeOK, ModuleInv, Soft
  PROVE  ModuleInv'
<1>1. \A p \in DOMAIN packets : packets[p].mod \in Modules
  BY PacketTyped
<1>2. \A m \in Modules : Of(m, store["audio"][m]) /\ Of(m, store["data"][m])
  BY DEF ModuleInv
<1>3. \A p \in DOMAIN packets :
        /\ Of(packets[p].mod, packets[p].audio)
        /\ \A c \in {"m17", "p25"} : Of(packets[p].mod, packets[p].data[c])
  BY DEF ModuleInv, Codecs
<1>4. \A p \in DOMAIN packets : Of(packets[p].mod, <<[Voice(p) EXCEPT !.seq = @ + 1]>>)
  BY DEF Of, Voice
<1>5. \A p \in DOMAIN packets :
        Of(packets[p].mod, store["data"][packets[p].mod] \o packets[p].audio)
  <2>. SUFFICES ASSUME NEW p \in DOMAIN packets
                PROVE  Of(packets[p].mod, store["data"][packets[p].mod] \o packets[p].audio)
    OBVIOUS
  <2>1. PICK s \in Seq(Voices), t \in Seq(Voices) :
          s = store["data"][packets[p].mod] /\ t = packets[p].audio
    BY <1>1, PacketTyped DEF TypeOK
  <2>2. \A k \in DOMAIN (s \o t) :
          (k \in DOMAIN s /\ (s \o t)[k] = s[k]) \/ \E j \in DOMAIN t : (s \o t)[k] = t[j]
    <3>1. ASSUME NEW k \in DOMAIN (s \o t), k \notin DOMAIN s
          PROVE  k - Len(s) \in DOMAIN t /\ (s \o t)[k] = t[k - Len(s)]
      BY <3>1
    <3>. QED
      BY <3>1
  <2>3. PICK m \in Modules : m = packets[p].mod
    BY <1>1
  <2>4. Of(m, s) /\ Of(m, t)
    BY <1>2, <1>3, <2>1, <2>3
  <2>5. Of(m, s \o t)
    BY <2>2, <2>4 DEF Of
  <2>. QED
    BY <2>1, <2>3, <2>5
<1>6. PICK p, w, a :
        /\ p \in DOMAIN packets /\ w \in {"m17", "p25"}
        /\ SetAudio(p, a) \/ SetData(w, p, a)
        /\ Of(packets[p].mod, a)
        /\ \/ UNCHANGED store
           \/ \E s \in {"data", "audio"} : \E k :
                Keep(s, packets[p].mod, k) /\ Of(packets[p].mod, k)
        /\ UNCHANGED <<chip, replies>>
  <2>1. CASE Codec2toAudio
    <3>1. PICK p \in DOMAIN packets :
            /\ \/ SetAudio(p, store["audio"][packets[p].mod]) /\ UNCHANGED store
               \/ /\ SetAudio(p, packets[p].data["m17"])
                  /\ Keep("audio", packets[p].mod, <<[Voice(p) EXCEPT !.seq = @ + 1]>>)
               \/ SetAudio(p, packets[p].data["m17"]) /\ UNCHANGED store
            /\ UNCHANGED <<chip, replies>>
      BY <2>1 DEF Codec2toAudio, deviceVars
    <3>. QED
      BY <1>1, <1>2, <1>3, <1>4, <3>1
  <2>2. CASE AudiotoCodec2
    <3>1. PICK p \in DOMAIN packets :
            /\ \/ SetData("m17", p, store["data"][packets[p].mod] \o packets[p].audio) /\ UNCHANGED store
               \/ /\ SetData("m17", p, packets[p].audio)
                  /\ Keep("data", packets[p].mod, packets[p].audio)
            /\ UNCHANGED <<chip, replies>>
      BY <2>2 DEF AudiotoCodec2, deviceVars
    <3>. QED
      BY <1>1, <1>2, <1>3, <1>5, <3>1
  <2>3. CASE IMBEtoAudio
    <3>1. PICK p \in DOMAIN packets :
            SetAudio(p, packets[p].data["p25"]) /\ UNCHANGED <<store, chip, replies>>
      BY <2>3 DEF IMBEtoAudio, deviceVars
    <3>. QED
      BY <1>3, <3>1
  <2>4. CASE AudiotoIMBE
    <3>1. PICK p \in DOMAIN packets :
            SetData("p25", p, packets[p].audio) /\ UNCHANGED <<store, chip, replies>>
      BY <2>4 DEF AudiotoIMBE, deviceVars
    <3>. QED
      BY <1>3, <3>1
  <2>. QED
    BY <2>1, <2>2, <2>3, <2>4 DEF Soft
<1>. w \in {"m17", "p25"} /\ p \in DOMAIN packets
  BY <1>6
<1>7. PacketsOwn'
  <2>1. w \in Codecs
    BY DEF Codecs
  <2>. QED
    BY <1>6, <2>1, SetOwn, ModuleParts DEF SetAudio, SetData
<1>8. StoresOwn'
  <2>1. CASE UNCHANGED store
    BY <2>1 DEF ModuleInv, StoresOwn, Of
  <2>2. ASSUME NEW s \in {"data", "audio"}, NEW k, NEW m \in Modules,
               Keep(s, m, k), Of(m, k)
        PROVE  StoresOwn'
    <3>1. \A t \in {"data", "audio"}, n \in Modules :
            store'[t][n] = IF t = s /\ n = m THEN k ELSE store[t][n]
      BY <2>2 DEF Keep, TypeOK
    <3>2. \A t \in {"data", "audio"}, n \in Modules : Of(n, store'[t][n])
      BY <2>2, <3>1 DEF ModuleInv
    <3>. QED
      BY <3>2 DEF StoresOwn, Of
  <2>. QED
    BY <1>1, <1>6, <2>1, <2>2
<1>9. ChipsOwn' /\ OwnModule'
  BY <1>6 DEF ModuleInv, ChipsOwn, OwnModule, Of
<1>. QED
  BY <1>7, <1>8, <1>9 DEF ModuleInv, PacketsOwn, StoresOwn, ChipsOwn

LEMMA FinishOwn ==
  ASSUME TypeOK, ModuleInv, NEW w \in Codecs, Finish(w)
  PROVE  ModuleInv'
<1>1. PICK p \in DOMAIN packets : p = todo[w].packet
  BY StepRests DEF Finish
<1>2. UNCHANGED <<chip, store>> /\ (UNCHANGED <<packets, replies>> \/ SendToReflector(p))
  BY <1>1 DEF Finish, deviceVars
<1>3. PacketsOwn'
  BY <1>2, SetOwn, ModuleParts DEF SendToReflector
<1>4. ChipsOwn' /\ StoresOwn'
  BY <1>2 DEF ModuleInv, ChipsOwn, StoresOwn, Of
<1>5. OwnModule'
  <2>1. CASE UNCHANGED replies
    BY <2>1 DEF ModuleInv, OwnModule
  <2>2. CASE SendToReflector(p)
    <3>1. PICK m, reply, R :
            /\ m \in Modules /\ m = packets[p].mod
            /\ reply = [nr |-> p, data |-> packets[p].data]
            /\ R = [nr : DOMAIN packets, data : [Codecs -> Seq(Voices)]]
      BY PacketTyped
    <3>. m \in Modules
      BY <3>1
    <3>2. replies' = [replies EXCEPT ![m] = Append(@, reply)] /\ reply \in R
      BY <2>2, <3>1, PacketTyped DEF SendToReflector
    <3>3. \A n \in Modules : replies[n] \in Seq(R) /\ replies'[n] = IF n = m THEN Append(replies[m], reply) ELSE replies[n]
      BY <3>1, <3>2 DEF TypeOK
    <3>4. \A c \in Codecs : Of(m, reply.data[c])
      BY <3>1 DEF ModuleInv
    <3>5. ASSUME NEW n \in Modules, NEW i \in DOMAIN replies'[n], NEW c \in Codecs
          PROVE  Of(n, replies'[n][i].data[c])
      <4>1. PICK s \in Seq(R) : s = replies[n]
        BY <3>3
      <4>2. \A j \in DOMAIN Append(s, reply) :
              Append(s, reply)[j] = reply \/ (j \in DOMAIN s /\ Append(s, reply)[j] = s[j])
        BY <3>2
      <4>3. (n = m /\ replies'[n][i] = reply) \/ (i \in DOMAIN replies[n] /\ replies'[n][i] = replies[n][i])
        BY <3>3, <3>5, <4>1, <4>2
      <4>4. CASE n = m /\ replies'[n][i] = reply
        BY <3>4, <4>4
      <4>5. CASE i \in DOMAIN replies[n] /\ replies'[n][i] = replies[n][i]
        BY <4>5 DEF ModuleInv, OwnModule, Of
      <4>. QED
        BY <4>3, <4>4, <4>5
    <3>. QED
      BY <3>5 DEF OwnModule, Of
  <2>. QED
    BY <1>2, <2>1, <2>2
<1>. QED
  BY <1>3, <1>4, <1>5 DEF ModuleInv, PacketsOwn, StoresOwn, ChipsOwn

LEMMA ArrivalOwn ==
  ASSUME TypeOK, ModuleInv, NEW m \in Modules, NEW p, NEW codec, NEW stream,
         Arrival(m, p, codec, stream)
  PROVE  ModuleInv'
<1>1. ASSUME NEW x \in DOMAIN packets'
      PROVE  /\ Of(packets'[x].mod, packets'[x].audio)
             /\ \A c \in Codecs : Of(packets'[x].mod, packets'[x].data[c])
  <2>1. CASE x = p
    <3>1. Of(m, <<>>)
      BY DEF Of
    <3>. QED
      BY <2>1, <3>1 DEF Arrival
  <2>2. CASE x \in DOMAIN packets
    BY <2>2 DEF Arrival, ModuleInv
  <2>. QED
    BY <2>1, <2>2 DEF Arrival
<1>2. PacketsOwn'
  BY <1>1 DEF PacketsOwn, Of
<1>3. ChipsOwn' /\ StoresOwn' /\ OwnModule'
  BY DEF Arrival, ModuleInv, ChipsOwn, StoresOwn, OwnModule, Of
<1>. QED
  BY <1>2, <1>3 DEF ModuleInv, PacketsOwn, StoresOwn, ChipsOwn

-----------------------------------------------------------------------------
(***************************************************************************)
(* The invariant and its steps.                                            *)
(***************************************************************************)

OrderInv == Inv /\ WayInv /\ ModuleInv /\ TimelyInv

LEMMA OrderInitially == Init => OrderInv
<1>. SUFFICES ASSUME Init PROVE OrderInv
  OBVIOUS
<1>1. Inv
  BY Initially
<1>2. /\ DOMAIN packets = {}
      /\ \A c \in Codecs : queue[c] = <<>> /\ IsIdle(c)
      /\ \A d \in Devices : chip[d] = <<>> /\ \A m \in Modules : waiting[d][m] = <<>>
      /\ \A m \in Modules : latest[m] = 0 /\ replies[m] = <<>>
      /\ \A t \in {"data", "audio"}, m \in Modules : store[t][m] = <<>>
  BY DEF Init, IsIdle, Idle
<1>3. DOMAIN <<>> = {}
  OBVIOUS
<1>4. LinesInv /\ TurnInv /\ JobInv /\ StreamInv /\ SentInv /\ TransmissionInOrder
  BY <1>2, <1>3 DEF LinesInv, Follow, TurnInv, JobInv, StreamInv, SentInv, TransmissionInOrder
<1>5. ModuleInv
  BY <1>2, <1>3 DEF ModuleInv, OwnModule, Of
<1>6. TimelyInv
  BY <1>2 DEF TimelyInv
<1>. QED
  BY <1>1, <1>4, <1>5, <1>6 DEF OrderInv, WayInv

\* No packet arrives: those that are not sent are still of the last transmission.
LEMMA TimelyStays ==
  ASSUME TypeOK, Same, TimelyInv, StreamInv, UNCHANGED latest,
         \A x \in DOMAIN packets : packets[x].sent => packets'[x].sent
  PROVE  TimelyInv'
<1>. SUFFICES ASSUME Timely PROVE TimelyInv'
  BY DEF TimelyInv
<1>1. \A x \in DOMAIN packets :
        /\ latest[packets[x].mod] \in DOMAIN packets
        /\ packets'[x].mod = packets[x].mod /\ packets'[x].stream = packets[x].stream
  <2>. SUFFICES ASSUME NEW x \in DOMAIN packets PROVE latest[packets[x].mod] \in DOMAIN packets
    BY DEF Same, Kept
  <2>1. packets[x].mod \in Modules
    BY PacketTyped
  <2>2. latest[packets[x].mod] # 0
    BY <2>1 DEF StreamInv, TypeOK
  <2>. QED
    BY <2>1, <2>2 DEF TypeOK
<1>2. DOMAIN packets' = DOMAIN packets
  BY DEF Same
<1>3. \A x, q \in DOMAIN packets :
        packets'[x].mod = packets'[q].mod /\ q <= x => packets'[q].stream <= packets'[x].stream
  BY <1>1 DEF TimelyInv
<1>4. ASSUME NEW x \in DOMAIN packets, ~packets'[x].sent
      PROVE  packets'[x].stream = packets'[latest'[packets'[x].mod]].stream
  <2>1. packets[x].stream = packets[latest[packets[x].mod]].stream
    BY <1>4 DEF TimelyInv
  <2>2. latest'[packets'[x].mod] = latest[packets[x].mod]
    BY <1>1
  <2>. QED
    BY <1>1, <2>1, <2>2
<1>. QED
  BY <1>2, <1>3, <1>4 DEF TimelyInv

LEMMA ArrivalTimely ==
  ASSUME TypeOK, StreamInv, TimelyInv, NEW m \in Modules, NEW p, NEW codec, NEW stream \in Nat,
         Arrival(m, p, codec, stream)
  PROVE  TimelyInv'
<1>. SUFFICES ASSUME Timely PROVE TimelyInv'
  BY DEF TimelyInv
<1>1. /\ \A n \in Modules : latest'[n] = IF n = m THEN p ELSE latest[n]
      /\ DOMAIN packets' = DOMAIN packets \cup {p}
      /\ p \notin DOMAIN packets /\ p \in Nat /\ \A x \in DOMAIN packets : x < p
      /\ \A x \in DOMAIN packets : packets'[x] = packets[x]
      /\ packets'[p].mod = m /\ packets'[p].stream = stream
  BY DEF Arrival, TypeOK
<1>2. \A x \in DOMAIN packets :
        /\ packets[x].mod \in Modules /\ packets[x].stream \in Nat
        /\ latest[packets[x].mod] \in DOMAIN packets
  <2>. SUFFICES ASSUME NEW x \in DOMAIN packets
                PROVE  /\ packets[x].mod \in Modules /\ packets[x].stream \in Nat
                       /\ latest[packets[x].mod] \in DOMAIN packets
    OBVIOUS
  <2>1. packets[x].mod \in Modules /\ packets[x].stream \in Nat
    BY PacketTyped DEF Packets
  <2>2. latest[packets[x].mod] # 0
    BY <2>1 DEF StreamInv, TypeOK
  <2>. QED
    BY <2>1, <2>2 DEF TypeOK
<1>3. ASSUME NEW x \in DOMAIN packets, packets[x].mod = m
      PROVE  packets[x].stream <= stream /\ (~packets[x].sent => packets[x].stream = stream)
  <2>1. PICK l \in DOMAIN packets : l = latest[m] /\ l # 0
    BY <1>2, <1>3 DEF TypeOK
  <2>2. packets[x].stream <= packets[l].stream
    BY <1>3, <2>1 DEF StreamInv
  <2>3. \/ stream = packets[l].stream
        \/ stream = packets[l].stream + 1 /\ packets[x].sent
    BY <1>3, <2>1 DEF Arrival
  <2>4. ~packets[x].sent => packets[x].stream = packets[l].stream
    BY <1>3, <2>1 DEF TimelyInv
  <2>. QED
    BY <1>2, <2>2, <2>3, <2>4
<1>4. ASSUME NEW x \in DOMAIN packets', NEW q \in DOMAIN packets',
             packets'[x].mod = packets'[q].mod, q <= x
      PROVE  packets'[q].stream <= packets'[x].stream
  <2>1. CASE x = p
    BY <1>1, <1>3, <1>4, <2>1
  <2>2. CASE x # p
    <3>1. x \in DOMAIN packets /\ q \in DOMAIN packets
      <4>1. x \in DOMAIN packets
        BY <1>1, <2>2
      <4>2. ~(p <= x)
        BY <1>1, <4>1 DEF TypeOK
      <4>. QED
        BY <1>1, <1>4, <4>1, <4>2
    <3>. QED
      BY <1>1, <1>4, <3>1 DEF TimelyInv
  <2>. QED
    BY <2>1, <2>2
<1>5. ASSUME NEW x \in DOMAIN packets', ~packets'[x].sent
      PROVE  packets'[x].stream = packets'[latest'[packets'[x].mod]].stream
  <2>1. CASE x = p
    BY <1>1, <2>1
  <2>2. CASE x \in DOMAIN packets /\ packets[x].mod = m
    BY <1>1, <1>3, <1>5, <2>2
  <2>3. CASE x \in DOMAIN packets /\ packets[x].mod # m
    BY <1>1, <1>2, <1>5, <2>3 DEF TimelyInv
  <2>. QED
    BY <1>1, <2>1, <2>2, <2>3
<1>. QED
  BY <1>4, <1>5 DEF TimelyInv

LEMMA ReaderInOrder == ASSUME OrderInv, Inv', NextPacket \/ FirstPacket PROVE OrderInv'
<1>. USE DEF OrderInv, WayInv, Inv
<1>1. PICK m, codec, stream, p :
        m \in Modules /\ codec \in CodecIns /\ stream \in Nat /\ Arrival(m, p, codec, stream)
  BY ReaderArrives
<1>. m \in Modules /\ codec \in CodecIns /\ stream \in Nat
  BY <1>1
<1>2. LinesInv' /\ TurnInv' /\ Kept
  BY <1>1, ArrivalInTurn
<1>3. StreamInv' /\ TimelyInv' /\ ModuleInv'
  BY <1>1, ArrivalInStream, ArrivalTimely, ArrivalOwn
<1>4. JobInv'
  BY <1>1, <1>2, JobsStay DEF Arrival
<1>5. SentInv' /\ TransmissionInOrder'
  <2>1. /\ UNCHANGED replies
        /\ \A x \in DOMAIN packets' : packets'[x].sent => x \in DOMAIN packets /\ packets[x].sent
        /\ \A x \in DOMAIN packets : packets'[x] = packets[x]
    BY <1>1 DEF Arrival
  <2>. QED
    BY <1>2, <2>1, SentStays
<1>. QED
  BY <1>2, <1>3, <1>4, <1>5

\* Between two arrivals the conjuncts that concern what was sent stay by themselves.
LEMMA RestStays ==
  ASSUME OrderInv, Same, SetOnly, UNCHANGED <<latest, replies>>
  PROVE  StreamInv' /\ SentInv' /\ TransmissionInOrder' /\ TimelyInv'
<1>1. TypeOK /\ TurnInv /\ SentInv /\ TransmissionInOrder /\ StreamInv /\ TimelyInv
  BY DEF OrderInv, WayInv, Inv
<1>2. SentInv' /\ TransmissionInOrder'
  BY <1>1, SentStays DEF Same, SetOnly
<1>3. StreamInv' /\ TimelyInv'
  BY <1>1, StreamsStay, TimelyStays DEF SetOnly
<1>. QED
  BY <1>2, <1>3

LEMMA DeviceInOrder ==
  ASSUME OrderInv, Inv', NEW d \in Devices,
         Device(d) \/ UnexpectedResponse(d) \/ NoResponse(d)
  PROVE  OrderInv'
<1>. USE DEF OrderInv, WayInv, Inv
<1>. d \in Codecs
  BY DEF Codecs
<1>1. UNCHANGED <<latest, replies>>
  BY DEF Device, Feed, Count, ReadDevice, UnexpectedResponse, NoResponse
<1>2. CASE Feed(d)
  <2>1. Same /\ SetOnly /\ UNCHANGED todo
    BY <1>2 DEF Feed, Same, Kept, SetOnly
  <2>2. JobInv'
    BY <2>1, JobsStay DEF Same
  <2>. QED
    BY <1>1, <1>2, <2>1, <2>2, FeedInTurn, FeedOwn, RestStays
<1>3. CASE ReadDevice(d)
  <2>1. LinesInv' /\ TurnInv' /\ Same /\ SetOnly
    BY <1>3, ReadInTurn
  <2>2. PICK p \in DOMAIN packets : todo' = [todo EXCEPT ![d] = Job(d, p)]
    BY <1>3, ReadInTurn
  <2>3. \A c \in Codecs : todo'[c] = IF c = d THEN Job(d, p) ELSE todo[c]
    BY <2>2 DEF TypeOK
  <2>4. JobInv'
    BY <2>1, <2>3, JobsStay DEF Same
  <2>5. ModuleInv'
    BY <1>3, ReadOwn
  <2>. QED
    BY <1>1, <2>1, <2>4, <2>5, RestStays
<1>4. CASE Count(d) \/ UnexpectedResponse(d) \/ NoResponse(d)
  <2>1. SetOnly /\ UNCHANGED todo
    BY <1>4 DEF Count, UnexpectedResponse, NoResponse, SetOnly
  <2>2. LinesInv' /\ TurnInv' /\ Same
    BY <1>4, DropInTurn
  <2>3. JobInv'
    BY <2>1, <2>2, JobsStay DEF Same
  <2>4. ModuleInv'
    BY <1>4, DropOwn
  <2>. QED
    BY <1>1, <2>1, <2>2, <2>3, <2>4, RestStays
<1>. QED
  BY <1>2, <1>3, <1>4 DEF Device

LEMMA SoftInOrder == ASSUME OrderInv, Inv', Soft PROVE OrderInv'
<1>. USE DEF OrderInv, WayInv, Inv
<1>1. LinesInv' /\ TurnInv' /\ Same /\ SetOnly
  BY SoftInTurn
<1>2. PICK w \in Codecs, p \in DOMAIN packets : todo' = [todo EXCEPT ![w] = Job(w, p)]
  BY SoftInTurn
<1>3. UNCHANGED <<latest, replies>>
  BY DEF Soft, Codec2toAudio, AudiotoCodec2, IMBEtoAudio, AudiotoIMBE
<1>4. JobInv'
  <2>1. \A c \in Codecs : todo'[c] = IF c = w THEN Job(w, p) ELSE todo[c]
    BY <1>2 DEF TypeOK
  <2>. QED
    BY <1>1, <2>1, JobsStay DEF Same
<1>. QED
  BY <1>1, <1>3, <1>4, SoftOwn, RestStays

LEMMA PassOnInOrder == ASSUME OrderInv, Inv', NEW w \in Codecs, PassOn(w) PROVE OrderInv'
<1>. USE DEF OrderInv, WayInv, Inv
<1>1. ~IsIdle(w) /\ StepDone(w) /\ UNCHANGED <<latest, packets, chip, store, replies>>
  BY DEF PassOn, deviceVars
<1>2. LinesInv' /\ TurnInv' /\ Same
  BY PassOnInTurn
<1>3. JobInv'
  <2>1. \A c \in Codecs : todo'[c] = IF c = w THEN Rest(todo[w]) ELSE todo[c]
    BY <1>1 DEF StepDone, TypeOK
  <2>. QED
    BY <1>1, <1>2, <2>1, JobsStay DEF Same
<1>4. SetOnly
  BY <1>1 DEF SetOnly
<1>5. ModuleInv'
  BY <1>1 DEF ModuleInv, OwnModule, Of
<1>. QED
  BY <1>1, <1>2, <1>3, <1>4, <1>5, RestStays

LEMMA FinishInOrder == ASSUME OrderInv, Inv', NEW w \in Codecs, Finish(w) PROVE OrderInv'
<1>. USE DEF OrderInv, WayInv, Inv
<1>1. /\ ~IsIdle(w) /\ StepDone(w) /\ UNCHANGED latest
      /\ UNCHANGED packets \/ packets' = [packets EXCEPT ![todo[w].packet].sent = TRUE]
  BY DEF Finish, SendToReflector
<1>2. LinesInv' /\ TurnInv' /\ Same
  BY FinishInTurn
<1>3. JobInv'
  <2>1. \A c \in Codecs : todo'[c] = IF c = w THEN Rest(todo[w]) ELSE todo[c]
    BY <1>1 DEF StepDone, TypeOK
  <2>. QED
    BY <1>1, <1>2, <2>1, JobsStay DEF Same
<1>4. SentInv' /\ TransmissionInOrder' /\ ModuleInv'
  BY FinishSends, FinishOwn
<1>5. \A x \in DOMAIN packets : packets[x].sent => packets'[x].sent
  <2>1. PICK p \in DOMAIN packets : p = todo[w].packet
    BY <1>1, StepRests
  <2>2. packets \in Seq(Packets) /\ packets[p] \in Packets
    BY DEF TypeOK
  <2>3. CASE packets' = [packets EXCEPT ![p].sent = TRUE]
    <3>1. packets'[p].sent = TRUE /\ \A x \in DOMAIN packets : x # p => packets'[x] = packets[x]
      BY <2>2, <2>3 DEF Packets
    <3>. QED
      BY <3>1
  <2>. QED
    BY <1>1, <2>1, <2>3
<1>. QED
  BY <1>1, <1>2, <1>3, <1>4, <1>5, StreamsStay, TimelyStays

LEMMA OrderStutters == ASSUME OrderInv, UNCHANGED vars PROVE OrderInv'
<1>1. Inv'
  BY Stuttering DEF OrderInv
<1>2. UNCHANGED <<latest, packets, queue, todo, waiting, chip, store, replies>>
  BY DEF vars, deviceVars
<1>3. Same /\ SetOnly
  BY <1>2 DEF Same, Kept, SetOnly
<1>4. LinesInv' /\ JobInv' /\ ModuleInv'
  BY <1>1, <1>2, <1>3, LinesStay, JobsStay
     DEF OrderInv, WayInv, Inv, Same, ModuleInv, OwnModule, Of
<1>5. NobodyNearer
  BY <1>2 DEF NobodyNearer, Queued, Waits, Handled, Due, At, Source
<1>. QED
  BY <1>1, <1>2, <1>3, <1>4, <1>5, NobodyMoves, RestStays DEF OrderInv, WayInv

LEMMA OrderInvariance == Spec => []OrderInv
<1>1. OrderInv /\ [Next]_vars => OrderInv'
  <2>. SUFFICES ASSUME OrderInv, [Next]_vars PROVE OrderInv'
    OBVIOUS
  <2>1. Inv'
    BY Stuttering, ReaderKeeps, SoftKeeps, FeedKeeps, CountKeeps, ReadDeviceKeeps,
       BadResponseKeeps, PassOnKeeps, FinishKeeps DEF Next, Device, OrderInv
  <2>. QED
    BY <2>1, OrderStutters, ReaderInOrder, SoftInOrder, DeviceInOrder, PassOnInOrder,
       FinishInOrder DEF Next
<1>. QED
  BY <1>1, OrderInitially, PTL DEF Spec

-----------------------------------------------------------------------------

\* Whatever the vocoders' threads and the hardware do, and however the
\* transmissions of a module overlap, tcd sends the packets of a transmission
\* back once and in their order, and a reply carries voices of its module only.
THEOREM RepliesAreSound == Spec => []RepliesSound
<1>1. OrderInv => RepliesSound
  BY DEF OrderInv, WayInv, ModuleInv, RepliesSound
<1>. QED
  BY <1>1, OrderInvariance, PTL

\* The numbers of the packets in the replies of a module.
Numbers(m) == [i \in DOMAIN replies[m] |-> replies[m][i].nr]

LEMMA AppendedNumber ==
  ASSUME NEW t \in Seq(Nat), NEW p \in Nat
  PROVE  Append(t, p) = [i \in 1..Len(t) + 1 |-> IF i = Len(t) + 1 THEN p ELSE t[i]]
<1>1. /\ Len(Append(t, p)) = Len(t) + 1 /\ Append(t, p) \in Seq(Nat)
      /\ \A i \in 1..Len(t) + 1 : Append(t, p)[i] = IF i = Len(t) + 1 THEN p ELSE t[i]
  OBVIOUS
<1>2. \A z \in Seq(Nat) : z = [i \in 1..Len(z) |-> z[i]]
  OBVIOUS
<1>3. PICK z \in Seq(Nat) : z = Append(t, p)
  BY <1>1
<1>4. z = [i \in 1..Len(t) + 1 |-> z[i]]
  BY <1>1, <1>2, <1>3
<1>5. [i \in 1..Len(t) + 1 |-> z[i]] = [i \in 1..Len(t) + 1 |-> IF i = Len(t) + 1 THEN p ELSE t[i]]
  BY <1>1, <1>3
<1>. QED
  BY <1>3, <1>4, <1>5

\* A packet that is sent back in time comes after all that were.
LEMMA SendsHear ==
  ASSUME OrderInv, Timely, NEW w \in Codecs, Finish(w), NEW m \in Modules
  PROVE  [Path(m)!Next]_(Path(m)!pathVars)
<1>. USE DEF OrderInv, WayInv, Inv
<1>1. /\ ~IsIdle(w) /\ StepDone(w) /\ Head(todo[w].steps) = "reflector"
  BY DEF Finish
<1>2. PICK p \in DOMAIN packets : p = todo[w].packet
  BY <1>1, StepRests
<1>3. CASE UNCHANGED <<packets, replies>>
  BY <1>3 DEF Path!pathVars
<1>4. CASE Complete(p) /\ SendToReflector(p)
  <2>1. PICK n, reply, R :
          /\ n \in Modules /\ n = packets[p].mod
          /\ reply = [nr |-> p, data |-> packets[p].data]
          /\ R = [nr : DOMAIN packets, data : [Codecs -> Seq(Voices)]]
    BY PacketTyped
  <2>. n \in Modules
    BY <2>1
  <2>2. replies' = [replies EXCEPT ![n] = Append(@, reply)] /\ reply \in R /\ reply.nr = p
    BY <1>4, <2>1, PacketTyped DEF SendToReflector
  <2>3. \A k \in Modules : replies[k] \in Seq(R) /\ replies'[k] = IF k = n THEN Append(replies[n], reply) ELSE replies[k]
    BY <2>1, <2>2 DEF TypeOK
  <2>4. Len(packets') = Len(packets) /\ Len(packets) \in Nat /\ DOMAIN packets = 1..Len(packets)
    BY <1>4, SentSet DEF SendToReflector, TypeOK
  <2>5. CASE m # n
    BY <2>3, <2>4, <2>5 DEF Path!pathVars
  <2>6. CASE m = n
    <3>1. PICK s \in Seq(R) : s = replies[m]
      BY <2>3
    <3>2. ASSUME NEW i \in DOMAIN s
          PROVE  s[i].nr < p
      <4>1. PICK r \in DOMAIN packets : r = s[i].nr
        <5>1. s[i] \in R
          BY <3>2
        <5>. QED
          BY <2>1, <5>1
      <4>2. packets[r].sent /\ packets[r].mod = m
        BY <3>1, <3>2, <4>1 DEF SentInv
      <4>3. ~packets[p].sent
        BY <1>4 DEF Complete
      <4>4. r \in Nat /\ p \in Nat /\ r # p
        BY <2>4, <4>2, <4>3
      <4>5. CASE p < r
        <5>1. packets[p].stream <= packets[r].stream
          BY <2>1, <2>6, <4>2, <4>4, <4>5 DEF TimelyInv
        <5>2. packets[r].stream <= packets[latest[m]].stream
          BY <4>2 DEF StreamInv
        <5>3. packets[p].stream = packets[latest[m]].stream
          BY <2>1, <2>6, <4>3 DEF TimelyInv
        <5>4. packets[p].stream \in Nat /\ packets[r].stream \in Nat
          BY PacketTyped DEF Packets
        <5>5. SameTransmission(r, p)
          BY <2>1, <2>6, <4>2, <5>1, <5>2, <5>3, <5>4 DEF SameTransmission
        <5>. QED
          BY <1>1, <1>2, <4>1, <4>2, <4>3, <5>5, SentEarlier
      <4>. QED
        BY <4>1, <4>4, <4>5
    <3>3. PICK t : t = Numbers(m)
      OBVIOUS
    <3>4. /\ t \in Seq(Nat) /\ Len(t) = Len(s)
          /\ \A i \in DOMAIN t : i \in DOMAIN s /\ t[i] < p
      <4>1. \A i \in DOMAIN s : s[i].nr \in Nat
        <5>1. \A i \in DOMAIN s : s[i] \in R
          OBVIOUS
        <5>. QED
          BY <2>1, <2>4, <5>1
      <4>2. t = [i \in 1..Len(s) |-> s[i].nr]
        BY <3>1, <3>3 DEF Numbers
      <4>. QED
        BY <3>2, <4>1, <4>2
    <3>5. t = <<>> \/ t[Len(t)] < p
      <4>1. t # <<>> => Len(t) \in DOMAIN t
        BY <3>4
      <4>. QED
        BY <3>4, <4>1
    <3>6. Numbers(m)' = Append(t, p)
      <4>1. Numbers(m)' = [i \in DOMAIN Append(s, reply) |-> Append(s, reply)[i].nr]
        BY <2>3, <2>6, <3>1 DEF Numbers
      <4>2. DOMAIN Append(s, reply) = 1..Len(s) + 1 /\ DOMAIN s = 1..Len(s) /\ Len(s) \in Nat
        BY <2>2
      <4>3. t = [i \in 1..Len(s) |-> s[i].nr]
        BY <3>1, <3>3 DEF Numbers
      <4>4. \A i \in 1..Len(s) : Append(s, reply)[i] = s[i]
        BY <2>2
      <4>5. Append(s, reply)[Len(s) + 1] = reply
        BY <2>2
      <4>6. \A i \in 1..Len(s) + 1 : Append(s, reply)[i].nr = IF i = Len(s) + 1 THEN p ELSE t[i]
        BY <2>2, <4>2, <4>3, <4>4, <4>5
      <4>7. Append(t, p) = [i \in 1..Len(s) + 1 |-> IF i = Len(s) + 1 THEN p ELSE t[i]]
        BY <2>4, <3>4, AppendedNumber
      <4>. QED
        BY <4>1, <4>2, <4>6, <4>7
    <3>7. p \in 1..Len(packets)
      BY <2>4
    <3>8. Path(m)!Hear
      BY <2>4, <3>3, <3>5, <3>6, <3>7 DEF Path!Hear, Numbers
    <3>. QED
      BY <3>8 DEF Path!Next
  <2>. QED
    BY <2>5, <2>6
<1>. QED
  BY <1>2, <1>3, <1>4 DEF Finish

\* tcd is a path for each module: what arrives is said, what is sent back is
\* heard, and nothing else shows.
LEMMA PathStep ==
  ASSUME OrderInv, OrderInv', Timely, [Next]_vars, NEW m \in Modules
  PROVE  [Path(m)!Next]_(Path(m)!pathVars)
<1>0. Same => Len(packets') = Len(packets)
  <2>1. /\ DOMAIN packets = 1..Len(packets) /\ Len(packets) \in Nat
        /\ DOMAIN packets' = 1..Len(packets') /\ Len(packets') \in Nat
    BY DEF OrderInv, Inv, TypeOK
  <2>2. \A k, n \in Nat : 1..k = 1..n => k = n
    <3>. SUFFICES ASSUME NEW k \in Nat, NEW n \in Nat, 1..k = 1..n PROVE k = n
      OBVIOUS
    <3>1. \A i \in Nat : i >= 1 => (i <= k <=> i <= n)
      OBVIOUS
    <3>. QED
      BY <3>1
  <2>. QED
    BY <2>1, <2>2 DEF Same
<1>1. CASE UNCHANGED <<packets, replies>>
  BY <1>1 DEF Path!pathVars
<1>2. CASE NextPacket \/ FirstPacket
  <2>1. PICK new : packets' = Append(packets, new) /\ UNCHANGED replies
    BY <1>2 DEF NextPacket, FirstPacket, ReadReflector
  <2>2. Len(packets') = Len(packets) + 1
    BY <2>1 DEF OrderInv, Inv, TypeOK
  <2>3. Path(m)!Say
    BY <2>1, <2>2 DEF Path!Say
  <2>. QED
    BY <2>3 DEF Path!Next
<1>3. ASSUME NEW d \in Devices, ReadDevice(d)
      PROVE  [Path(m)!Next]_(Path(m)!pathVars)
  <2>1. UNCHANGED replies
    BY <1>3 DEF ReadDevice
  <2>2. Same
    BY <1>3, ReadInTurn DEF OrderInv, WayInv, Inv
  <2>. QED
    BY <1>0, <2>1, <2>2 DEF Path!pathVars
<1>4. CASE Soft
  <2>1. UNCHANGED replies
    BY <1>4 DEF Soft, Codec2toAudio, AudiotoCodec2, IMBEtoAudio, AudiotoIMBE
  <2>2. Same
    BY <1>4, SoftInTurn DEF OrderInv, WayInv, Inv
  <2>. QED
    BY <1>0, <2>1, <2>2 DEF Path!pathVars
<1>5. ASSUME NEW w \in Codecs, Finish(w) PROVE [Path(m)!Next]_(Path(m)!pathVars)
  BY <1>5, SendsHear
<1>6. CASE UNCHANGED vars
  BY <1>1, <1>6 DEF vars
<1>7. ASSUME NEW d \in Devices, Feed(d) \/ Count(d) \/ UnexpectedResponse(d) \/ NoResponse(d)
      PROVE  UNCHANGED <<packets, replies>>
  BY <1>7 DEF Feed, Count, UnexpectedResponse, NoResponse
<1>8. ASSUME NEW w \in Codecs, PassOn(w) PROVE UNCHANGED <<packets, replies>>
  BY <1>8 DEF PassOn
<1>. QED
  BY <1>1, <1>2, <1>3, <1>4, <1>5, <1>6, <1>7, <1>8 DEF Next, Device

\* When the reflector begins the next transmission of a module only after the
\* last has come back, tcd implements a path: each packet is heard once at
\* most, and all packets of a module in the order in which they were sent.
THEOREM RepliesComeInOrder == Timely => (Spec => RepliesInOrder)
<1>. SUFFICES ASSUME Timely PROVE Spec => RepliesInOrder
  OBVIOUS
<1>1. Init => \A m \in Modules : Path(m)!Init
  <2>. SUFFICES ASSUME Init, NEW m \in Modules PROVE Path(m)!Init
    OBVIOUS
  <2>1. packets = <<>> /\ replies[m] = <<>>
    BY DEF Init
  <2>2. Len(<<>>) = 0 /\ [i \in DOMAIN <<>> |-> <<>>[i].nr] = <<>>
    OBVIOUS
  <2>3. Numbers(m) = <<>>
    BY <2>1, <2>2 DEF Numbers
  <2>. QED
    BY <2>1, <2>2, <2>3 DEF Path!Init, Numbers
<1>2. OrderInv /\ OrderInv' /\ [Next]_vars =>
        [\A m \in Modules : [Path(m)!Next]_(Path(m)!pathVars)]_<<packets, replies>>
  BY PathStep
<1>. QED
  BY <1>1, <1>2, OrderInvariance, PTL DEF Spec, RepliesInOrder
================================================================================
