---------------------------- MODULE FormatProofs ----------------------------
(***************************************************************************)
(* Theorems about what the listeners of a protocol hear (Fanout), for any  *)
(* clients, modules, transmissions, frames and queues; and about the       *)
(* groups of each mode (Superframes), for any number of frames, talks and  *)
(* losses.                                                                 *)
(***************************************************************************)
EXTENDS FormatProps, FiniteSetTheorems, TLAPS

-----------------------------------------------------------------------------
\* Which part is looked at never changes, and only its variables do.
LEMMA FanoutSteps ==
  ASSUME [Next]_vars
  PROVE  part' = part /\ (part = "fanout" => FanoutPart!Next \/ UNCHANGED fanoutVars)
BY DEF Next, InFanout, InSuperframes, InWires, InNoisyLink, vars

LEMMA FanoutIs ==
  /\ Watched \subseteq FanoutPart!Protocols
  /\ Prompt \subseteq Modules /\ Transcoded \subseteq Prompt
  /\ IsFiniteSet(Clients) /\ None \notin Clients /\ None \notin FanoutPart!Packets
BY FormatsAssumption DEF FormatsAssumption, FanoutPart!FanoutAssumption, FanoutPart!IsFiniteSet, IsFiniteSet

LEMMA Sizes ==
  ASSUME FanoutPart!TypeOK
  PROVE  /\ FanoutPart!Size(protocol) \in {1, 3, 4, 5} /\ FanoutPart!Step \in {1, 2, 3, 4, 5}
         /\ FanoutPart!Size(protocol) <= FanoutPart!MaxSize
         /\ protocol \notin {"mmdvm", "nxdn", "ysf"} => FanoutPart!Size(protocol) = 1
         /\ protocol = "m17" => FanoutPart!Step = 2
         /\ protocol # "m17" => FanoutPart!Step = FanoutPart!Size(protocol)
<1>1. protocol \in FanoutPart!Protocols
  BY FanoutIs DEF FanoutPart!TypeOK
<1>. QED
  BY <1>1 DEF FanoutPart!Protocols, FanoutPart!Size, FanoutPart!Step, FanoutPart!MaxSize

-----------------------------------------------------------------------------
(***************************************************************************)
(* Sequences as lines of packets.                                          *)
(***************************************************************************)

LEMMA LineAppend ==
  ASSUME NEW s \in Seq(FanoutPart!Packets), NEW x \in FanoutPart!Packets
  PROVE  /\ Append(s, x) \in Seq(FanoutPart!Packets)
         /\ FanoutPart!ToSet(Append(s, x)) = FanoutPart!ToSet(s) \cup {x}
         /\ FanoutPart!Ordered(s) /\ (\A p \in FanoutPart!ToSet(s) : FanoutPart!Precedes(p, x)) => FanoutPart!Ordered(Append(s, x))
         /\ FanoutPart!OrderedByModule(s) /\ (\A p \in FanoutPart!ToSet(s) : FanoutPart!ModuleOf(p) = FanoutPart!ModuleOf(x) => FanoutPart!Precedes(p, x))
              => FanoutPart!OrderedByModule(Append(s, x))
<1>1. /\ Append(s, x) \in Seq(FanoutPart!Packets) /\ Len(s) \in Nat
      /\ DOMAIN s = 1..Len(s) /\ DOMAIN Append(s, x) = 1..Len(s) + 1
      /\ \A i \in 1..Len(s) : Append(s, x)[i] = s[i]
      /\ Append(s, x)[Len(s) + 1] = x
  OBVIOUS
<1>2. 1..Len(s) + 1 = (1..Len(s)) \cup {Len(s) + 1}
  BY <1>1
<1>3. FanoutPart!ToSet(Append(s, x)) = FanoutPart!ToSet(s) \cup {x}
  BY <1>1, <1>2 DEF FanoutPart!ToSet
<1>4. ASSUME NEW i \in 1..Len(s) + 1, NEW j \in 1..Len(s) + 1, i < j
      PROVE  /\ i \in 1..Len(s) /\ s[i] \in FanoutPart!ToSet(s) /\ Append(s, x)[i] = s[i]
             /\ \/ j \in 1..Len(s) /\ Append(s, x)[j] = s[j]
                \/ Append(s, x)[j] = x
  BY <1>1, <1>4 DEF FanoutPart!ToSet
<1>5. ASSUME FanoutPart!Ordered(s), \A p \in FanoutPart!ToSet(s) : FanoutPart!Precedes(p, x) PROVE FanoutPart!Ordered(Append(s, x))
  BY <1>1, <1>4, <1>5 DEF FanoutPart!Ordered
<1>6. ASSUME FanoutPart!OrderedByModule(s),
             \A p \in FanoutPart!ToSet(s) : FanoutPart!ModuleOf(p) = FanoutPart!ModuleOf(x) => FanoutPart!Precedes(p, x)
      PROVE  FanoutPart!OrderedByModule(Append(s, x))
  BY <1>1, <1>4, <1>6 DEF FanoutPart!OrderedByModule
<1>. QED
  BY <1>1, <1>3, <1>5, <1>6

LEMMA LineTail ==
  ASSUME NEW s \in Seq(FanoutPart!Packets), s # <<>>
  PROVE  /\ Tail(s) \in Seq(FanoutPart!Packets) /\ Head(s) \in FanoutPart!Packets
         /\ FanoutPart!ToSet(s) = FanoutPart!ToSet(Tail(s)) \cup {Head(s)}
         /\ FanoutPart!Ordered(s) =>
              FanoutPart!Ordered(Tail(s)) /\ \A p \in FanoutPart!ToSet(Tail(s)) : FanoutPart!Precedes(Head(s), p)
         /\ FanoutPart!OrderedByModule(s) =>
              /\ FanoutPart!OrderedByModule(Tail(s))
              /\ \A p \in FanoutPart!ToSet(Tail(s)) : FanoutPart!ModuleOf(p) = FanoutPart!ModuleOf(Head(s)) => FanoutPart!Precedes(Head(s), p)
<1>1. /\ Tail(s) \in Seq(FanoutPart!Packets) /\ Len(s) \in Nat /\ Len(s) >= 1
      /\ DOMAIN s = 1..Len(s) /\ DOMAIN Tail(s) = 1..Len(s) - 1
      /\ \A i \in 1..Len(s) - 1 : Tail(s)[i] = s[i + 1]
      /\ Head(s) = s[1] /\ Head(s) \in FanoutPart!Packets
  OBVIOUS
<1>2. FanoutPart!ToSet(s) = FanoutPart!ToSet(Tail(s)) \cup {Head(s)}
  <2>1. ASSUME NEW i \in 1..Len(s) PROVE s[i] \in FanoutPart!ToSet(Tail(s)) \cup {Head(s)}
    <3>1. CASE i = 1
      BY <1>1, <3>1
    <3>2. CASE i # 1
      <4>1. i - 1 \in 1..Len(s) - 1 /\ i = (i - 1) + 1
        BY <1>1, <3>2
      <4>. QED
        BY <1>1, <4>1 DEF FanoutPart!ToSet
    <3>. QED
      BY <3>1, <3>2
  <2>2. \A i \in 1..Len(s) - 1 : Tail(s)[i] \in FanoutPart!ToSet(s)
    BY <1>1 DEF FanoutPart!ToSet
  <2>3. Head(s) \in FanoutPart!ToSet(s)
    BY <1>1 DEF FanoutPart!ToSet
  <2>. QED
    BY <1>1, <2>1, <2>2, <2>3 DEF FanoutPart!ToSet
<1>3. ASSUME FanoutPart!Ordered(s)
      PROVE  FanoutPart!Ordered(Tail(s)) /\ \A p \in FanoutPart!ToSet(Tail(s)) : FanoutPart!Precedes(Head(s), p)
  BY <1>1, <1>3 DEF FanoutPart!Ordered, FanoutPart!ToSet
<1>4. ASSUME FanoutPart!OrderedByModule(s)
      PROVE  /\ FanoutPart!OrderedByModule(Tail(s))
             /\ \A p \in FanoutPart!ToSet(Tail(s)) : FanoutPart!ModuleOf(p) = FanoutPart!ModuleOf(Head(s)) => FanoutPart!Precedes(Head(s), p)
  BY <1>1, <1>4 DEF FanoutPart!OrderedByModule, FanoutPart!ToSet
<1>. QED
  BY <1>1, <1>2, <1>3, <1>4

-----------------------------------------------------------------------------
(***************************************************************************)
(* What each step does to the lines, module by module.                     *)
(***************************************************************************)

\* Transmissions are added and stay.
MoreTalks ==
  /\ Len(talks) <= Len(talks')
  /\ \A t \in 1..Len(talks) : talks'[t] = talks[t]

\* Nothing of module n changes.
SameAt(n) ==
  /\ now'[n] = now[n] /\ codec'[n] = codec[n] /\ stream'[n] = stream[n]
  /\ cache'[n] = cache[n] /\ out'[n] = out[n]

TheHeader == [talk |-> Len(talks) + 1, header |-> TRUE, pid |-> 0, last |-> FALSE]

LEMMA OpenDoes ==
  ASSUME FanoutPart!TypeOK, NEW m \in Modules, NEW c \in Clients \cup {None}, FanoutPart!OpenStream(m, c)
  PROVE  /\ FanoutPart!TypeOK' /\ MoreTalks
         /\ UNCHANGED <<protocol, queue, codec, cache, out>>
         /\ \A n \in Modules : n # m => SameAt(n)
         /\ ~FanoutPart!Open(m)
         /\ Len(talks') = Len(talks) + 1 /\ talks'[Len(talks) + 1].module = m
         /\ now'[m].talk = Len(talks) + 1 /\ now'[m].pid = 0 /\ now'[m].over = FALSE
         /\ stream'[m] = Append(stream[m], TheHeader)
         /\ TheHeader \in FanoutPart!Packets
<1>1. PICK local \in BOOLEAN : talks' = Append(talks, [by |-> c, module |-> m, local |-> local])
  BY DEF FanoutPart!OpenStream
<1>. DEFINE R == [by : Clients \cup {None}, module : Modules, local : BOOLEAN]
<1>2. talks \in Seq(R) /\ [by |-> c, module |-> m, local |-> local] \in R
  BY DEF FanoutPart!TypeOK
<1>3. /\ talks' \in Seq(R) /\ Len(talks) \in Nat /\ Len(talks') = Len(talks) + 1
      /\ talks'[Len(talks) + 1] = [by |-> c, module |-> m, local |-> local]
      /\ \A t \in 1..Len(talks) : talks'[t] = talks[t]
  BY <1>1, <1>2
<1>4. TheHeader \in FanoutPart!Packets
  BY <1>3 DEF TheHeader, FanoutPart!Packets
<1>5. /\ UNCHANGED <<protocol, linked, queue, codec, cache, out>>
      /\ now' = [now EXCEPT ![m] = [talk |-> Len(talks) + 1, pid |-> 0, over |-> FALSE]]
      /\ stream' = [stream EXCEPT ![m] = Append(stream[m], TheHeader)]
      /\ ~FanoutPart!Open(m)
  BY <1>3 DEF FanoutPart!OpenStream, TheHeader
<1>6. now' \in [Modules -> [talk : 0..Len(talks'), pid : Nat, over : BOOLEAN]]
  BY <1>3, <1>5 DEF FanoutPart!TypeOK
<1>7. stream' \in [Modules -> Seq(FanoutPart!Packets)]
  <2>1. Append(stream[m], TheHeader) \in Seq(FanoutPart!Packets)
    BY <1>4 DEF FanoutPart!TypeOK
  <2>. QED
    BY <1>5, <2>1 DEF FanoutPart!TypeOK
<1>8. /\ cache' \in [Modules -> [header : 0..Len(talks'), seq : Nat,
                                frames : [0..FanoutPart!MaxSize - 1 -> FanoutPart!Packets \cup {None}]]]
      /\ \A n \in Modules : out'[n].header \in 0..Len(talks')
  <2>1. 0..Len(talks) \subseteq 0..Len(talks')
    BY <1>3
  <2>2. \A n \in Modules : cache[n] \in [header : 0..Len(talks'), seq : Nat,
                                         frames : [0..FanoutPart!MaxSize - 1 -> FanoutPart!Packets \cup {None}]]
    BY <2>1 DEF FanoutPart!TypeOK
  <2>. QED
    BY <1>5, <2>1, <2>2 DEF FanoutPart!TypeOK
<1>9. FanoutPart!TypeOK'
  BY <1>3, <1>5, <1>6, <1>7, <1>8 DEF FanoutPart!TypeOK, FanoutPart!Packets
<1>10. MoreTalks
  BY <1>3 DEF MoreTalks
<1>11. /\ \A n \in Modules : n # m => now'[n] = now[n] /\ stream'[n] = stream[n]
       /\ now'[m] = [talk |-> Len(talks) + 1, pid |-> 0, over |-> FALSE]
       /\ stream'[m] = Append(stream[m], TheHeader)
  BY <1>5 DEF FanoutPart!TypeOK
<1>12. \A n \in Modules : n # m => SameAt(n)
  BY <1>5, <1>11 DEF SameAt
<1>. QED
  BY <1>3, <1>4, <1>5, <1>9, <1>10, <1>11, <1>12

TheFrame(m, last) == [talk |-> now[m].talk, header |-> FALSE, pid |-> now[m].pid, last |-> last]

LEMMA PushDoes ==
  ASSUME FanoutPart!TypeOK, NEW m \in Modules, FanoutPart!Push(m)
  PROVE  \E last \in BOOLEAN :
           /\ FanoutPart!TypeOK'
           /\ UNCHANGED <<protocol, talks, queue, cache, out>>
           /\ \A n \in Modules : n # m => SameAt(n)
           /\ FanoutPart!Open(m) /\ ~now[m].over
           /\ now'[m].talk = now[m].talk /\ now'[m].pid = now[m].pid + 1 /\ now'[m].over = last
           /\ TheFrame(m, last) \in FanoutPart!Packets
           /\ IF m \in Transcoded /\ talks[now[m].talk].local
              THEN codec'[m] = Append(codec[m], TheFrame(m, last)) /\ stream'[m] = stream[m]
              ELSE stream'[m] = Append(stream[m], TheFrame(m, last)) /\ codec'[m] = codec[m]
<1>1. PICK last \in BOOLEAN :
        /\ now' = [now EXCEPT ![m].pid = @ + 1, ![m].over = last]
        /\ IF m \in Transcoded /\ talks[now[m].talk].local
           THEN codec' = [codec EXCEPT ![m] = Append(codec[m], TheFrame(m, last))] /\ UNCHANGED stream
           ELSE stream' = [stream EXCEPT ![m] = Append(stream[m], TheFrame(m, last))] /\ UNCHANGED codec
  BY DEF FanoutPart!Push, TheFrame
<1>2. /\ UNCHANGED <<protocol, linked, talks, queue, cache, out>>
      /\ FanoutPart!Open(m) /\ ~now[m].over
  BY DEF FanoutPart!Push
<1>3. TheFrame(m, last) \in FanoutPart!Packets
  BY <1>2 DEF TheFrame, FanoutPart!Packets, FanoutPart!TypeOK, FanoutPart!Open
<1>4. /\ now' \in [Modules -> [talk : 0..Len(talks), pid : Nat, over : BOOLEAN]]
      /\ \A n \in Modules : n # m => now'[n] = now[n]
      /\ now'[m].talk = now[m].talk /\ now'[m].pid = now[m].pid + 1 /\ now'[m].over = last
  <2>1. /\ now \in [Modules -> [talk : 0..Len(talks), pid : Nat, over : BOOLEAN]]
        /\ now[m] \in [talk : 0..Len(talks), pid : Nat, over : BOOLEAN]
    BY DEF FanoutPart!TypeOK
  <2>2. PICK x : x = [now[m] EXCEPT !.pid = now[m].pid + 1, !.over = last]
    OBVIOUS
  <2>3. /\ x \in [talk : 0..Len(talks), pid : Nat, over : BOOLEAN]
        /\ x.talk = now[m].talk /\ x.pid = now[m].pid + 1 /\ x.over = last
    <3>1. x = [talk |-> now[m].talk, pid |-> now[m].pid + 1, over |-> last]
      BY <2>1, <2>2
    <3>. QED
      BY <2>1, <3>1
  <2>4. now' = [now EXCEPT ![m] = x]
    BY <1>1, <2>1, <2>2
  <2>. QED
    BY <2>1, <2>3, <2>4
<1>5. /\ Append(stream[m], TheFrame(m, last)) \in Seq(FanoutPart!Packets)
      /\ Append(codec[m], TheFrame(m, last)) \in Seq(FanoutPart!Packets)
  BY <1>3 DEF FanoutPart!TypeOK
<1>6. /\ codec' \in [Modules -> Seq(FanoutPart!Packets)] /\ stream' \in [Modules -> Seq(FanoutPart!Packets)]
      /\ \A n \in Modules : n # m => codec'[n] = codec[n] /\ stream'[n] = stream[n]
      /\ IF m \in Transcoded /\ talks[now[m].talk].local
         THEN codec'[m] = Append(codec[m], TheFrame(m, last)) /\ stream'[m] = stream[m]
         ELSE stream'[m] = Append(stream[m], TheFrame(m, last)) /\ codec'[m] = codec[m]
  BY <1>1, <1>5 DEF FanoutPart!TypeOK
<1>7. FanoutPart!TypeOK'
  BY <1>2, <1>4, <1>6 DEF FanoutPart!TypeOK, FanoutPart!Packets
<1>. QED
  BY <1>2, <1>3, <1>4, <1>6, <1>7 DEF SameAt

LEMMA CodecDoes ==
  ASSUME FanoutPart!TypeOK, NEW m \in Modules, FanoutPart!CodecStream(m)
  PROVE  /\ FanoutPart!TypeOK'
         /\ UNCHANGED <<protocol, talks, now, queue, cache, out>>
         /\ \A n \in Modules : n # m => SameAt(n)
         /\ codec[m] # <<>> /\ codec'[m] = Tail(codec[m])
         /\ stream'[m] = stream[m] \/ stream'[m] = Append(stream[m], Head(codec[m]))
<1>1. /\ codec[m] # <<>> /\ codec' = [codec EXCEPT ![m] = Tail(codec[m])]
      /\ stream' = stream \/ stream' = [stream EXCEPT ![m] = Append(stream[m], Head(codec[m]))]
      /\ UNCHANGED <<protocol, linked, talks, now, queue, cache, out>>
  BY DEF FanoutPart!CodecStream
<1>2. codec[m] \in Seq(FanoutPart!Packets) /\ stream[m] \in Seq(FanoutPart!Packets)
  BY DEF FanoutPart!TypeOK
<1>3. Tail(codec[m]) \in Seq(FanoutPart!Packets) /\ Append(stream[m], Head(codec[m])) \in Seq(FanoutPart!Packets)
  BY <1>1, <1>2
<1>4. /\ codec' \in [Modules -> Seq(FanoutPart!Packets)] /\ stream' \in [Modules -> Seq(FanoutPart!Packets)]
      /\ \A n \in Modules : n # m => codec'[n] = codec[n] /\ stream'[n] = stream[n]
      /\ codec'[m] = Tail(codec[m])
      /\ stream'[m] = stream[m] \/ stream'[m] = Append(stream[m], Head(codec[m]))
  <2>1. /\ codec' \in [Modules -> Seq(FanoutPart!Packets)] /\ codec'[m] = Tail(codec[m])
        /\ \A n \in Modules : n # m => codec'[n] = codec[n]
    BY <1>1, <1>3 DEF FanoutPart!TypeOK
  <2>2. CASE stream' = stream
    BY <2>1, <2>2 DEF FanoutPart!TypeOK
  <2>3. CASE stream' = [stream EXCEPT ![m] = Append(stream[m], Head(codec[m]))]
    BY <1>3, <2>1, <2>3 DEF FanoutPart!TypeOK
  <2>. QED
    BY <1>1, <2>2, <2>3
<1>5. FanoutPart!TypeOK'
  BY <1>1, <1>4 DEF FanoutPart!TypeOK, FanoutPart!Packets
<1>. QED
  BY <1>1, <1>4, <1>5 DEF SameAt

LEMMA CloseDoes ==
  ASSUME FanoutPart!TypeOK, NEW m \in Modules, FanoutPart!CloseStream(m)
  PROVE  /\ FanoutPart!TypeOK'
         /\ UNCHANGED <<protocol, talks, queue, codec, stream, cache, out>>
         /\ \A n \in Modules : n # m => SameAt(n)
         /\ now'[m].talk = 0 /\ now'[m].over = FALSE
         /\ stream[m] = <<>>
         /\ m \in Prompt => codec[m] = <<>> /\ \A i \in DOMAIN queue : FanoutPart!ModuleOf(queue[i]) # m
<1>1. /\ now' = [now EXCEPT ![m] = FanoutPart!NoTalk]
      /\ UNCHANGED <<protocol, linked, talks, codec, stream, queue, cache, out>>
  BY DEF FanoutPart!CloseStream
<1>2. now' \in [Modules -> [talk : 0..Len(talks), pid : Nat, over : BOOLEAN]]
  <2>1. Len(talks) \in Nat
    BY DEF FanoutPart!TypeOK
  <2>. QED
    BY <1>1, <2>1 DEF FanoutPart!TypeOK, FanoutPart!NoTalk
<1>3. FanoutPart!TypeOK'
  BY <1>1, <1>2 DEF FanoutPart!TypeOK, FanoutPart!Packets
<1>4. /\ \A n \in Modules : n # m => now'[n] = now[n]
      /\ now'[m].talk = 0 /\ now'[m].over = FALSE
  BY <1>1 DEF FanoutPart!TypeOK, FanoutPart!NoTalk
<1>5. /\ stream[m] = <<>>
      /\ m \in Prompt => codec[m] = <<>> /\ \A i \in DOMAIN queue : FanoutPart!ModuleOf(queue[i]) # m
  BY DEF FanoutPart!CloseStream, FanoutPart!ModuleOf
<1>. QED
  BY <1>1, <1>3, <1>4, <1>5 DEF SameAt

LEMMA RouterDoes ==
  ASSUME FanoutPart!TypeOK, NEW m \in Modules, FanoutPart!RouterThread(m)
  PROVE  /\ FanoutPart!TypeOK'
         /\ UNCHANGED <<protocol, talks, now, codec, cache, out>>
         /\ \A n \in Modules : n # m => SameAt(n)
         /\ stream[m] # <<>> /\ stream'[m] = Tail(stream[m])
         /\ queue' = Append(queue, Head(stream[m]))
<1>1. /\ stream[m] # <<>> /\ stream' = [stream EXCEPT ![m] = Tail(stream[m])]
      /\ queue' = Append(queue, Head(stream[m]))
      /\ UNCHANGED <<protocol, linked, talks, now, codec, cache, out>>
  BY DEF FanoutPart!RouterThread, FanoutPart!sourceVars
<1>2. stream[m] \in Seq(FanoutPart!Packets) /\ queue \in Seq(FanoutPart!Packets)
  BY DEF FanoutPart!TypeOK
<1>3. Tail(stream[m]) \in Seq(FanoutPart!Packets) /\ Append(queue, Head(stream[m])) \in Seq(FanoutPart!Packets)
  BY <1>1, <1>2
<1>4. /\ stream' \in [Modules -> Seq(FanoutPart!Packets)]
      /\ \A n \in Modules : n # m => stream'[n] = stream[n]
      /\ stream'[m] = Tail(stream[m])
  BY <1>1, <1>3 DEF FanoutPart!TypeOK
<1>5. FanoutPart!TypeOK'
  BY <1>1, <1>3, <1>4 DEF FanoutPart!TypeOK, FanoutPart!Packets
<1>. QED
  BY <1>1, <1>4, <1>5 DEF SameAt

-----------------------------------------------------------------------------
(***************************************************************************)
(* HandleQueue: what becomes of the packet in front, and of what is kept   *)
(* of its module.                                                          *)
(***************************************************************************)

\* The packet in front is one of a transmission there has been.
AtHand ==
  /\ FanoutPart!TypeOK
  /\ FanoutPart!Packet \in FanoutPart!Packets /\ FanoutPart!Packet.talk \in 1..Len(talks)
  /\ FanoutPart!Module \in Modules
  /\ FanoutPart!Packet.header => ~FanoutPart!Packet.last

Entry == [header : 0..Len(talks), seq : Nat, frames : [0..FanoutPart!MaxSize - 1 -> FanoutPart!Packets \cup {None}]]

\* The packet is kept for its group.
InGroup(k) ==
  /\ FanoutPart!Size(protocol) > 1 /\ ~FanoutPart!Packet.header /\ ~FanoutPart!Packet.last
  /\ k = FanoutPart!Packet.pid % FanoutPart!Size(protocol)

CacheEffect ==
  /\ cache' \in [Modules -> Entry]
  /\ \A n \in Modules : n # FanoutPart!Module => cache'[n] = cache[n]
  /\ FanoutPart!KeepsHeader /\ FanoutPart!Packet.header =>
       cache'[FanoutPart!Module].header = FanoutPart!Packet.talk /\ cache'[FanoutPart!Module].seq = 0
  /\ ~FanoutPart!KeepsHeader \/ ~FanoutPart!Packet.header => cache'[FanoutPart!Module].header = cache[FanoutPart!Module].header
  /\ protocol = "m17" /\ ~FanoutPart!Packet.header => cache'[FanoutPart!Module].seq = cache[FanoutPart!Module].seq + 1
  /\ \A k \in 0..FanoutPart!MaxSize - 1 :
       cache'[FanoutPart!Module].frames[k] = IF InGroup(k) THEN FanoutPart!Packet ELSE cache[FanoutPart!Module].frames[k]

\* The packet is one that goes out, alone or with its group.
GoesOut ==
  CASE protocol = "urf" -> talks[FanoutPart!Packet.talk].local
    [] protocol \in {"dextra", "dplus"} -> TRUE
    [] protocol \in {"dcs", "p25"} -> ~FanoutPart!Packet.header
    [] protocol = "m17" -> ~FanoutPart!Packet.header /\ (cache[FanoutPart!Module].seq % 2 = 1 \/ FanoutPart!Packet.last)
    [] OTHER -> FanoutPart!Packet.header \/ FanoutPart!Packet.last \/ FanoutPart!Packet.pid % FanoutPart!Size(protocol) = FanoutPart!Size(protocol) - 1

TheHeaderSent ==
  IF FanoutPart!Packet.header \/ protocol \in {"dextra", "urf", "dplus"} THEN FanoutPart!Packet.talk
                                                              ELSE cache[FanoutPart!Module].header
TheFramesSent ==
  IF FanoutPart!Size(protocol) > 1 /\ FanoutPart!Kind(FanoutPart!Packet) = "voice"
  THEN [k \in 1..FanoutPart!Size(protocol) |-> IF k = FanoutPart!Size(protocol) THEN FanoutPart!Packet
                                                            ELSE cache[FanoutPart!Module].frames[k - 1]]
  ELSE <<FanoutPart!Packet>>

OutEffect ==
  /\ DOMAIN out' = Modules
  /\ \A n \in Modules : n # FanoutPart!Module => out'[n] = out[n]
  /\ IF GoesOut THEN /\ out'[FanoutPart!Module].kind = FanoutPart!Kind(FanoutPart!Packet)
                     /\ out'[FanoutPart!Module].header = TheHeaderSent
                     /\ out'[FanoutPart!Module].frames = TheFramesSent
                     /\ out'[FanoutPart!Module].to = FanoutPart!Listeners(FanoutPart!Module)
                ELSE out'[FanoutPart!Module] = out[FanoutPart!Module]

LEMMA SendDoes ==
  ASSUME AtHand, NEW kind, NEW header, NEW frames, NEW copy,
         FanoutPart!SendWithCopy(kind, header, frames, copy)
  PROVE  /\ DOMAIN out' = Modules
         /\ \A n \in Modules : n # FanoutPart!Module => out'[n] = out[n]
         /\ out'[FanoutPart!Module].kind = kind /\ out'[FanoutPart!Module].header = header
         /\ out'[FanoutPart!Module].frames = frames /\ out'[FanoutPart!Module].to = FanoutPart!Listeners(FanoutPart!Module)
<1>1. PICK r : r = [kind |-> kind, header |-> header, frames |-> frames,
                    to |-> FanoutPart!Listeners(FanoutPart!Module), copy |-> copy]
  OBVIOUS
<1>2. out' = [out EXCEPT ![FanoutPart!Module] = r] /\ DOMAIN out = Modules /\ FanoutPart!Module \in Modules
  BY <1>1 DEF FanoutPart!SendWithCopy, AtHand, FanoutPart!TypeOK
<1>3. /\ DOMAIN out' = Modules /\ out'[FanoutPart!Module] = r
      /\ \A n \in Modules : n # FanoutPart!Module => out'[n] = out[n]
  BY <1>2
<1>. QED
  BY <1>1, <1>3

LEMMA KeepDoes ==
  ASSUME AtHand, NEW entry \in Entry, FanoutPart!Keep(entry)
  PROVE  /\ cache' \in [Modules -> Entry] /\ cache'[FanoutPart!Module] = entry
         /\ \A n \in Modules : n # FanoutPart!Module => cache'[n] = cache[n]
<1>1. cache' = [cache EXCEPT ![FanoutPart!Module] = entry] /\ FanoutPart!Module \in Modules
  BY DEF FanoutPart!Keep, AtHand
<1>2. cache \in [Modules -> Entry]
  BY DEF AtHand, FanoutPart!TypeOK, Entry
<1>. QED
  BY <1>1, <1>2

LEMMA EntryIs ==
  ASSUME AtHand
  PROVE  /\ cache[FanoutPart!Module] \in Entry /\ cache \in [Modules -> Entry]
         /\ cache[FanoutPart!Module] = [header |-> cache[FanoutPart!Module].header, seq |-> cache[FanoutPart!Module].seq,
                              frames |-> cache[FanoutPart!Module].frames]
         /\ cache[FanoutPart!Module].header \in 0..Len(talks) /\ cache[FanoutPart!Module].seq \in Nat
         /\ cache[FanoutPart!Module].frames \in [0..FanoutPart!MaxSize - 1 -> FanoutPart!Packets \cup {None}]
         /\ Len(talks) \in Nat /\ DOMAIN out = Modules
<1>1. cache \in [Modules -> Entry] /\ FanoutPart!Module \in Modules /\ DOMAIN out = Modules
  BY DEF AtHand, FanoutPart!TypeOK, Entry
<1>2. Len(talks) \in Nat
  BY DEF AtHand, FanoutPart!TypeOK
<1>3. PICK e \in Entry : e = cache[FanoutPart!Module]
  BY <1>1
<1>4. /\ e = [header |-> e.header, seq |-> e.seq, frames |-> e.frames]
      /\ e.header \in 0..Len(talks) /\ e.seq \in Nat
      /\ e.frames \in [0..FanoutPart!MaxSize - 1 -> FanoutPart!Packets \cup {None}]
  BY DEF Entry
<1>. QED
  BY <1>1, <1>2, <1>3, <1>4

\* What is kept, but for the frames.
LEMMA KeepsCount ==
  ASSUME AtHand, NEW h \in 0..Len(talks), NEW n \in Nat,
         FanoutPart!Keep([header |-> h, seq |-> n, frames |-> cache[FanoutPart!Module].frames])
  PROVE  /\ cache' \in [Modules -> Entry]
         /\ \A k \in Modules : k # FanoutPart!Module => cache'[k] = cache[k]
         /\ cache'[FanoutPart!Module].header = h /\ cache'[FanoutPart!Module].seq = n
         /\ cache'[FanoutPart!Module].frames = cache[FanoutPart!Module].frames
<1>1. PICK e : e = [header |-> h, seq |-> n, frames |-> cache[FanoutPart!Module].frames]
  OBVIOUS
<1>2. e \in Entry
  BY <1>1, EntryIs DEF Entry
<1>. QED
  BY <1>1, <1>2, KeepDoes

LEMMA KeepHeaderDoes ==
  ASSUME AtHand, FanoutPart!KeepHeader
  PROVE  /\ cache' \in [Modules -> Entry]
         /\ \A k \in Modules : k # FanoutPart!Module => cache'[k] = cache[k]
         /\ cache'[FanoutPart!Module].header = FanoutPart!Packet.talk /\ cache'[FanoutPart!Module].seq = 0
         /\ cache'[FanoutPart!Module].frames = cache[FanoutPart!Module].frames
<1>1. [FanoutPart!Cache EXCEPT !.header = FanoutPart!Packet.talk, !.seq = 0]
        = [header |-> FanoutPart!Packet.talk, seq |-> 0, frames |-> cache[FanoutPart!Module].frames]
  <2>1. PICK e : e = cache[FanoutPart!Module] /\ e = [header |-> e.header, seq |-> e.seq, frames |-> e.frames]
    BY EntryIs
  <2>2. PICK a : a = [e EXCEPT !.header = FanoutPart!Packet.talk]
    OBVIOUS
  <2>3. a = [header |-> FanoutPart!Packet.talk, seq |-> e.seq, frames |-> e.frames]
    BY <2>1, <2>2
  <2>4. [a EXCEPT !.seq = 0] = [header |-> FanoutPart!Packet.talk, seq |-> 0, frames |-> e.frames]
    BY <2>3
  <2>5. [e EXCEPT !.header = FanoutPart!Packet.talk, !.seq = 0] = [a EXCEPT !.seq = 0]
    BY <2>2
  <2>. QED
    BY <2>1, <2>4, <2>5 DEF FanoutPart!Cache
<1>2. FanoutPart!Packet.talk \in 0..Len(talks) /\ 0 \in Nat
  BY EntryIs DEF AtHand
<1>3. FanoutPart!Keep([header |-> FanoutPart!Packet.talk, seq |-> 0, frames |-> cache[FanoutPart!Module].frames])
  BY <1>1 DEF FanoutPart!KeepHeader
<1>. QED
  BY <1>2, <1>3, KeepsCount

LEMMA CountDoes ==
  ASSUME AtHand, NEW n \in Nat, FanoutPart!Keep([FanoutPart!Cache EXCEPT !.seq = FanoutPart!Cache.seq + n])
  PROVE  /\ cache' \in [Modules -> Entry]
         /\ \A k \in Modules : k # FanoutPart!Module => cache'[k] = cache[k]
         /\ cache'[FanoutPart!Module].header = cache[FanoutPart!Module].header
         /\ cache'[FanoutPart!Module].seq = cache[FanoutPart!Module].seq + n
         /\ cache'[FanoutPart!Module].frames = cache[FanoutPart!Module].frames
<1>1. [FanoutPart!Cache EXCEPT !.seq = FanoutPart!Cache.seq + n]
        = [header |-> cache[FanoutPart!Module].header, seq |-> cache[FanoutPart!Module].seq + n,
           frames |-> cache[FanoutPart!Module].frames]
  BY EntryIs DEF FanoutPart!Cache
<1>2. cache[FanoutPart!Module].header \in 0..Len(talks) /\ cache[FanoutPart!Module].seq + n \in Nat
  BY EntryIs
<1>3. FanoutPart!Keep([header |-> cache[FanoutPart!Module].header, seq |-> cache[FanoutPart!Module].seq + n,
             frames |-> cache[FanoutPart!Module].frames])
  BY <1>1
<1>. QED
  BY <1>2, <1>3, KeepsCount

LEMMA KeepFrameDoes ==
  ASSUME AtHand, NEW i \in 0..FanoutPart!MaxSize - 1, FanoutPart!KeepFrame(i)
  PROVE  /\ cache' \in [Modules -> Entry]
         /\ \A k \in Modules : k # FanoutPart!Module => cache'[k] = cache[k]
         /\ cache'[FanoutPart!Module].header = cache[FanoutPart!Module].header
         /\ \A k \in 0..FanoutPart!MaxSize - 1 :
              cache'[FanoutPart!Module].frames[k] = IF k = i THEN FanoutPart!Packet ELSE cache[FanoutPart!Module].frames[k]
<1>1. PICK f : f = [cache[FanoutPart!Module].frames EXCEPT ![i] = FanoutPart!Packet]
  OBVIOUS
<1>2. /\ f \in [0..FanoutPart!MaxSize - 1 -> FanoutPart!Packets \cup {None}]
      /\ \A k \in 0..FanoutPart!MaxSize - 1 : f[k] = IF k = i THEN FanoutPart!Packet ELSE cache[FanoutPart!Module].frames[k]
  BY <1>1, EntryIs DEF AtHand
<1>3. [FanoutPart!Cache EXCEPT !.frames[i] = FanoutPart!Packet]
        = [header |-> cache[FanoutPart!Module].header, seq |-> cache[FanoutPart!Module].seq, frames |-> f]
  BY <1>1, EntryIs DEF FanoutPart!Cache
<1>4. PICK e : e = [header |-> cache[FanoutPart!Module].header, seq |-> cache[FanoutPart!Module].seq, frames |-> f]
  OBVIOUS
<1>5. e \in Entry
  BY <1>2, <1>4, EntryIs DEF Entry
<1>6. FanoutPart!Keep(e)
  BY <1>3, <1>4 DEF FanoutPart!KeepFrame
<1>7. /\ cache' \in [Modules -> Entry] /\ cache'[FanoutPart!Module] = e
      /\ \A k \in Modules : k # FanoutPart!Module => cache'[k] = cache[k]
  BY <1>5, <1>6, KeepDoes
<1>8. cache'[FanoutPart!Module].header = cache[FanoutPart!Module].header /\ cache'[FanoutPart!Module].frames = f
  BY <1>4, <1>7
<1>. QED
  BY <1>2, <1>7, <1>8

LEMMA Alone ==
  ASSUME AtHand, protocol \notin {"mmdvm", "nxdn", "ysf"}
  PROVE  TheFramesSent = <<FanoutPart!Packet>> /\ \A k \in 0..FanoutPart!MaxSize - 1 : ~InGroup(k)
<1>1. FanoutPart!Size(protocol) = 1
  BY Sizes DEF AtHand
<1>. QED
  BY <1>1 DEF TheFramesSent, InGroup

LEMMA CacheStays ==
  ASSUME AtHand, UNCHANGED cache, protocol # "m17", ~(FanoutPart!KeepsHeader /\ FanoutPart!Packet.header),
         \A k \in 0..FanoutPart!MaxSize - 1 : ~InGroup(k)
  PROVE  CacheEffect
BY EntryIs DEF CacheEffect

LEMMA PlainDoes ==
  ASSUME AtHand, \/ protocol = "dextra" /\ FanoutPart!DExtra
                 \/ protocol = "urf" /\ FanoutPart!URF
  PROVE  CacheEffect /\ OutEffect
<1>1. protocol \in {"dextra", "urf"} /\ UNCHANGED cache /\ ~FanoutPart!KeepsHeader
  BY DEF FanoutPart!DExtra, FanoutPart!URF, FanoutPart!KeepsHeader
<1>2. CacheEffect
  BY <1>1, Alone, CacheStays
<1>3. TheHeaderSent = FanoutPart!Packet.talk /\ TheFramesSent = <<FanoutPart!Packet>>
  BY <1>1, Alone DEF TheHeaderSent
<1>4. CASE GoesOut
  <2>1. FanoutPart!SendWithCopy(FanoutPart!Kind(FanoutPart!Packet), FanoutPart!Packet.talk, <<FanoutPart!Packet>>, {})
    BY <1>1, <1>4 DEF FanoutPart!DExtra, FanoutPart!URF, FanoutPart!Send, GoesOut
  <2>. QED
    BY <1>2, <1>3, <1>4, <2>1, SendDoes DEF OutEffect
<1>5. CASE ~GoesOut
  <2>1. UNCHANGED out
    BY <1>1, <1>5 DEF FanoutPart!URF, GoesOut
  <2>. QED
    BY <1>2, <1>5, <2>1, EntryIs DEF OutEffect
<1>. QED
  BY <1>4, <1>5

LEMMA DPlusDoes ==
  ASSUME AtHand, protocol = "dplus", FanoutPart!DPlus
  PROVE  CacheEffect /\ OutEffect
<1>1. FanoutPart!KeepsHeader /\ TheHeaderSent = FanoutPart!Packet.talk /\ TheFramesSent = <<FanoutPart!Packet>> /\ GoesOut
  BY Alone DEF FanoutPart!KeepsHeader, TheHeaderSent, GoesOut
<1>2. \A k \in 0..FanoutPart!MaxSize - 1 : ~InGroup(k)
  BY Alone
<1>3. CASE FanoutPart!Packet.header
  <2>1. FanoutPart!SendWithCopy("header", FanoutPart!Packet.talk, <<FanoutPart!Packet>>, {}) /\ FanoutPart!KeepHeader
    BY <1>3 DEF FanoutPart!DPlus, FanoutPart!Send
  <2>2. FanoutPart!Kind(FanoutPart!Packet) = "header"
    BY <1>3 DEF FanoutPart!Kind
  <2>3. CacheEffect
    BY <1>1, <1>2, <1>3, <2>1, KeepHeaderDoes DEF CacheEffect
  <2>. QED
    BY <1>1, <2>1, <2>2, <2>3, SendDoes DEF OutEffect
<1>4. CASE ~FanoutPart!Packet.header
  <2>1. PICK copy : /\ FanoutPart!SendWithCopy(FanoutPart!Kind(FanoutPart!Packet), FanoutPart!Packet.talk, <<FanoutPart!Packet>>, copy)
                    /\ FanoutPart!Keep([FanoutPart!Cache EXCEPT !.seq = FanoutPart!Cache.seq + FanoutPart!Cardinality(FanoutPart!Listeners(FanoutPart!Module))])
    BY <1>4 DEF FanoutPart!DPlus
  <2>2. FanoutPart!Cardinality(FanoutPart!Listeners(FanoutPart!Module)) \in Nat
    <3>1. FanoutPart!Listeners(FanoutPart!Module) \subseteq Clients
      BY DEF FanoutPart!Listeners
    <3>2. Cardinality(FanoutPart!Listeners(FanoutPart!Module)) \in Nat
      BY <3>1, FanoutIs, FS_Subset, FS_CardinalityType
    <3>. QED
      BY <3>2 DEF FanoutPart!Cardinality, Cardinality
  <2>3. CacheEffect
    BY <1>1, <1>2, <1>4, <2>1, <2>2, CountDoes DEF CacheEffect
  <2>. QED
    BY <1>1, <2>1, <2>3, SendDoes DEF OutEffect
<1>. QED
  BY <1>3, <1>4

LEMMA CountingDoes ==
  ASSUME AtHand, \/ protocol = "dcs" /\ FanoutPart!DCS
                 \/ protocol = "p25" /\ FanoutPart!P25
                 \/ protocol = "m17" /\ FanoutPart!M17
  PROVE  CacheEffect /\ OutEffect
<1>1. protocol \in {"dcs", "p25", "m17"} /\ FanoutPart!KeepsHeader /\ TheFramesSent = <<FanoutPart!Packet>>
  BY Alone DEF FanoutPart!KeepsHeader
<1>2. \A k \in 0..FanoutPart!MaxSize - 1 : ~InGroup(k)
  BY <1>1, Alone
<1>3. CASE FanoutPart!Packet.header
  <2>1. FanoutPart!KeepHeader /\ UNCHANGED out
    BY <1>1, <1>3 DEF FanoutPart!DCS, FanoutPart!P25, FanoutPart!M17
  <2>2. CacheEffect
    BY <1>1, <1>2, <1>3, <2>1, KeepHeaderDoes DEF CacheEffect
  <2>3. ~GoesOut
    BY <1>1, <1>3 DEF GoesOut
  <2>. QED
    BY <2>1, <2>2, <2>3, EntryIs DEF OutEffect
<1>4. CASE ~FanoutPart!Packet.header
  <2>1. FanoutPart!Keep([FanoutPart!Cache EXCEPT !.seq = FanoutPart!Cache.seq + 1])
    BY <1>4 DEF FanoutPart!DCS, FanoutPart!P25, FanoutPart!M17
  <2>2. CacheEffect
    BY <1>1, <1>2, <1>4, <2>1, CountDoes DEF CacheEffect
  <2>3. TheHeaderSent = cache[FanoutPart!Module].header
    BY <1>1, <1>4 DEF TheHeaderSent
  <2>4. CASE GoesOut
    <3>1. FanoutPart!SendWithCopy(FanoutPart!Kind(FanoutPart!Packet), cache[FanoutPart!Module].header, <<FanoutPart!Packet>>, {})
      BY <1>1, <1>4, <2>4 DEF FanoutPart!DCS, FanoutPart!P25, FanoutPart!M17, FanoutPart!Send, FanoutPart!Cache, GoesOut
    <3>. QED
      BY <1>1, <2>2, <2>3, <2>4, <3>1, SendDoes DEF OutEffect
  <2>5. CASE ~GoesOut
    <3>1. UNCHANGED out
      BY <1>1, <1>4, <2>5 DEF FanoutPart!M17, FanoutPart!Cache, GoesOut
    <3>. QED
      BY <2>2, <2>5, <3>1, EntryIs DEF OutEffect
  <2>. QED
    BY <2>4, <2>5
<1>. QED
  BY <1>3, <1>4

LEMMA GroupDoes ==
  ASSUME AtHand, protocol \in {"mmdvm", "nxdn", "ysf"}, FanoutPart!Group
  PROVE  CacheEffect /\ OutEffect
<1>. DEFINE i == FanoutPart!Packet.pid % FanoutPart!Size(protocol)
<1>1. /\ FanoutPart!Size(protocol) \in {3, 4, 5} /\ FanoutPart!Size(protocol) <= FanoutPart!MaxSize /\ FanoutPart!KeepsHeader
      /\ i \in 0..FanoutPart!Size(protocol) - 1 /\ i \in 0..FanoutPart!MaxSize - 1
  <2>1. FanoutPart!Size(protocol) \in {3, 4, 5} /\ FanoutPart!MaxSize = 5
    BY DEF FanoutPart!Size, FanoutPart!MaxSize
  <2>2. FanoutPart!Packet.pid \in Nat
    BY DEF AtHand, FanoutPart!Packets
  <2>. QED
    BY <2>1, <2>2 DEF FanoutPart!KeepsHeader
<1>2. CASE FanoutPart!Packet.header /\ FanoutPart!KeepHeader /\ FanoutPart!Send("header", FanoutPart!Packet.talk, <<FanoutPart!Packet>>)
  <2>1. FanoutPart!SendWithCopy("header", FanoutPart!Packet.talk, <<FanoutPart!Packet>>, {})
    BY <1>2 DEF FanoutPart!Send
  <2>2. FanoutPart!Kind(FanoutPart!Packet) = "header" /\ TheHeaderSent = FanoutPart!Packet.talk /\ GoesOut
    BY <1>1, <1>2 DEF FanoutPart!Kind, TheHeaderSent, GoesOut
  <2>3. TheFramesSent = <<FanoutPart!Packet>>
    BY <2>2 DEF TheFramesSent
  <2>4. CacheEffect
    BY <1>1, <1>2, KeepHeaderDoes DEF CacheEffect, InGroup
  <2>. QED
    BY <2>1, <2>2, <2>3, <2>4, SendDoes DEF OutEffect
<1>3. CASE FanoutPart!Packet.last /\ FanoutPart!Send("last", FanoutPart!Cache.header, <<FanoutPart!Packet>>) /\ UNCHANGED cache
  <2>1. FanoutPart!SendWithCopy("last", cache[FanoutPart!Module].header, <<FanoutPart!Packet>>, {})
    BY <1>3 DEF FanoutPart!Send, FanoutPart!Cache
  <2>2. ~FanoutPart!Packet.header
    BY <1>3 DEF AtHand
  <2>3. FanoutPart!Kind(FanoutPart!Packet) = "last" /\ TheHeaderSent = cache[FanoutPart!Module].header /\ GoesOut
    BY <1>3, <2>2 DEF FanoutPart!Kind, TheHeaderSent, GoesOut
  <2>4. TheFramesSent = <<FanoutPart!Packet>>
    BY <2>3 DEF TheFramesSent
  <2>5. CacheEffect
    BY <1>3, <2>2, CacheStays DEF InGroup
  <2>. QED
    BY <2>1, <2>3, <2>4, <2>5, SendDoes DEF OutEffect
<1>4. CASE ~FanoutPart!Packet.header /\ ~FanoutPart!Packet.last /\ FanoutPart!KeepFrame(i)
  <2>1. \A k \in 0..FanoutPart!MaxSize - 1 : InGroup(k) <=> k = i
    BY <1>1, <1>4 DEF InGroup
  <2>2. CacheEffect
    BY <1>1, <1>4, <2>1, KeepFrameDoes DEF CacheEffect
  <2>3. CASE i < FanoutPart!Size(protocol) - 1 /\ UNCHANGED out
    <3>1. ~GoesOut
      BY <1>1, <1>4, <2>3 DEF GoesOut
    <3>. QED
      BY <2>2, <2>3, <3>1, EntryIs DEF OutEffect
  <2>4. CASE /\ i = FanoutPart!Size(protocol) - 1
             /\ FanoutPart!Send("voice", FanoutPart!Cache.header,
                      [k \in 1..FanoutPart!Size(protocol) |-> IF k = FanoutPart!Size(protocol) THEN FanoutPart!Packet
                                                                           ELSE FanoutPart!Cache.frames[k - 1]])
    <3>1. FanoutPart!Kind(FanoutPart!Packet) = "voice" /\ TheHeaderSent = cache[FanoutPart!Module].header /\ GoesOut
      BY <1>1, <1>4, <2>4 DEF FanoutPart!Kind, TheHeaderSent, GoesOut
    <3>2. TheFramesSent = [k \in 1..FanoutPart!Size(protocol) |-> IF k = FanoutPart!Size(protocol) THEN FanoutPart!Packet
                                                        ELSE cache[FanoutPart!Module].frames[k - 1]]
      BY <1>1, <3>1 DEF TheFramesSent
    <3>3. FanoutPart!SendWithCopy("voice", cache[FanoutPart!Module].header, TheFramesSent, {})
      BY <2>4, <3>2 DEF FanoutPart!Send, FanoutPart!Cache
    <3>. QED
      BY <2>2, <3>1, <3>3, SendDoes DEF OutEffect
  <2>. QED
    BY <1>1, <1>4, <2>3, <2>4 DEF FanoutPart!Group
<1>. QED
  BY <1>2, <1>3, <1>4 DEF FanoutPart!Group

\* What goes out ends with the packet.
LEMMA FramesSent ==
  ASSUME AtHand
  PROVE  /\ TheFramesSent \in Seq(FanoutPart!Packets \cup {None})
         /\ TheFramesSent[Len(TheFramesSent)] = FanoutPart!Packet
<1>1. FanoutPart!Packet \in FanoutPart!Packets \cup {None}
  BY DEF AtHand
<1>2. CASE FanoutPart!Size(protocol) > 1 /\ FanoutPart!Kind(FanoutPart!Packet) = "voice"
  <2>1. PICK n \in {3, 4, 5} : n = FanoutPart!Size(protocol) /\ n <= FanoutPart!MaxSize
    BY <1>2, Sizes DEF AtHand
  <2>2. TheFramesSent = [k \in 1..n |-> IF k = n THEN FanoutPart!Packet ELSE cache[FanoutPart!Module].frames[k - 1]]
    BY <1>2, <2>1 DEF TheFramesSent
  <2>3. \A k \in 1..n : k # n => cache[FanoutPart!Module].frames[k - 1] \in FanoutPart!Packets \cup {None}
    <3>1. \A k \in 1..n : k - 1 \in 0..FanoutPart!MaxSize - 1
      BY <2>1 DEF FanoutPart!MaxSize
    <3>. QED
      BY <3>1, EntryIs
  <2>4. TheFramesSent \in [1..n -> FanoutPart!Packets \cup {None}] /\ TheFramesSent[n] = FanoutPart!Packet
    BY <1>1, <2>1, <2>2, <2>3
  <2>5. TheFramesSent \in Seq(FanoutPart!Packets \cup {None}) /\ Len(TheFramesSent) = n
    BY <2>1, <2>4
  <2>. QED
    BY <2>4, <2>5
<1>3. CASE ~(FanoutPart!Size(protocol) > 1 /\ FanoutPart!Kind(FanoutPart!Packet) = "voice")
  <2>1. TheFramesSent = <<FanoutPart!Packet>>
    BY <1>3 DEF TheFramesSent
  <2>. QED
    BY <1>1, <2>1
<1>. QED
  BY <1>2, <1>3

\* What HandleQueue does to the watched protocol, whichever it is.
LEMMA HandleDoes ==
  ASSUME FanoutPart!TypeOK, FanoutPart!HandleQueue, \A p \in FanoutPart!ToSet(queue) : p.talk <= Len(talks),
         FanoutPart!Packet.header => ~FanoutPart!Packet.last
  PROVE  /\ AtHand /\ queue # <<>> /\ queue' = Tail(queue)
         /\ UNCHANGED <<protocol, linked, talks, now, codec, stream>>
         /\ CacheEffect /\ OutEffect
         /\ FanoutPart!TypeOK'
<1>1. /\ queue # <<>> /\ queue' = Tail(queue)
      /\ UNCHANGED <<protocol, linked, talks, now, codec, stream>>
  BY DEF FanoutPart!HandleQueue, FanoutPart!sourceVars
<1>2. queue \in Seq(FanoutPart!Packets)
  BY DEF FanoutPart!TypeOK
<1>3. FanoutPart!Packet \in FanoutPart!Packets /\ FanoutPart!Packet \in FanoutPart!ToSet(queue) /\ FanoutPart!Packet.talk \in 1..Len(talks)
  <2>1. FanoutPart!Packet \in FanoutPart!Packets /\ FanoutPart!Packet \in FanoutPart!ToSet(queue)
    BY <1>1, <1>2, LineTail DEF FanoutPart!Packet
  <2>2. FanoutPart!Packet.talk \in Nat \ {0} /\ FanoutPart!Packet.talk <= Len(talks) /\ Len(talks) \in Nat
    BY <2>1 DEF FanoutPart!Packets, FanoutPart!TypeOK
  <2>. QED
    BY <2>1, <2>2
<1>4. FanoutPart!Module \in Modules
  <2>1. talks[FanoutPart!Packet.talk] \in [by : Clients \cup {None}, module : Modules, local : BOOLEAN]
    <3>1. PICK R : R = [by : Clients \cup {None}, module : Modules, local : BOOLEAN]
      OBVIOUS
    <3>2. talks \in Seq(R)
      BY <3>1 DEF FanoutPart!TypeOK
    <3>3. \A t \in 1..Len(talks) : talks[t] \in R
      BY <3>2
    <3>. QED
      BY <1>3, <3>1, <3>3
  <2>. QED
    BY <2>1 DEF FanoutPart!Module
<1>5. AtHand
  BY <1>3, <1>4 DEF AtHand
<1>6. CacheEffect /\ OutEffect
  BY <1>5, PlainDoes, DPlusDoes, CountingDoes, GroupDoes
     DEF FanoutPart!HandleQueue, FanoutPart!MMDVM, FanoutPart!NXDN, FanoutPart!YSF
<1>7. queue' \in Seq(FanoutPart!Packets)
  BY <1>1, <1>2, LineTail
<1>8. cache' \in [Modules -> [header : 0..Len(talks'), seq : Nat,
                              frames : [0..FanoutPart!MaxSize - 1 -> FanoutPart!Packets \cup {None}]]]
  BY <1>1, <1>6 DEF CacheEffect, Entry
<1>9. /\ out'[FanoutPart!Module].kind \in {"nothing", "header", "voice", "last"}
      /\ out'[FanoutPart!Module].header \in 0..Len(talks)
      /\ out'[FanoutPart!Module].frames \in Seq(FanoutPart!Packets \cup {None})
      /\ out'[FanoutPart!Module].kind # "nothing" =>
           out'[FanoutPart!Module].frames[Len(out'[FanoutPart!Module].frames)] \in FanoutPart!Packets
  <2>1. CASE ~GoesOut
    BY <1>4, <1>6, <2>1 DEF OutEffect, FanoutPart!TypeOK
  <2>2. CASE GoesOut
    <3>1. FanoutPart!Kind(FanoutPart!Packet) \in {"header", "voice", "last"}
      BY DEF FanoutPart!Kind
    <3>2. TheHeaderSent \in 0..Len(talks)
      BY <1>5, EntryIs DEF TheHeaderSent, AtHand
    <3>3. TheFramesSent \in Seq(FanoutPart!Packets \cup {None}) /\ TheFramesSent[Len(TheFramesSent)] \in FanoutPart!Packets
      BY <1>5, FramesSent DEF AtHand
    <3>. QED
      BY <1>6, <2>2, <3>1, <3>2, <3>3 DEF OutEffect
  <2>. QED
    BY <2>1, <2>2
<1>10. \A n \in Modules :
         /\ out'[n].kind \in {"nothing", "header", "voice", "last"}
         /\ out'[n].header \in 0..Len(talks')
         /\ out'[n].frames \in Seq(FanoutPart!Packets \cup {None})
         /\ out'[n].kind # "nothing" => out'[n].frames[Len(out'[n].frames)] \in FanoutPart!Packets
  <2>1. SUFFICES ASSUME NEW n \in Modules
                 PROVE  /\ out'[n].kind \in {"nothing", "header", "voice", "last"}
                        /\ out'[n].header \in 0..Len(talks)
                        /\ out'[n].frames \in Seq(FanoutPart!Packets \cup {None})
                        /\ out'[n].kind # "nothing" => out'[n].frames[Len(out'[n].frames)] \in FanoutPart!Packets
    BY <1>1
  <2>2. CASE n = FanoutPart!Module
    BY <1>9, <2>2
  <2>3. CASE n # FanoutPart!Module
    BY <1>6, <2>3 DEF OutEffect, FanoutPart!TypeOK
  <2>. QED
    BY <2>2, <2>3
<1>11. DOMAIN out' = Modules
  BY <1>6 DEF OutEffect
<1>12. FanoutPart!TypeOK'
  BY <1>1, <1>7, <1>8, <1>10, <1>11 DEF FanoutPart!TypeOK, FanoutPart!Packets
<1>. QED
  BY <1>1, <1>5, <1>6, <1>12

-----------------------------------------------------------------------------
(***************************************************************************)
(* What is on its way to the protocol, and the account of a module that a  *)
(* step does not touch.                                                    *)
(***************************************************************************)

\* The invariant, but for what it says of what has gone out.
Ready == FanoutPart!TypeOK /\ FanoutPart!LineUp /\ \A m \in Modules : FanoutPart!Account(m)

LEMMA WayIs ==
  ASSUME FanoutPart!TypeOK, NEW m \in Modules
  PROVE  /\ FanoutPart!ToSet(queue) \subseteq FanoutPart!Packets
         /\ FanoutPart!Way(m) = FanoutPart!InQueue(m) \cup FanoutPart!ToSet(stream[m]) \cup FanoutPart!ToSet(codec[m])
         /\ FanoutPart!InQueue(m) = {p \in FanoutPart!ToSet(queue) : FanoutPart!ModuleOf(p) = m}
         /\ FanoutPart!Way(m) \subseteq FanoutPart!Packets
<1>1. queue \in Seq(FanoutPart!Packets) /\ stream[m] \in Seq(FanoutPart!Packets) /\ codec[m] \in Seq(FanoutPart!Packets)
  BY DEF FanoutPart!TypeOK
<1>2. \A s \in Seq(FanoutPart!Packets) : FanoutPart!ToSet(s) \subseteq FanoutPart!Packets
  BY DEF FanoutPart!ToSet
<1>. QED
  BY <1>1, <1>2 DEF FanoutPart!Way, FanoutPart!InQueue

LEMMA PacketIs ==
  ASSUME NEW p \in FanoutPart!Packets
  PROVE  /\ p.talk \in Nat \ {0} /\ p.pid \in Nat /\ p.header \in BOOLEAN /\ p.last \in BOOLEAN
         /\ p = [talk |-> p.talk, header |-> p.header, pid |-> p.pid, last |-> p.last]
BY DEF FanoutPart!Packets

LEMMA NowIs ==
  ASSUME FanoutPart!TypeOK, NEW m \in Modules
  PROVE  /\ Len(talks) \in Nat
         /\ now[m].talk \in 0..Len(talks) /\ now[m].pid \in Nat /\ now[m].over \in BOOLEAN
         /\ cache[m].header \in 0..Len(talks) /\ cache[m].seq \in Nat
         /\ cache[m].frames \in [0..FanoutPart!MaxSize - 1 -> FanoutPart!Packets \cup {None}]
         /\ out[m].header \in 0..Len(talks)
         /\ out[m].kind # "nothing" => FanoutPart!Newest(out[m]) \in FanoutPart!Packets
<1>1. Len(talks) \in Nat
  BY DEF FanoutPart!TypeOK
<1>2. now[m] \in [talk : 0..Len(talks), pid : Nat, over : BOOLEAN]
  BY DEF FanoutPart!TypeOK
<1>3. cache[m] \in [header : 0..Len(talks), seq : Nat,
                    frames : [0..FanoutPart!MaxSize - 1 -> FanoutPart!Packets \cup {None}]]
  BY DEF FanoutPart!TypeOK
<1>4. out[m].header \in 0..Len(talks) /\ (out[m].kind # "nothing" => FanoutPart!Newest(out[m]) \in FanoutPart!Packets)
  BY DEF FanoutPart!TypeOK, FanoutPart!Newest
<1>5. now[m].talk \in 0..Len(talks) /\ now[m].pid \in Nat /\ now[m].over \in BOOLEAN
  BY <1>2
<1>6. /\ cache[m].header \in 0..Len(talks) /\ cache[m].seq \in Nat
      /\ cache[m].frames \in [0..FanoutPart!MaxSize - 1 -> FanoutPart!Packets \cup {None}]
  BY <1>3
<1>. QED
  BY <1>1, <1>4, <1>5, <1>6

\* Every packet is of a transmission there has been, whose module stays.
LEMMA TalkStays ==
  ASSUME Ready, MoreTalks
  PROVE  /\ \A p \in FanoutPart!ToSet(queue) : talks'[p.talk] = talks[p.talk]
         /\ \A m \in Modules : \A p \in FanoutPart!Way(m) :
              p \in FanoutPart!Packets /\ p.talk \in 1..Len(talks) /\ talks'[p.talk] = talks[p.talk]
         /\ \A m \in Modules : FanoutPart!InQueue(m)' = {p \in FanoutPart!ToSet(queue') : talks'[p.talk].module = m}
<1>1. \A t \in 1..Len(talks) : talks'[t] = talks[t]
  BY DEF MoreTalks
<1>2. Len(talks) \in Nat
  BY DEF Ready, FanoutPart!TypeOK
<1>3. ASSUME NEW p \in FanoutPart!ToSet(queue) PROVE talks'[p.talk] = talks[p.talk]
  <2>1. p \in FanoutPart!Packets /\ p.talk <= Len(talks)
    <3>1. queue \in Seq(FanoutPart!Packets)
      BY DEF Ready, FanoutPart!TypeOK
    <3>. QED
      BY <3>1 DEF Ready, FanoutPart!LineUp, FanoutPart!ToSet
  <2>2. p.talk \in 1..Len(talks)
    BY <1>2, <2>1, PacketIs
  <2>. QED
    BY <1>1, <2>2
<1>4. ASSUME NEW m \in Modules, NEW p \in FanoutPart!Way(m)
      PROVE  p \in FanoutPart!Packets /\ p.talk \in 1..Len(talks) /\ talks'[p.talk] = talks[p.talk]
  <2>1. p \in FanoutPart!Packets /\ p.talk <= Len(talks)
    BY WayIs DEF Ready, FanoutPart!Account, FanoutPart!Origins
  <2>2. p.talk \in 1..Len(talks)
    BY <1>2, <2>1, PacketIs
  <2>. QED
    BY <1>1, <2>1, <2>2
<1>5. \A m \in Modules : FanoutPart!InQueue(m)' = {p \in FanoutPart!ToSet(queue') : talks'[p.talk].module = m}
  BY DEF FanoutPart!InQueue, FanoutPart!ModuleOf, FanoutPart!ToSet
<1>. QED
  BY <1>3, <1>4, <1>5

LEMMA QueueStays ==
  ASSUME Ready, MoreTalks, UNCHANGED queue
  PROVE  /\ \A m \in Modules : FanoutPart!InQueue(m)' = FanoutPart!InQueue(m)
         /\ FanoutPart!OrderedByModule(queue)'
         /\ \A p \in FanoutPart!ToSet(queue)' : p.talk <= Len(talks')
<1>1. \A m \in Modules : FanoutPart!InQueue(m)' = FanoutPart!InQueue(m)
  BY TalkStays DEF FanoutPart!InQueue, FanoutPart!ModuleOf
<1>2. FanoutPart!OrderedByModule(queue)'
  <2>1. \A i \in DOMAIN queue : talks'[queue[i].talk] = talks[queue[i].talk]
    BY TalkStays DEF FanoutPart!ToSet
  <2>2. FanoutPart!OrderedByModule(queue)
    BY DEF Ready, FanoutPart!LineUp
  <2>. QED
    BY <2>1, <2>2 DEF FanoutPart!OrderedByModule, FanoutPart!ModuleOf, FanoutPart!Precedes
<1>3. \A p \in FanoutPart!ToSet(queue)' : p.talk <= Len(talks')
  <2>1. Len(talks) \in Nat /\ Len(talks') \in Nat /\ Len(talks) <= Len(talks')
    BY DEF Ready, FanoutPart!TypeOK, MoreTalks
  <2>2. ASSUME NEW p \in FanoutPart!ToSet(queue) PROVE p.talk <= Len(talks')
    <3>1. p.talk <= Len(talks) /\ p.talk \in Nat
      <4>1. queue \in Seq(FanoutPart!Packets)
        BY DEF Ready, FanoutPart!TypeOK
      <4>2. p \in FanoutPart!Packets
        BY <4>1 DEF FanoutPart!ToSet
      <4>. QED
        BY <4>2, PacketIs DEF Ready, FanoutPart!LineUp
    <3>. QED
      BY <2>1, <3>1
  <2>. QED
    BY <2>2 DEF FanoutPart!ToSet
<1>. QED
  BY <1>1, <1>2, <1>3

LEMMA LineStays ==
  ASSUME Ready, NEW m \in Modules, FanoutPart!InQueue(m)' = FanoutPart!InQueue(m),
         stream'[m] = stream[m], codec'[m] = codec[m]
  PROVE  FanoutPart!Line(m)' /\ FanoutPart!Way(m)' = FanoutPart!Way(m)
<1>1. FanoutPart!Line(m)
  BY DEF Ready, FanoutPart!LineUp
<1>2. FanoutPart!ToSet(stream[m])' = FanoutPart!ToSet(stream[m]) /\ FanoutPart!ToSet(codec[m])' = FanoutPart!ToSet(codec[m])
  BY DEF FanoutPart!ToSet
<1>3. FanoutPart!Ordered(stream[m])' /\ FanoutPart!Ordered(codec[m])'
  BY <1>1 DEF FanoutPart!Line, FanoutPart!Ordered, FanoutPart!Precedes
<1>4. FanoutPart!Way(m)' = FanoutPart!Way(m)
  BY <1>2 DEF FanoutPart!Way
<1>. QED
  BY <1>1, <1>2, <1>3, <1>4 DEF FanoutPart!Line, FanoutPart!AllBefore, FanoutPart!Precedes

\* What is said of a module depends on its transmissions only as far as they are
\* known, and these stay.
LEMMA AccountStays ==
  ASSUME Ready, FanoutPart!TypeOK', MoreTalks, UNCHANGED protocol, NEW m \in Modules,
         now'[m] = now[m], cache'[m] = cache[m], out'[m] = out[m], codec'[m] = codec[m],
         FanoutPart!Way(m)' = FanoutPart!Way(m)
  PROVE  FanoutPart!Account(m)'
<1>1. /\ FanoutPart!Account(m) /\ FanoutPart!TypeOK /\ Len(talks) \in Nat /\ Len(talks') \in Nat
      /\ Len(talks) <= Len(talks')
  <2>1. FanoutPart!Account(m) /\ FanoutPart!TypeOK
    BY DEF Ready
  <2>2. Len(talks) \in Nat
    BY <2>1, NowIs
  <2>3. Len(talks') \in Nat
    BY DEF FanoutPart!TypeOK
  <2>. QED
    BY <2>1, <2>2, <2>3 DEF MoreTalks
<1>2. \A t \in 1..Len(talks) : talks'[t] = talks[t]
  BY DEF MoreTalks
<1>3. \A p \in FanoutPart!Way(m) : p \in FanoutPart!Packets /\ p.talk \in 1..Len(talks) /\ talks'[p.talk] = talks[p.talk]
  BY TalkStays
<1>4. FanoutPart!Open(m)' <=> FanoutPart!Open(m)
  BY DEF FanoutPart!Open
<1>5. FanoutPart!Open(m) => now[m].talk \in 1..Len(talks) /\ talks'[now[m].talk] = talks[now[m].talk]
  <2>1. FanoutPart!Open(m) => now[m].talk \in 1..Len(talks)
    BY <1>1, NowIs DEF FanoutPart!Open
  <2>. QED
    BY <1>2, <2>1
<1>6. FanoutPart!Coming(m)' = FanoutPart!Coming(m)
  BY <1>4 DEF FanoutPart!Coming
<1>7. FanoutPart!Origins(m)'
  <2>1. FanoutPart!Origins(m)
    BY <1>1 DEF FanoutPart!Account
  <2>2. \A p \in FanoutPart!Way(m) : p.talk <= Len(talks') /\ FanoutPart!ModuleOf(p)' = m
    BY <1>1, <1>3, <2>1 DEF FanoutPart!Origins, FanoutPart!ModuleOf
  <2>3. \A p \in FanoutPart!ToSet(codec[m]) : p \in FanoutPart!Way(m)
    BY DEF FanoutPart!Way
  <2>4. \A p \in FanoutPart!ToSet(codec'[m]) : m \in Transcoded /\ ~p.header /\ talks'[p.talk].local
    BY <1>3, <2>1, <2>3 DEF FanoutPart!Origins
  <2>5. FanoutPart!Open(m) => talks'[now'[m].talk].module = m
    BY <1>5, <2>1 DEF FanoutPart!Origins
  <2>6. \A p \in FanoutPart!Way(m) : FanoutPart!Past(m, p)' <=> FanoutPart!Past(m, p)
    BY DEF FanoutPart!Past
  <2>7. \A p \in FanoutPart!Way(m) :
          /\ p.header => p.pid = 0 /\ ~p.last
          /\ FanoutPart!Open(m)' => FanoutPart!Past(m, p)'
          /\ m \in Prompt => p.talk = now'[m].talk
    BY <1>4, <2>1, <2>6 DEF FanoutPart!Origins
  <2>8. now'[m].over => FanoutPart!Open(m)'
    BY <1>4, <2>1 DEF FanoutPart!Origins
  <2>9. FanoutPart!ToSet(codec[m])' = FanoutPart!ToSet(codec'[m])
    BY DEF FanoutPart!ToSet
  <2>10. \A p \in FanoutPart!Way(m)' :
           /\ p.talk <= Len(talks') /\ FanoutPart!ModuleOf(p)' = m
           /\ p.header => p.pid = 0 /\ ~p.last
           /\ FanoutPart!Open(m)' => FanoutPart!Past(m, p)'
           /\ m \in Prompt => p.talk = now'[m].talk
    BY <2>2, <2>7
  <2>11. FanoutPart!Open(m)' => talks'[now'[m].talk].module = m
    BY <1>4, <2>5
  <2>12. \A p \in FanoutPart!ToSet(codec[m])' : m \in Transcoded /\ ~p.header /\ talks'[p.talk].local
    BY <2>4, <2>9
  <2>. QED
    BY <2>8, <2>10, <2>11, <2>12 DEF FanoutPart!Origins
<1>8. FanoutPart!HeaderKept(m)'
  <2>1. FanoutPart!HeaderKept(m)
    BY <1>1 DEF FanoutPart!Account
  <2>2. \A t : FanoutPart!Announced(m, t)' <=> FanoutPart!Announced(m, t)
    BY DEF FanoutPart!Announced
  <2>. QED
    BY <1>4, <2>1, <2>2 DEF FanoutPart!HeaderKept, FanoutPart!Announced, FanoutPart!KeepsHeader
<1>9. FanoutPart!Sent(m)'
  <2>1. FanoutPart!Sent(m)
    BY <1>1 DEF FanoutPart!Account
  <2>2. out[m].kind # "nothing" => FanoutPart!Newest(out[m]).talk <= Len(talks')
    BY <1>1, <2>1, NowIs, PacketIs DEF FanoutPart!Sent
  <2>. QED
    BY <1>4, <2>1, <2>2 DEF FanoutPart!Sent, FanoutPart!Newest, FanoutPart!Past, FanoutPart!Precedes, FanoutPart!Completes, FanoutPart!Step, FanoutPart!Size
<1>10. ASSUME m \notin Transcoded PROVE FanoutPart!Unbroken(m)'
  <2>1. FanoutPart!Unbroken(m)
    BY <1>1, <1>10 DEF FanoutPart!Account
  <2>2. FanoutPart!Gapless(m)'
    BY <1>6, <2>1 DEF FanoutPart!Unbroken, FanoutPart!Gapless, FanoutPart!Frame
  <2>3. FanoutPart!GroupKept(m)'
    <3>1. FanoutPart!GroupKept(m) /\ FanoutPart!Size(protocol)' = FanoutPart!Size(protocol)
      BY <2>1 DEF FanoutPart!Unbroken, FanoutPart!Size
    <3>2. \A k \in 0..FanoutPart!Size(protocol) - 1 :
            cache[m].frames[k] # None => cache[m].frames[k].talk <= Len(talks')
      <4>1. SUFFICES ASSUME NEW k \in 0..FanoutPart!Size(protocol) - 1, cache[m].frames[k] # None
                     PROVE  cache[m].frames[k].talk <= Len(talks')
        OBVIOUS
      <4>2. k \in 0..FanoutPart!MaxSize - 1
        BY <1>1, Sizes DEF FanoutPart!MaxSize
      <4>3. cache[m].frames[k] \in FanoutPart!Packets
        BY <1>1, <4>1, <4>2, NowIs
      <4>. QED
        BY <1>1, <3>1, <4>1, <4>3, PacketIs DEF FanoutPart!GroupKept
    <3>. QED
      BY <1>4, <1>6, <3>1, <3>2 DEF FanoutPart!GroupKept, FanoutPart!Frame, FanoutPart!Past, FanoutPart!Precedes
  <2>4. protocol' = "m17" => FanoutPart!Counted(m)'
    BY <1>6, <2>1 DEF FanoutPart!Unbroken, FanoutPart!Counted
  <2>5. FanoutPart!NoneLeftOut(m)'
    BY <1>6, <2>1 DEF FanoutPart!Unbroken, FanoutPart!NoneLeftOut, FanoutPart!Newest, FanoutPart!Completes, FanoutPart!Step, FanoutPart!Size, FanoutPart!Frame
  <2>6. FanoutPart!EndComes(m)'
    <3>1. now[m].over => talks'[now[m].talk] = talks[now[m].talk]
      BY <1>1, <1>5 DEF FanoutPart!Account, FanoutPart!Origins
    <3>. QED
      BY <2>1, <3>1 DEF FanoutPart!Unbroken, FanoutPart!EndComes, FanoutPart!Newest
  <2>. QED
    BY <2>2, <2>3, <2>4, <2>5, <2>6 DEF FanoutPart!Unbroken
<1>. QED
  BY <1>7, <1>8, <1>9, <1>10 DEF FanoutPart!Account

LEMMA RestStays ==
  ASSUME Ready, FanoutPart!TypeOK', MoreTalks, UNCHANGED protocol, NEW m \in Modules,
         FanoutPart!InQueue(m)' = FanoutPart!InQueue(m), SameAt(m)
  PROVE  FanoutPart!Line(m)' /\ FanoutPart!Account(m)'
BY LineStays, AccountStays DEF SameAt

\* Behind the codec stream there is nothing where there is no transcoder, and
\* where nothing stays under way for long there is only the transmission that is on.
LEMMA CodecHolds ==
  ASSUME Ready, NEW m \in Modules
  PROVE  /\ \A p \in FanoutPart!ToSet(codec[m]) :
              m \in Transcoded /\ m \in Prompt /\ ~p.header /\ talks[p.talk].local
         /\ m \in Prompt => \A p \in FanoutPart!Way(m) : p.talk = now[m].talk
         /\ m \in Prompt /\ ~FanoutPart!Open(m) => FanoutPart!Way(m) = {}
<1>1. FanoutPart!Origins(m)
  BY DEF Ready, FanoutPart!Account
<1>2. m \in Prompt => \A p \in FanoutPart!Way(m) : p.talk = now[m].talk
  BY <1>1 DEF FanoutPart!Origins
<1>3. \A p \in FanoutPart!Way(m) : p.talk # 0
  BY WayIs, PacketIs DEF Ready
<1>4. m \in Prompt /\ ~FanoutPart!Open(m) => FanoutPart!Way(m) = {}
  BY <1>2, <1>3 DEF FanoutPart!Open
<1>5. m \in Transcoded => m \in Prompt
  BY FanoutIs
<1>. QED
  BY <1>1, <1>2, <1>4, <1>5 DEF FanoutPart!Origins

LEMMA OpenKeeps ==
  ASSUME Ready, NEW m \in Modules, NEW c \in Clients \cup {None}, FanoutPart!OpenStream(m, c)
  PROVE  Ready' /\ MoreTalks /\ UNCHANGED <<protocol, out>>
<1>. DEFINE t == Len(talks) + 1
<1>1. /\ FanoutPart!TypeOK' /\ MoreTalks /\ UNCHANGED <<protocol, queue, codec, cache, out>>
      /\ \A n \in Modules : n # m => SameAt(n)
      /\ ~FanoutPart!Open(m) /\ Len(talks') = t /\ talks'[t].module = m
      /\ now'[m].talk = t /\ now'[m].pid = 0 /\ now'[m].over = FALSE
      /\ stream'[m] = Append(stream[m], TheHeader) /\ TheHeader \in FanoutPart!Packets
  BY OpenDoes DEF Ready
<1>2. /\ TheHeader.talk = t /\ TheHeader.header = TRUE /\ TheHeader.pid = 0
      /\ TheHeader.last = FALSE
  BY DEF TheHeader
<1>3. /\ FanoutPart!TypeOK /\ Len(talks) \in Nat /\ FanoutPart!Account(m) /\ FanoutPart!Line(m)
      /\ cache[m].header \in 0..Len(talks) /\ out[m].header \in 0..Len(talks)
  BY NowIs DEF Ready, FanoutPart!LineUp
<1>4. \A p \in FanoutPart!Way(m) : p \in FanoutPart!Packets /\ p.talk \in 1..Len(talks) /\ p.talk < t
  BY <1>1, <1>3, TalkStays
<1>5. FanoutPart!ToSet(codec[m]) = {} /\ (m \in Prompt => FanoutPart!Way(m) = {})
  BY <1>1, <1>3, CodecHolds, WayIs
<1>6. \A n \in Modules : FanoutPart!InQueue(n)' = FanoutPart!InQueue(n)
  BY <1>1, QueueStays
<1>7. \A n \in Modules : n # m => FanoutPart!Line(n)' /\ FanoutPart!Account(n)'
  BY <1>1, <1>6, RestStays
<1>8. /\ FanoutPart!ToSet(stream'[m]) = FanoutPart!ToSet(stream[m]) \cup {TheHeader}
      /\ FanoutPart!Ordered(stream'[m])
  <2>1. stream[m] \in Seq(FanoutPart!Packets) /\ FanoutPart!Ordered(stream[m])
    BY <1>3 DEF FanoutPart!TypeOK, FanoutPart!Line
  <2>2. \A p \in FanoutPart!ToSet(stream[m]) : FanoutPart!Precedes(p, TheHeader)
    BY <1>2, <1>3, <1>4, WayIs DEF FanoutPart!Precedes
  <2>. QED
    BY <1>1, <2>1, <2>2, LineAppend
<1>9. FanoutPart!ToSet(codec'[m]) = {} /\ codec'[m] = codec[m]
  BY <1>1, <1>5
<1>10. FanoutPart!Way(m)' = FanoutPart!Way(m) \cup {TheHeader}
  BY <1>3, <1>5, <1>6, <1>8, <1>9, WayIs DEF FanoutPart!Way, FanoutPart!ToSet
<1>11. FanoutPart!Line(m)'
  <2>1. FanoutPart!AllBefore(FanoutPart!InQueue(m), FanoutPart!ToSet(stream'[m]))
    BY <1>2, <1>3, <1>4, <1>8, WayIs DEF FanoutPart!AllBefore, FanoutPart!Precedes, FanoutPart!Line
  <2>2. FanoutPart!ToSet(stream[m])' = FanoutPart!ToSet(stream'[m]) /\ FanoutPart!ToSet(codec[m])' = {}
    BY <1>9 DEF FanoutPart!ToSet
  <2>3. FanoutPart!Ordered(stream[m])' /\ FanoutPart!Ordered(codec[m])'
    <3>1. FanoutPart!Ordered(codec[m])
      BY <1>3 DEF FanoutPart!Line
    <3>. QED
      BY <1>8, <1>9, <3>1 DEF FanoutPart!Ordered, FanoutPart!Precedes
  <2>4. FanoutPart!AllBefore(FanoutPart!InQueue(m), FanoutPart!ToSet(stream[m]))'
    BY <1>6, <2>1, <2>2 DEF FanoutPart!AllBefore, FanoutPart!Precedes
  <2>5. FanoutPart!AllBefore(FanoutPart!InQueue(m), FanoutPart!ToSet(codec[m]))' /\ FanoutPart!AllBefore(FanoutPart!ToSet(stream[m]), FanoutPart!ToSet(codec[m]))'
    BY <2>2 DEF FanoutPart!AllBefore
  <2>. QED
    BY <2>3, <2>4, <2>5 DEF FanoutPart!Line
<1>12. FanoutPart!LineUp'
  BY <1>1, <1>7, <1>11, QueueStays DEF FanoutPart!LineUp
<1>13. FanoutPart!Origins(m)'
  <2>1. \A p \in FanoutPart!Way(m)' :
          /\ p.talk <= Len(talks') /\ FanoutPart!ModuleOf(p)' = m
          /\ p.header => p.pid = 0 /\ ~p.last
          /\ FanoutPart!Open(m)' => FanoutPart!Past(m, p)'
          /\ m \in Prompt => p.talk = now'[m].talk
    <3>1. SUFFICES ASSUME NEW p \in FanoutPart!Way(m) \cup {TheHeader}
                   PROVE  /\ p.talk <= Len(talks') /\ FanoutPart!ModuleOf(p)' = m
                          /\ p.header => p.pid = 0 /\ ~p.last
                          /\ FanoutPart!Past(m, p)'
                          /\ m \in Prompt => p.talk = now'[m].talk
      BY <1>10
    <3>2. CASE p = TheHeader
      BY <1>1, <1>2, <1>3, <3>2 DEF FanoutPart!ModuleOf, FanoutPart!Past
    <3>3. CASE p \in FanoutPart!Way(m)
      <4>1. FanoutPart!ModuleOf(p) = m /\ (p.header => p.pid = 0 /\ ~p.last)
        BY <1>3, <3>3 DEF FanoutPart!Account, FanoutPart!Origins
      <4>2. FanoutPart!ModuleOf(p)' = m
        BY <1>1, <3>3, <4>1, TalkStays DEF FanoutPart!ModuleOf
      <4>. QED
        BY <1>1, <1>3, <1>4, <1>5, <3>3, <4>1, <4>2 DEF FanoutPart!Past
    <3>. QED
      BY <3>1, <3>2, <3>3
  <2>2. \A p \in FanoutPart!ToSet(codec[m])' : m \in Transcoded /\ ~p.header /\ talks'[p.talk].local
    BY <1>5, <1>9 DEF FanoutPart!ToSet
  <2>. QED
    BY <1>1, <2>1, <2>2 DEF FanoutPart!Origins
<1>14. FanoutPart!HeaderKept(m)'
  <2>1. FanoutPart!HeaderKept(m)
    BY <1>3 DEF FanoutPart!Account
  <2>2. cache'[m].header = cache[m].header /\ FanoutPart!KeepsHeader' = FanoutPart!KeepsHeader
    BY <1>1 DEF FanoutPart!KeepsHeader
  <2>3. \E p \in FanoutPart!Way(m)' : p.header /\ p.talk = t
    BY <1>2, <1>10
  <2>4. \A p \in FanoutPart!Way(m) \cup {TheHeader} : p.header => p.talk > cache[m].header \/ ~FanoutPart!KeepsHeader
    BY <1>2, <1>3, <2>1 DEF FanoutPart!HeaderKept
  <2>5. \A p \in FanoutPart!Way(m) : FanoutPart!KeepsHeader /\ ~p.header =>
          cache[m].header = p.talk \/ \E q \in FanoutPart!Way(m) : q.header /\ q.talk = p.talk
    BY <2>1 DEF FanoutPart!HeaderKept, FanoutPart!Announced
  <2>. QED
    BY <1>1, <1>2, <1>10, <2>2, <2>3, <2>4, <2>5 DEF FanoutPart!HeaderKept, FanoutPart!Announced
<1>15. FanoutPart!Sent(m)'
  <2>1. CASE out[m].kind = "nothing"
    BY <1>1, <2>1 DEF FanoutPart!Sent
  <2>2. CASE out[m].kind # "nothing"
    <3>1. FanoutPart!Sent(m)
      BY <1>3 DEF FanoutPart!Account
    <3>2. FanoutPart!Newest(out[m]).talk < t /\ FanoutPart!Newest(out[m]).talk <= Len(talks')
      BY <1>1, <1>3, <2>2, <3>1, NowIs, PacketIs DEF FanoutPart!Sent
    <3>3. FanoutPart!Newest(out[m])' = FanoutPart!Newest(out[m])
      BY <1>1 DEF FanoutPart!Newest
    <3>4. \A p \in FanoutPart!Way(m)' : FanoutPart!Precedes(FanoutPart!Newest(out[m]), p)
      BY <1>2, <1>10, <2>2, <3>1, <3>2 DEF FanoutPart!Sent, FanoutPart!Precedes
    <3>5. FanoutPart!Past(m, FanoutPart!Newest(out[m]))'
      BY <1>1, <3>2, <3>3 DEF FanoutPart!Past
    <3>. QED
      BY <1>1, <2>2, <3>1, <3>2, <3>3, <3>4, <3>5
         DEF FanoutPart!Sent, FanoutPart!Completes, FanoutPart!Step, FanoutPart!Size, FanoutPart!Precedes, FanoutPart!Past, FanoutPart!Newest
  <2>. QED
    BY <2>1, <2>2
<1>16. ASSUME m \notin Transcoded PROVE FanoutPart!Unbroken(m)'
  <2>1. FanoutPart!Unbroken(m)
    BY <1>3, <1>16 DEF FanoutPart!Account
  <2>2. \A x \in FanoutPart!Coming(m)' : x \in FanoutPart!Coming(m) \/ x = [talk |-> t, pid |-> 0]
    BY <1>1, <1>2, <1>10 DEF FanoutPart!Coming, FanoutPart!Open
  <2>3. \A x \in FanoutPart!Coming(m) : x.talk \in 1..Len(talks) /\ x.pid \in Nat /\ x.talk # t
    BY <1>1, <1>3, <1>4, PacketIs DEF FanoutPart!Coming
  <2>4. FanoutPart!Size(protocol) \in {1, 3, 4, 5} /\ FanoutPart!Size(protocol)' = FanoutPart!Size(protocol)
    BY <1>1, <1>3, Sizes DEF FanoutPart!Size
  <2>5. FanoutPart!Gapless(m)'
    BY <1>2, <1>10, <2>1, <2>2, <2>3 DEF FanoutPart!Unbroken, FanoutPart!Gapless, FanoutPart!Frame
  <2>6. FanoutPart!GroupKept(m)'
    <3>1. ASSUME NEW k \in 0..FanoutPart!Size(protocol) - 1, cache[m].frames[k] # None
          PROVE  /\ cache[m].frames[k].talk <= Len(talks') /\ cache[m].frames[k].talk < t
      <4>1. k \in 0..FanoutPart!MaxSize - 1
        BY <1>3, Sizes DEF FanoutPart!MaxSize
      <4>2. cache[m].frames[k] \in FanoutPart!Packets
        BY <1>3, <3>1, <4>1, NowIs
      <4>. QED
        BY <1>1, <1>3, <2>1, <3>1, <4>2, PacketIs DEF FanoutPart!Unbroken, FanoutPart!GroupKept
    <3>2. \A k \in 0..FanoutPart!Size(protocol) - 1 : cache[m].frames[k] # None =>
             /\ \A p \in FanoutPart!Way(m)' : FanoutPart!Precedes(cache[m].frames[k], p)
             /\ FanoutPart!Past(m, cache[m].frames[k])'
      BY <1>1, <1>2, <1>10, <2>1, <3>1 DEF FanoutPart!Unbroken, FanoutPart!GroupKept, FanoutPart!Precedes, FanoutPart!Past
    <3>3. \A x \in FanoutPart!Coming(m)' : \A k \in 0..FanoutPart!Size(protocol) - 1 :
            k < x.pid % FanoutPart!Size(protocol) => x \in FanoutPart!Coming(m)
      BY <2>2, <2>4
    <3>. QED
      BY <1>1, <1>10, <2>1, <2>4, <3>1, <3>2, <3>3
         DEF FanoutPart!Unbroken, FanoutPart!GroupKept, FanoutPart!Frame, FanoutPart!Past, FanoutPart!Precedes
  <2>7. protocol' = "m17" => FanoutPart!Counted(m)'
    BY <1>1, <1>2, <1>10, <2>1, <2>2 DEF FanoutPart!Unbroken, FanoutPart!Counted
  <2>8. FanoutPart!NoneLeftOut(m)'
    BY <1>1, <1>3, <1>10, <2>1, <2>2
       DEF FanoutPart!Unbroken, FanoutPart!NoneLeftOut, FanoutPart!Newest, FanoutPart!Completes, FanoutPart!Step, FanoutPart!Size, FanoutPart!Frame
  <2>9. FanoutPart!EndComes(m)'
    BY <1>1 DEF FanoutPart!EndComes
  <2>. QED
    BY <2>5, <2>6, <2>7, <2>8, <2>9 DEF FanoutPart!Unbroken
<1>17. FanoutPart!Account(m)'
  BY <1>13, <1>14, <1>15, <1>16 DEF FanoutPart!Account
<1>. QED
  BY <1>1, <1>7, <1>12, <1>17 DEF Ready

-----------------------------------------------------------------------------
\* Places in groups.
LEMMA GroupNext ==
  ASSUME NEW n \in Nat, NEW s \in {1, 2, 3, 4, 5}
  PROVE  /\ n % s \in 0..s - 1 /\ n - (n % s) \in Nat /\ (n - (n % s)) % s = 0
         /\ (n + 1) % s = IF n % s = s - 1 THEN 0 ELSE (n % s) + 1
<1>1. CASE s = 1
  BY <1>1
<1>2. CASE s = 2
  BY <1>2
<1>3. CASE s = 3
  BY <1>3
<1>4. CASE s = 4
  BY <1>4
<1>5. CASE s = 5
  BY <1>5
<1>. QED
  BY <1>1, <1>2, <1>3, <1>4, <1>5

LEMMA GroupPlace ==
  ASSUME NEW n \in Nat, NEW x \in Nat, NEW s \in {1, 2, 3, 4, 5},
         n - (n % s) <= x, x < n - (n % s) + s
  PROVE  x % s = x - (n - (n % s))
<1>1. CASE s = 1
  BY <1>1
<1>2. CASE s = 2
  BY <1>2
<1>3. CASE s = 3
  BY <1>3
<1>4. CASE s = 4
  BY <1>4
<1>5. CASE s = 5
  BY <1>5
<1>. QED
  BY <1>1, <1>2, <1>3, <1>4, <1>5

LEMMA PushKeeps ==
  ASSUME Ready, NEW m \in Modules, FanoutPart!Push(m)
  PROVE  Ready' /\ MoreTalks /\ UNCHANGED <<protocol, out>>
<1>1. PICK last \in BOOLEAN :
        /\ FanoutPart!TypeOK' /\ UNCHANGED <<protocol, talks, queue, cache, out>>
        /\ \A n \in Modules : n # m => SameAt(n)
        /\ FanoutPart!Open(m) /\ ~now[m].over
        /\ now'[m].talk = now[m].talk /\ now'[m].pid = now[m].pid + 1 /\ now'[m].over = last
        /\ TheFrame(m, last) \in FanoutPart!Packets
        /\ IF m \in Transcoded /\ talks[now[m].talk].local
           THEN codec'[m] = Append(codec[m], TheFrame(m, last)) /\ stream'[m] = stream[m]
           ELSE stream'[m] = Append(stream[m], TheFrame(m, last)) /\ codec'[m] = codec[m]
  BY PushDoes DEF Ready
<1>2. PICK F \in FanoutPart!Packets :
        /\ F = TheFrame(m, last) /\ F.talk = now[m].talk /\ F.header = FALSE
        /\ F.pid = now[m].pid /\ F.last = last
  BY <1>1 DEF TheFrame
<1>3. /\ FanoutPart!TypeOK /\ Len(talks) \in Nat /\ FanoutPart!Account(m) /\ FanoutPart!Line(m) /\ FanoutPart!Origins(m)
      /\ now[m].pid \in Nat /\ now[m].talk \in 1..Len(talks)
      /\ cache[m].header \in 0..Len(talks) /\ out[m].header \in 0..Len(talks)
  <2>1. FanoutPart!TypeOK /\ FanoutPart!Account(m) /\ FanoutPart!Line(m) /\ FanoutPart!Origins(m)
    BY DEF Ready, FanoutPart!LineUp, FanoutPart!Account
  <2>. QED
    BY <1>1, <2>1, NowIs DEF FanoutPart!Open
<1>4. MoreTalks
  BY <1>1, <1>3 DEF MoreTalks
<1>5. \A p \in FanoutPart!Way(m) : p \in FanoutPart!Packets /\ FanoutPart!Past(m, p) /\ FanoutPart!Precedes(p, F)
  BY <1>1, <1>2, <1>3, WayIs DEF FanoutPart!Origins, FanoutPart!Past, FanoutPart!Precedes
<1>6. \A n \in Modules : FanoutPart!InQueue(n)' = FanoutPart!InQueue(n)
  BY <1>1, <1>4, QueueStays
<1>7. \A n \in Modules : n # m => FanoutPart!Line(n)' /\ FanoutPart!Account(n)'
  BY <1>1, <1>4, <1>6, RestStays
<1>8. stream[m] \in Seq(FanoutPart!Packets) /\ codec[m] \in Seq(FanoutPart!Packets) /\ FanoutPart!Ordered(stream[m]) /\ FanoutPart!Ordered(codec[m])
  BY <1>3 DEF FanoutPart!TypeOK, FanoutPart!Line
<1>9. FanoutPart!Line(m)' /\ FanoutPart!Way(m)' = FanoutPart!Way(m) \cup {F}
  <2>1. CASE codec'[m] = Append(codec[m], F) /\ stream'[m] = stream[m]
    <3>1. FanoutPart!ToSet(codec'[m]) = FanoutPart!ToSet(codec[m]) \cup {F} /\ FanoutPart!Ordered(codec'[m])
      BY <1>3, <1>5, <1>8, <2>1, LineAppend, WayIs
    <3>2. FanoutPart!ToSet(stream[m])' = FanoutPart!ToSet(stream[m]) /\ FanoutPart!ToSet(codec[m])' = FanoutPart!ToSet(codec[m]) \cup {F}
      BY <2>1, <3>1 DEF FanoutPart!ToSet
    <3>3. FanoutPart!Way(m)' = FanoutPart!Way(m) \cup {F}
      BY <1>3, <1>6, <3>2, WayIs DEF FanoutPart!Way
    <3>4. FanoutPart!Ordered(stream[m])' /\ FanoutPart!Ordered(codec[m])'
      BY <1>8, <2>1, <3>1 DEF FanoutPart!Ordered, FanoutPart!Precedes
    <3>5. FanoutPart!AllBefore(FanoutPart!InQueue(m), FanoutPart!ToSet(stream[m]))'
      BY <1>3, <1>6, <3>2 DEF FanoutPart!AllBefore, FanoutPart!Precedes, FanoutPart!Line
    <3>6. /\ FanoutPart!AllBefore(FanoutPart!InQueue(m), FanoutPart!ToSet(codec[m]))'
          /\ FanoutPart!AllBefore(FanoutPart!ToSet(stream[m]), FanoutPart!ToSet(codec[m]))'
      BY <1>3, <1>5, <1>6, <3>2, WayIs DEF FanoutPart!AllBefore, FanoutPart!Precedes, FanoutPart!Line
    <3>. QED
      BY <3>3, <3>4, <3>5, <3>6 DEF FanoutPart!Line
  <2>2. CASE /\ stream'[m] = Append(stream[m], F) /\ codec'[m] = codec[m]
             /\ ~(m \in Transcoded /\ talks[now[m].talk].local)
    <3>1. FanoutPart!ToSet(stream'[m]) = FanoutPart!ToSet(stream[m]) \cup {F} /\ FanoutPart!Ordered(stream'[m])
      BY <1>3, <1>5, <1>8, <2>2, LineAppend, WayIs
    <3>2. FanoutPart!ToSet(codec[m]) = {}
      BY <1>3, <2>2, CodecHolds, WayIs
    <3>3. FanoutPart!ToSet(stream[m])' = FanoutPart!ToSet(stream[m]) \cup {F} /\ FanoutPart!ToSet(codec[m])' = {}
      BY <2>2, <3>1, <3>2 DEF FanoutPart!ToSet
    <3>4. FanoutPart!Way(m)' = FanoutPart!Way(m) \cup {F}
      BY <1>3, <1>6, <3>2, <3>3, WayIs DEF FanoutPart!Way
    <3>5. FanoutPart!Ordered(stream[m])' /\ FanoutPart!Ordered(codec[m])'
      BY <1>8, <2>2, <3>1 DEF FanoutPart!Ordered, FanoutPart!Precedes
    <3>6. FanoutPart!AllBefore(FanoutPart!InQueue(m), FanoutPart!ToSet(stream[m]))'
      BY <1>3, <1>5, <1>6, <3>3, WayIs DEF FanoutPart!AllBefore, FanoutPart!Precedes, FanoutPart!Line
    <3>7. /\ FanoutPart!AllBefore(FanoutPart!InQueue(m), FanoutPart!ToSet(codec[m]))'
          /\ FanoutPart!AllBefore(FanoutPart!ToSet(stream[m]), FanoutPart!ToSet(codec[m]))'
      BY <3>3 DEF FanoutPart!AllBefore
    <3>. QED
      BY <3>4, <3>5, <3>6, <3>7 DEF FanoutPart!Line
  <2>. QED
    BY <1>1, <1>2, <2>1, <2>2
<1>10. FanoutPart!LineUp'
  BY <1>1, <1>4, <1>7, <1>9, QueueStays DEF FanoutPart!LineUp
<1>11. FanoutPart!Open(m)'
  BY <1>1 DEF FanoutPart!Open
<1>12. FanoutPart!Origins(m)'
  <2>1. \A p \in FanoutPart!Way(m)' :
          /\ p.talk <= Len(talks') /\ FanoutPart!ModuleOf(p)' = m
          /\ p.header => p.pid = 0 /\ ~p.last
          /\ FanoutPart!Open(m)' => FanoutPart!Past(m, p)'
          /\ m \in Prompt => p.talk = now'[m].talk
    <3>1. SUFFICES ASSUME NEW p \in FanoutPart!Way(m) \cup {F}
                   PROVE  /\ p.talk <= Len(talks') /\ FanoutPart!ModuleOf(p)' = m
                          /\ p.header => p.pid = 0 /\ ~p.last
                          /\ FanoutPart!Past(m, p)'
                          /\ m \in Prompt => p.talk = now'[m].talk
      BY <1>9
    <3>2. CASE p = F
      <4>1. FanoutPart!ModuleOf(p)' = m
        BY <1>1, <1>2, <1>3, <3>2 DEF FanoutPart!ModuleOf, FanoutPart!Origins
      <4>. QED
        BY <1>1, <1>2, <1>3, <3>2, <4>1 DEF FanoutPart!Past
    <3>3. CASE p \in FanoutPart!Way(m)
      <4>1. p.talk <= Len(talks) /\ FanoutPart!ModuleOf(p) = m /\ (p.header => p.pid = 0 /\ ~p.last)
        BY <1>3, <3>3 DEF FanoutPart!Origins
      <4>2. FanoutPart!ModuleOf(p)' = m
        BY <1>1, <4>1 DEF FanoutPart!ModuleOf
      <4>3. FanoutPart!Past(m, p)'
        BY <1>1, <1>3, <1>5, <3>3, PacketIs DEF FanoutPart!Past
      <4>. QED
        BY <1>1, <1>3, <3>3, <4>1, <4>2, <4>3 DEF FanoutPart!Origins
    <3>. QED
      BY <3>1, <3>2, <3>3
  <2>2. \A p \in FanoutPart!ToSet(codec[m])' : m \in Transcoded /\ ~p.header /\ talks'[p.talk].local
    <3>1. \A p \in FanoutPart!ToSet(codec[m]) : m \in Transcoded /\ ~p.header /\ talks[p.talk].local
      BY <1>3 DEF FanoutPart!Origins
    <3>2. CASE codec'[m] = codec[m]
      BY <1>1, <3>1, <3>2 DEF FanoutPart!ToSet
    <3>3. CASE codec'[m] = Append(codec[m], F) /\ m \in Transcoded /\ talks[now[m].talk].local
      <4>1. FanoutPart!ToSet(codec'[m]) = FanoutPart!ToSet(codec[m]) \cup {F}
        BY <1>8, <3>3, LineAppend
      <4>2. \A p \in FanoutPart!ToSet(codec'[m]) : m \in Transcoded /\ ~p.header /\ talks[p.talk].local
        BY <1>2, <3>1, <3>3, <4>1
      <4>. QED
        BY <1>1, <4>2 DEF FanoutPart!ToSet
    <3>. QED
      BY <1>1, <1>2, <3>2, <3>3
  <2>. QED
    BY <1>1, <1>3, <1>11, <2>1, <2>2 DEF FanoutPart!Origins
<1>13. FanoutPart!HeaderKept(m)'
  <2>1. FanoutPart!HeaderKept(m)
    BY <1>3 DEF FanoutPart!Account
  <2>2. cache'[m].header = cache[m].header /\ FanoutPart!KeepsHeader' = FanoutPart!KeepsHeader
    BY <1>1 DEF FanoutPart!KeepsHeader
  <2>3. \A p \in FanoutPart!Way(m) \cup {F} : FanoutPart!KeepsHeader =>
          IF p.header THEN p.talk > cache[m].header
          ELSE cache[m].header = p.talk \/ \E q \in FanoutPart!Way(m) : q.header /\ q.talk = p.talk
    BY <1>1, <1>2, <2>1 DEF FanoutPart!HeaderKept, FanoutPart!Announced
  <2>4. FanoutPart!KeepsHeader =>
          cache[m].header = now[m].talk \/ \E q \in FanoutPart!Way(m) : q.header /\ q.talk = now[m].talk
    BY <1>1, <2>1 DEF FanoutPart!HeaderKept, FanoutPart!Announced
  <2>. QED
    BY <1>1, <1>9, <2>2, <2>3, <2>4 DEF FanoutPart!HeaderKept, FanoutPart!Announced
<1>14. FanoutPart!Sent(m)'
  <2>1. CASE out[m].kind = "nothing"
    BY <1>1, <2>1 DEF FanoutPart!Sent
  <2>2. CASE out[m].kind # "nothing"
    <3>1. FanoutPart!Sent(m) /\ FanoutPart!Newest(out[m]) \in FanoutPart!Packets
      BY <1>3, <2>2, NowIs DEF FanoutPart!Account
    <3>2. FanoutPart!Past(m, FanoutPart!Newest(out[m]))
      BY <1>1, <2>2, <3>1 DEF FanoutPart!Sent
    <3>3. FanoutPart!Precedes(FanoutPart!Newest(out[m]), F)
      BY <1>2, <3>2 DEF FanoutPart!Past, FanoutPart!Precedes
    <3>4. FanoutPart!Past(m, FanoutPart!Newest(out[m]))'
      BY <1>1, <1>3, <3>1, <3>2, PacketIs DEF FanoutPart!Past, FanoutPart!Newest
    <3>. QED
      BY <1>1, <1>9, <2>2, <3>1, <3>3, <3>4
         DEF FanoutPart!Sent, FanoutPart!Completes, FanoutPart!Step, FanoutPart!Size, FanoutPart!Precedes, FanoutPart!Newest
  <2>. QED
    BY <2>1, <2>2
<1>15. ASSUME m \notin Transcoded PROVE FanoutPart!Unbroken(m)'
  <2>1. FanoutPart!Unbroken(m)
    BY <1>3, <1>15 DEF FanoutPart!Account
  <2>. DEFINE c == [talk |-> now[m].talk, pid |-> now[m].pid]
              d == [talk |-> now[m].talk, pid |-> now[m].pid + 1]
  <2>2. c \in FanoutPart!Coming(m) /\ \A x \in FanoutPart!Coming(m)' : x \in FanoutPart!Coming(m) \/ (x = d /\ last = FALSE)
    <3>1. c \in FanoutPart!Coming(m)
      BY <1>1 DEF FanoutPart!Coming
    <3>2. [talk |-> F.talk, pid |-> F.pid] = c
      BY <1>2
    <3>. QED
      BY <1>1, <1>2, <1>9, <3>1, <3>2 DEF FanoutPart!Coming, FanoutPart!Open
  <2>3. \A x \in FanoutPart!Coming(m) :
          /\ x.talk \in 1..Len(talks) /\ x.pid \in Nat
          /\ x.talk = now[m].talk => x.pid <= now[m].pid
    <3>1. \A p \in FanoutPart!Way(m) :
            /\ p.talk \in 1..Len(talks) /\ p.pid \in Nat
            /\ ~p.header /\ p.talk = now[m].talk => p.pid < now[m].pid
      BY <1>4, <1>5, TalkStays, PacketIs DEF FanoutPart!Past
    <3>. QED
      BY <1>3, <3>1 DEF FanoutPart!Coming
  <2>4. last = FALSE => F = FanoutPart!Frame(now[m].talk, now[m].pid)
    BY <1>2 DEF FanoutPart!Frame, TheFrame
  <2>5. FanoutPart!Size(protocol) \in {1, 3, 4, 5} /\ FanoutPart!Size(protocol)' = FanoutPart!Size(protocol)
    BY <1>1, <1>3, Sizes DEF FanoutPart!Size
  <2>6. FanoutPart!Gapless(m)'
    <3>1. SUFFICES ASSUME NEW x \in FanoutPart!Coming(m)', NEW p \in FanoutPart!Way(m) \cup {F}, p.talk = x.talk,
                          NEW k \in 0..x.pid - 1, p.header \/ p.pid < k
                   PROVE  FanoutPart!Frame(x.talk, k) \in FanoutPart!Way(m) \cup {F}
      BY <1>9 DEF FanoutPart!Gapless, FanoutPart!Frame
    <3>2. CASE x \in FanoutPart!Coming(m)
      <4>1. p # F
        BY <1>2, <1>3, <2>2, <2>3, <3>1, <3>2
      <4>. QED
        BY <2>1, <3>1, <3>2, <4>1 DEF FanoutPart!Unbroken, FanoutPart!Gapless
    <3>3. CASE x = d /\ last = FALSE
      <4>1. CASE k = now[m].pid
        BY <2>4, <3>3, <4>1
      <4>2. CASE k # now[m].pid
        <5>1. k \in 0..c.pid - 1 /\ p # F
          BY <1>2, <1>3, <3>1, <3>3, <4>2
        <5>. QED
          BY <2>1, <2>2, <3>1, <3>3, <5>1 DEF FanoutPart!Unbroken, FanoutPart!Gapless
      <4>. QED
        BY <4>1, <4>2
    <3>. QED
      BY <2>2, <3>2, <3>3
  <2>7. FanoutPart!GroupKept(m)'
    <3>1. ASSUME NEW k \in 0..FanoutPart!Size(protocol) - 1, cache[m].frames[k] # None
          PROVE  /\ cache[m].frames[k].talk <= Len(talks')
                 /\ \A p \in FanoutPart!Way(m)' : FanoutPart!Precedes(cache[m].frames[k], p)
                 /\ FanoutPart!Past(m, cache[m].frames[k])'
      <4>1. k \in 0..FanoutPart!MaxSize - 1
        BY <1>3, Sizes DEF FanoutPart!MaxSize
      <4>2. cache[m].frames[k] \in FanoutPart!Packets
        BY <1>3, <3>1, <4>1, NowIs
      <4>3. /\ cache[m].frames[k].talk <= Len(talks)
            /\ \A p \in FanoutPart!Way(m) : FanoutPart!Precedes(cache[m].frames[k], p)
            /\ FanoutPart!Past(m, cache[m].frames[k])
        BY <1>1, <2>1, <3>1 DEF FanoutPart!Unbroken, FanoutPart!GroupKept
      <4>4. FanoutPart!Precedes(cache[m].frames[k], F)
        BY <1>2, <4>3 DEF FanoutPart!Past, FanoutPart!Precedes
      <4>5. FanoutPart!Past(m, cache[m].frames[k])'
        BY <1>1, <1>3, <4>2, <4>3, PacketIs DEF FanoutPart!Past
      <4>. QED
        BY <1>1, <1>9, <4>3, <4>4, <4>5
    <3>2. ASSUME NEW k \in 0..FanoutPart!Size(protocol) - 1, NEW x \in FanoutPart!Coming(m)', k < x.pid % FanoutPart!Size(protocol)
          PROVE  LET f == FanoutPart!Frame(x.talk, x.pid - (x.pid % FanoutPart!Size(protocol)) + k)
                 IN  cache[m].frames[k] = f \/ f \in FanoutPart!Way(m) \cup {F}
      <4>1. CASE x \in FanoutPart!Coming(m)
        BY <2>1, <3>2, <4>1 DEF FanoutPart!Unbroken, FanoutPart!GroupKept
      <4>2. CASE x = d /\ last = FALSE
        <5>1. PICK s \in {1, 3, 4, 5} : s = FanoutPart!Size(protocol)
          BY <2>5
        <5>2. /\ now[m].pid % s # s - 1 /\ x.pid % s = (now[m].pid % s) + 1
              /\ x.pid - (x.pid % s) = now[m].pid - (now[m].pid % s)
              /\ now[m].pid % s \in 0..s - 1
          <6>1. PICK n \in Nat : n = now[m].pid /\ x.pid = n + 1
            BY <1>3, <4>2
          <6>2. k \in Nat /\ k < (n + 1) % s
            BY <3>2, <5>1, <6>1
          <6>0. s \in {1, 2, 3, 4, 5}
            BY <5>1
          <6>3. /\ n % s \in 0..s - 1
                /\ (n + 1) % s = IF n % s = s - 1 THEN 0 ELSE (n % s) + 1
            BY <6>0, GroupNext
          <6>4. n % s # s - 1
            BY <6>2, <6>3
          <6>5. (n + 1) % s = (n % s) + 1 /\ (n + 1) - ((n % s) + 1) = n - (n % s)
            BY <6>3, <6>4
          <6>. QED
            BY <6>1, <6>3, <6>4, <6>5
        <5>3. CASE k = now[m].pid % s
          <6>1. x.pid - (x.pid % s) + k = now[m].pid
            BY <1>3, <5>2, <5>3
          <6>. QED
            BY <2>4, <4>2, <5>1, <6>1
        <5>4. CASE k # now[m].pid % s
          <6>1. k < c.pid % FanoutPart!Size(protocol)
            BY <3>2, <5>1, <5>2, <5>4
          <6>2. LET f == FanoutPart!Frame(c.talk, c.pid - (c.pid % FanoutPart!Size(protocol)) + k)
                IN  cache[m].frames[k] = f \/ f \in FanoutPart!Way(m)
            BY <2>1, <2>2, <6>1 DEF FanoutPart!Unbroken, FanoutPart!GroupKept
          <6>. QED
            BY <4>2, <5>1, <5>2, <6>2
        <5>. QED
          BY <5>3, <5>4
      <4>. QED
        BY <2>2, <4>1, <4>2
    <3>. QED
      BY <1>1, <1>9, <2>5, <3>1, <3>2 DEF FanoutPart!GroupKept, FanoutPart!Frame, FanoutPart!Precedes
  <2>8. protocol' = "m17" => FanoutPart!Counted(m)'
    <3>1. \E p \in FanoutPart!Way(m)' : p.talk = d.talk /\ IF p.header THEN d.pid = 0 ELSE d.pid = p.pid + 1
      BY <1>2, <1>9
    <3>. QED
      BY <1>1, <1>9, <2>1, <2>2, <3>1 DEF FanoutPart!Unbroken, FanoutPart!Counted
  <2>9. FanoutPart!NoneLeftOut(m)'
    <3>1. SUFFICES ASSUME out[m].kind = "voice", NEW x \in FanoutPart!Coming(m)', x.talk = out[m].header,
                          NEW k \in 0..x.pid - 1, FanoutPart!Newest(out[m]).pid < k, FanoutPart!Completes(k)
                   PROVE  FanoutPart!Frame(x.talk, k) \in FanoutPart!Way(m) \cup {F}
      BY <1>1, <1>9 DEF FanoutPart!NoneLeftOut, FanoutPart!Newest, FanoutPart!Completes, FanoutPart!Step, FanoutPart!Size, FanoutPart!Frame
    <3>2. CASE x \in FanoutPart!Coming(m)
      BY <2>1, <3>1, <3>2 DEF FanoutPart!Unbroken, FanoutPart!NoneLeftOut
    <3>3. CASE x = d /\ last = FALSE /\ k = now[m].pid
      BY <2>4, <3>3
    <3>4. CASE x = d /\ last = FALSE /\ k # now[m].pid
      <4>1. k \in 0..c.pid - 1 /\ c.talk = x.talk
        BY <1>3, <3>1, <3>4
      <4>. QED
        BY <2>1, <2>2, <3>1, <4>1 DEF FanoutPart!Unbroken, FanoutPart!NoneLeftOut
    <3>. QED
      BY <2>2, <3>2, <3>3, <3>4
  <2>10. FanoutPart!EndComes(m)'
    BY <1>1, <1>2, <1>9 DEF FanoutPart!EndComes
  <2>. QED
    BY <2>6, <2>7, <2>8, <2>9, <2>10 DEF FanoutPart!Unbroken
<1>16. FanoutPart!Account(m)'
  BY <1>12, <1>13, <1>14, <1>15 DEF FanoutPart!Account
<1>. QED
  BY <1>1, <1>4, <1>7, <1>10, <1>16 DEF Ready

LEMMA CodecKeeps ==
  ASSUME Ready, NEW m \in Modules, FanoutPart!CodecStream(m)
  PROVE  Ready' /\ MoreTalks /\ UNCHANGED <<protocol, out>>
<1>1. /\ FanoutPart!TypeOK' /\ UNCHANGED <<protocol, talks, now, queue, cache, out>>
      /\ \A n \in Modules : n # m => SameAt(n)
      /\ codec[m] # <<>> /\ codec'[m] = Tail(codec[m])
      /\ stream'[m] = stream[m] \/ stream'[m] = Append(stream[m], Head(codec[m]))
  BY CodecDoes DEF Ready
<1>2. /\ FanoutPart!TypeOK /\ Len(talks) \in Nat /\ FanoutPart!Account(m) /\ FanoutPart!Line(m) /\ FanoutPart!Origins(m)
      /\ codec[m] \in Seq(FanoutPart!Packets) /\ stream[m] \in Seq(FanoutPart!Packets)
      /\ FanoutPart!Ordered(stream[m]) /\ FanoutPart!Ordered(codec[m])
  BY NowIs DEF Ready, FanoutPart!LineUp, FanoutPart!Account, FanoutPart!TypeOK, FanoutPart!Line
<1>3. MoreTalks
  BY <1>1, <1>2 DEF MoreTalks
<1>4. PICK F \in FanoutPart!Packets :
        /\ F = Head(codec[m]) /\ FanoutPart!ToSet(codec[m]) = FanoutPart!ToSet(codec'[m]) \cup {F}
        /\ FanoutPart!Ordered(codec'[m]) /\ \A p \in FanoutPart!ToSet(codec'[m]) : FanoutPart!Precedes(F, p)
        /\ codec'[m] \in Seq(FanoutPart!Packets)
  BY <1>1, <1>2, LineTail
<1>5. F \in FanoutPart!ToSet(codec[m]) /\ m \in Transcoded /\ ~F.header
  BY <1>2, <1>4 DEF FanoutPart!Origins
<1>6. \A n \in Modules : FanoutPart!InQueue(n)' = FanoutPart!InQueue(n)
  BY <1>1, <1>3, QueueStays
<1>7. \A n \in Modules : n # m => FanoutPart!Line(n)' /\ FanoutPart!Account(n)'
  BY <1>1, <1>3, <1>6, RestStays
<1>8. /\ FanoutPart!Ordered(stream'[m])
      /\ FanoutPart!ToSet(stream'[m]) = FanoutPart!ToSet(stream[m]) \/ FanoutPart!ToSet(stream'[m]) = FanoutPart!ToSet(stream[m]) \cup {F}
  <2>1. \A p \in FanoutPart!ToSet(stream[m]) : FanoutPart!Precedes(p, F)
    BY <1>2, <1>5 DEF FanoutPart!Line, FanoutPart!AllBefore
  <2>. QED
    BY <1>1, <1>2, <1>4, <2>1, LineAppend
<1>9. /\ FanoutPart!ToSet(stream[m])' = FanoutPart!ToSet(stream'[m])
      /\ FanoutPart!ToSet(codec[m])' = FanoutPart!ToSet(codec'[m])
  BY DEF FanoutPart!ToSet
<1>10. FanoutPart!Line(m)'
  <2>1. FanoutPart!Ordered(stream[m])' /\ FanoutPart!Ordered(codec[m])'
    BY <1>4, <1>8 DEF FanoutPart!Ordered, FanoutPart!Precedes
  <2>2. \A p \in FanoutPart!InQueue(m) : \A q \in FanoutPart!ToSet(stream[m]) \cup FanoutPart!ToSet(codec[m]) : FanoutPart!Precedes(p, q)
    BY <1>2 DEF FanoutPart!Line, FanoutPart!AllBefore
  <2>3. \A p \in FanoutPart!ToSet(stream[m]) : \A q \in FanoutPart!ToSet(codec[m]) : FanoutPart!Precedes(p, q)
    BY <1>2 DEF FanoutPart!Line, FanoutPart!AllBefore
  <2>4. FanoutPart!AllBefore(FanoutPart!InQueue(m), FanoutPart!ToSet(stream[m]))'
    BY <1>4, <1>6, <1>8, <1>9, <2>2 DEF FanoutPart!AllBefore, FanoutPart!Precedes
  <2>5. FanoutPart!AllBefore(FanoutPart!InQueue(m), FanoutPart!ToSet(codec[m]))'
    BY <1>4, <1>6, <1>9, <2>2 DEF FanoutPart!AllBefore, FanoutPart!Precedes
  <2>6. FanoutPart!AllBefore(FanoutPart!ToSet(stream[m]), FanoutPart!ToSet(codec[m]))'
    BY <1>4, <1>8, <1>9, <2>3 DEF FanoutPart!AllBefore, FanoutPart!Precedes
  <2>. QED
    BY <2>1, <2>4, <2>5, <2>6 DEF FanoutPart!Line
<1>11. FanoutPart!LineUp'
  BY <1>1, <1>3, <1>7, <1>10, QueueStays DEF FanoutPart!LineUp
<1>12. FanoutPart!Way(m)' \subseteq FanoutPart!Way(m) /\ \A p \in FanoutPart!Way(m) : p.header => p \in FanoutPart!Way(m)'
  BY <1>2, <1>4, <1>5, <1>6, <1>8, <1>9, WayIs DEF FanoutPart!Way
<1>13. FanoutPart!Open(m)' <=> FanoutPart!Open(m)
  BY <1>1 DEF FanoutPart!Open
<1>14. FanoutPart!Origins(m)'
  <2>1. \A p \in FanoutPart!Way(m)' :
          /\ p.talk <= Len(talks') /\ FanoutPart!ModuleOf(p)' = m
          /\ p.header => p.pid = 0 /\ ~p.last
          /\ FanoutPart!Open(m)' => FanoutPart!Past(m, p)'
          /\ m \in Prompt => p.talk = now'[m].talk
    BY <1>1, <1>2, <1>12, <1>13 DEF FanoutPart!Origins, FanoutPart!ModuleOf, FanoutPart!Past
  <2>2. \A p \in FanoutPart!ToSet(codec[m])' : m \in Transcoded /\ ~p.header /\ talks'[p.talk].local
    BY <1>1, <1>2, <1>4, <1>9 DEF FanoutPart!Origins
  <2>. QED
    BY <1>1, <1>2, <1>13, <2>1, <2>2 DEF FanoutPart!Origins
<1>15. FanoutPart!HeaderKept(m)'
  <2>1. FanoutPart!HeaderKept(m)
    BY <1>2 DEF FanoutPart!Account
  <2>2. cache'[m].header = cache[m].header /\ FanoutPart!KeepsHeader' = FanoutPart!KeepsHeader
    BY <1>1 DEF FanoutPart!KeepsHeader
  <2>. QED
    BY <1>1, <1>12, <1>13, <2>1, <2>2 DEF FanoutPart!HeaderKept, FanoutPart!Announced
<1>16. FanoutPart!Sent(m)'
  <2>1. FanoutPart!Sent(m)
    BY <1>2 DEF FanoutPart!Account
  <2>. QED
    BY <1>1, <1>5, <1>12, <1>13, <2>1 DEF FanoutPart!Sent, FanoutPart!Newest, FanoutPart!Precedes, FanoutPart!Past
<1>17. FanoutPart!Account(m)'
  BY <1>5, <1>14, <1>15, <1>16 DEF FanoutPart!Account
<1>. QED
  BY <1>1, <1>3, <1>7, <1>11, <1>17 DEF Ready

LEMMA CloseKeeps ==
  ASSUME Ready, NEW m \in Modules, FanoutPart!CloseStream(m)
  PROVE  Ready' /\ MoreTalks /\ UNCHANGED <<protocol, out>>
<1>1. /\ FanoutPart!TypeOK' /\ UNCHANGED <<protocol, talks, queue, codec, stream, cache, out>>
      /\ \A n \in Modules : n # m => SameAt(n)
      /\ now'[m].talk = 0 /\ now'[m].over = FALSE
      /\ stream[m] = <<>>
      /\ m \in Prompt => codec[m] = <<>> /\ \A i \in DOMAIN queue : FanoutPart!ModuleOf(queue[i]) # m
  BY CloseDoes DEF Ready
<1>2. /\ FanoutPart!TypeOK /\ Len(talks) \in Nat /\ FanoutPart!Account(m) /\ FanoutPart!Line(m) /\ FanoutPart!Origins(m)
  BY NowIs DEF Ready, FanoutPart!LineUp, FanoutPart!Account
<1>3. MoreTalks
  BY <1>1, <1>2 DEF MoreTalks
<1>4. \A n \in Modules : FanoutPart!InQueue(n)' = FanoutPart!InQueue(n)
  BY <1>1, <1>3, QueueStays
<1>5. \A n \in Modules : n # m => FanoutPart!Line(n)' /\ FanoutPart!Account(n)'
  BY <1>1, <1>3, <1>4, RestStays
<1>6. FanoutPart!Line(m)' /\ FanoutPart!Way(m)' = FanoutPart!Way(m)
  BY <1>1, <1>4, LineStays
<1>7. FanoutPart!LineUp'
  BY <1>1, <1>3, <1>5, <1>6, QueueStays DEF FanoutPart!LineUp
<1>8. m \in Prompt => FanoutPart!Way(m) = {}
  BY <1>1, <1>2, WayIs DEF FanoutPart!ToSet
<1>9. ~FanoutPart!Open(m)'
  BY <1>1 DEF FanoutPart!Open
<1>10. FanoutPart!Origins(m)'
  <2>1. \A p \in FanoutPart!Way(m) :
          p.talk <= Len(talks) /\ FanoutPart!ModuleOf(p) = m /\ (p.header => p.pid = 0 /\ ~p.last)
    BY <1>2 DEF FanoutPart!Origins
  <2>2. \A p \in FanoutPart!ToSet(codec[m])' : m \in Transcoded /\ ~p.header /\ talks'[p.talk].local
    BY <1>1, <1>2 DEF FanoutPart!Origins, FanoutPart!ToSet
  <2>. QED
    BY <1>1, <1>6, <1>8, <1>9, <2>1, <2>2 DEF FanoutPart!Origins, FanoutPart!ModuleOf
<1>11. FanoutPart!HeaderKept(m)'
  <2>1. FanoutPart!HeaderKept(m)
    BY <1>2 DEF FanoutPart!Account
  <2>2. cache'[m].header = cache[m].header /\ FanoutPart!KeepsHeader' = FanoutPart!KeepsHeader
    BY <1>1 DEF FanoutPart!KeepsHeader
  <2>. QED
    BY <1>6, <1>9, <2>1, <2>2 DEF FanoutPart!HeaderKept, FanoutPart!Announced
<1>12. FanoutPart!Sent(m)'
  <2>1. FanoutPart!Sent(m)
    BY <1>2 DEF FanoutPart!Account
  <2>. QED
    BY <1>1, <1>6, <1>9, <2>1 DEF FanoutPart!Sent, FanoutPart!Newest, FanoutPart!Precedes, FanoutPart!Completes, FanoutPart!Step, FanoutPart!Size
<1>13. ASSUME m \notin Transcoded PROVE FanoutPart!Unbroken(m)'
  <2>1. FanoutPart!Unbroken(m)
    BY <1>2, <1>13 DEF FanoutPart!Account
  <2>2. FanoutPart!Coming(m)' \subseteq FanoutPart!Coming(m)
    BY <1>6, <1>9 DEF FanoutPart!Coming
  <2>3. FanoutPart!Gapless(m)'
    BY <1>6, <2>1, <2>2 DEF FanoutPart!Unbroken, FanoutPart!Gapless, FanoutPart!Frame
  <2>4. FanoutPart!GroupKept(m)'
    BY <1>1, <1>6, <1>9, <2>1, <2>2 DEF FanoutPart!Unbroken, FanoutPart!GroupKept, FanoutPart!Frame, FanoutPart!Precedes, FanoutPart!Size
  <2>5. protocol' = "m17" => FanoutPart!Counted(m)'
    BY <1>1, <1>6, <2>1, <2>2 DEF FanoutPart!Unbroken, FanoutPart!Counted
  <2>6. FanoutPart!NoneLeftOut(m)'
    BY <1>1, <1>6, <2>1, <2>2
       DEF FanoutPart!Unbroken, FanoutPart!NoneLeftOut, FanoutPart!Newest, FanoutPart!Completes, FanoutPart!Step, FanoutPart!Size, FanoutPart!Frame
  <2>7. FanoutPart!EndComes(m)'
    BY <1>1 DEF FanoutPart!EndComes
  <2>. QED
    BY <2>3, <2>4, <2>5, <2>6, <2>7 DEF FanoutPart!Unbroken
<1>14. FanoutPart!Account(m)'
  BY <1>10, <1>11, <1>12, <1>13 DEF FanoutPart!Account
<1>. QED
  BY <1>1, <1>3, <1>5, <1>7, <1>14 DEF Ready

LEMMA RouterKeeps ==
  ASSUME Ready, NEW m \in Modules, FanoutPart!RouterThread(m)
  PROVE  Ready' /\ MoreTalks /\ UNCHANGED <<protocol, out>>
<1>1. /\ FanoutPart!TypeOK' /\ UNCHANGED <<protocol, talks, now, codec, cache, out>>
      /\ \A n \in Modules : n # m => SameAt(n)
      /\ stream[m] # <<>> /\ stream'[m] = Tail(stream[m])
      /\ queue' = Append(queue, Head(stream[m]))
  BY RouterDoes DEF Ready
<1>2. /\ FanoutPart!TypeOK /\ Len(talks) \in Nat /\ FanoutPart!Account(m) /\ FanoutPart!Line(m) /\ FanoutPart!Origins(m)
      /\ queue \in Seq(FanoutPart!Packets) /\ stream[m] \in Seq(FanoutPart!Packets)
      /\ FanoutPart!Ordered(stream[m]) /\ FanoutPart!Ordered(codec[m]) /\ FanoutPart!OrderedByModule(queue)
      /\ \A p \in FanoutPart!ToSet(queue) : p.talk <= Len(talks)
  BY NowIs DEF Ready, FanoutPart!LineUp, FanoutPart!Account, FanoutPart!TypeOK, FanoutPart!Line
<1>3. MoreTalks
  BY <1>1, <1>2 DEF MoreTalks
<1>4. PICK F \in FanoutPart!Packets :
        /\ F = Head(stream[m]) /\ FanoutPart!ToSet(stream[m]) = FanoutPart!ToSet(stream'[m]) \cup {F}
        /\ FanoutPart!Ordered(stream'[m]) /\ \A p \in FanoutPart!ToSet(stream'[m]) : FanoutPart!Precedes(F, p)
        /\ stream'[m] \in Seq(FanoutPart!Packets)
  BY <1>1, <1>2, LineTail
<1>5. /\ F \in FanoutPart!ToSet(stream[m]) /\ F \in FanoutPart!Way(m)
      /\ FanoutPart!ModuleOf(F) = m /\ F.talk <= Len(talks)
  BY <1>2, <1>4 DEF FanoutPart!Way, FanoutPart!Origins
<1>6. FanoutPart!ToSet(queue') = FanoutPart!ToSet(queue) \cup {F} /\ FanoutPart!OrderedByModule(queue')
  <2>1. \A p \in FanoutPart!ToSet(queue) : FanoutPart!ModuleOf(p) = FanoutPart!ModuleOf(F) => FanoutPart!Precedes(p, F)
    BY <1>2, <1>5 DEF FanoutPart!Line, FanoutPart!AllBefore, FanoutPart!InQueue
  <2>. QED
    BY <1>1, <1>2, <1>4, <2>1, LineAppend
<1>7. \A n \in Modules : FanoutPart!InQueue(n)' = IF n = m THEN FanoutPart!InQueue(m) \cup {F} ELSE FanoutPart!InQueue(n)
  BY <1>1, <1>5, <1>6 DEF FanoutPart!InQueue, FanoutPart!ModuleOf, FanoutPart!ToSet
<1>8. \A n \in Modules : n # m => FanoutPart!Line(n)' /\ FanoutPart!Account(n)'
  BY <1>1, <1>3, <1>7, RestStays
<1>9. /\ FanoutPart!ToSet(stream[m])' = FanoutPart!ToSet(stream'[m])
      /\ FanoutPart!ToSet(codec[m])' = FanoutPart!ToSet(codec[m]) /\ codec'[m] = codec[m]
  BY <1>1 DEF FanoutPart!ToSet
<1>10. FanoutPart!Line(m)'
  <2>1. FanoutPart!Ordered(stream[m])' /\ FanoutPart!Ordered(codec[m])'
    BY <1>2, <1>4, <1>9 DEF FanoutPart!Ordered, FanoutPart!Precedes
  <2>2. \A p \in FanoutPart!InQueue(m) : \A q \in FanoutPart!ToSet(stream[m]) \cup FanoutPart!ToSet(codec[m]) : FanoutPart!Precedes(p, q)
    BY <1>2 DEF FanoutPart!Line, FanoutPart!AllBefore
  <2>3. \A p \in FanoutPart!ToSet(stream[m]) : \A q \in FanoutPart!ToSet(codec[m]) : FanoutPart!Precedes(p, q)
    BY <1>2 DEF FanoutPart!Line, FanoutPart!AllBefore
  <2>4. FanoutPart!AllBefore(FanoutPart!InQueue(m), FanoutPart!ToSet(stream[m]))'
    BY <1>4, <1>7, <1>9, <2>2 DEF FanoutPart!AllBefore, FanoutPart!Precedes
  <2>5. FanoutPart!AllBefore(FanoutPart!InQueue(m), FanoutPart!ToSet(codec[m]))'
    BY <1>5, <1>7, <1>9, <2>2, <2>3 DEF FanoutPart!AllBefore, FanoutPart!Precedes
  <2>6. FanoutPart!AllBefore(FanoutPart!ToSet(stream[m]), FanoutPart!ToSet(codec[m]))'
    BY <1>4, <1>9, <2>3 DEF FanoutPart!AllBefore, FanoutPart!Precedes
  <2>. QED
    BY <2>1, <2>4, <2>5, <2>6 DEF FanoutPart!Line
<1>11. FanoutPart!LineUp'
  <2>1. FanoutPart!OrderedByModule(queue)'
    BY <1>1, <1>6 DEF FanoutPart!OrderedByModule, FanoutPart!ModuleOf, FanoutPart!Precedes
  <2>2. \A p \in FanoutPart!ToSet(queue)' : p.talk <= Len(talks')
    BY <1>1, <1>2, <1>5, <1>6 DEF FanoutPart!ToSet
  <2>. QED
    BY <1>8, <1>10, <2>1, <2>2 DEF FanoutPart!LineUp
<1>12. FanoutPart!Way(m)' = FanoutPart!Way(m)
  BY <1>2, <1>4, <1>7, <1>9, WayIs DEF FanoutPart!Way
<1>13. FanoutPart!Account(m)'
  BY <1>1, <1>3, <1>9, <1>12, AccountStays
<1>. QED
  BY <1>1, <1>3, <1>8, <1>11, <1>13 DEF Ready

-----------------------------------------------------------------------------
(***************************************************************************)
(* HandleQueue, as it looks from the module whose packet is taken.         *)
(***************************************************************************)

\* The packet in front is on its way.
LEMMA FrontIs ==
  ASSUME Ready, queue # <<>>
  PROVE  AtHand /\ FanoutPart!Packet \in FanoutPart!ToSet(queue) /\ FanoutPart!ModuleOf(FanoutPart!Packet) = FanoutPart!Module
<1>1. FanoutPart!TypeOK /\ queue \in Seq(FanoutPart!Packets) /\ Len(talks) \in Nat
  BY DEF Ready, FanoutPart!TypeOK
<1>2. FanoutPart!Packet \in FanoutPart!Packets /\ FanoutPart!Packet \in FanoutPart!ToSet(queue) /\ FanoutPart!Packet.talk \in 1..Len(talks)
  <2>1. FanoutPart!Packet \in FanoutPart!Packets /\ FanoutPart!Packet \in FanoutPart!ToSet(queue)
    BY <1>1, LineTail DEF FanoutPart!Packet
  <2>2. FanoutPart!Packet.talk \in Nat \ {0} /\ FanoutPart!Packet.talk <= Len(talks)
    BY <2>1, PacketIs DEF Ready, FanoutPart!LineUp
  <2>. QED
    BY <1>1, <2>1, <2>2
<1>3. FanoutPart!Module \in Modules
  <2>1. PICK R : R = [by : Clients \cup {None}, module : Modules, local : BOOLEAN]
    OBVIOUS
  <2>2. talks \in Seq(R)
    BY <1>1, <2>1 DEF FanoutPart!TypeOK
  <2>3. \A t \in 1..Len(talks) : talks[t] \in R
    BY <2>2
  <2>. QED
    BY <1>2, <2>1, <2>3 DEF FanoutPart!Module
<1>4. FanoutPart!ModuleOf(FanoutPart!Packet) = FanoutPart!Module
  BY DEF FanoutPart!ModuleOf, FanoutPart!Module
<1>5. FanoutPart!Packet \in FanoutPart!Way(FanoutPart!Module)
  BY <1>2, <1>4 DEF FanoutPart!Way, FanoutPart!InQueue
<1>6. FanoutPart!Packet.header => ~FanoutPart!Packet.last
  BY <1>3, <1>5 DEF Ready, FanoutPart!Account, FanoutPart!Origins
<1>. QED
  BY <1>1, <1>2, <1>3, <1>4, <1>6 DEF AtHand

\* P, a packet of module M, is taken.
Took(P, M) ==
  /\ Ready /\ FanoutPart!TypeOK' /\ AtHand /\ P = FanoutPart!Packet /\ M = FanoutPart!Module
  /\ UNCHANGED <<protocol, talks, now, codec>>
  /\ CacheEffect /\ OutEffect
  /\ FanoutPart!Way(M) = FanoutPart!Way(M)' \cup {P}
  /\ \A q \in FanoutPart!Way(M)' : FanoutPart!Precedes(P, q)

LEMMA HandleTakes ==
  ASSUME Ready, FanoutPart!HandleQueue
  PROVE  /\ MoreTalks /\ UNCHANGED <<protocol, talks>> /\ FanoutPart!LineUp'
         /\ \E P \in FanoutPart!Packets : \E M \in Modules :
              Took(P, M) /\ \A n \in Modules : n # M => FanoutPart!Account(n)'
<1>1. queue # <<>>
  BY DEF FanoutPart!HandleQueue
<1>2. /\ AtHand /\ FanoutPart!Packet \in FanoutPart!ToSet(queue) /\ FanoutPart!ModuleOf(FanoutPart!Packet) = FanoutPart!Module
  BY <1>1, FrontIs
<1>3. /\ queue' = Tail(queue)
      /\ UNCHANGED <<protocol, linked, talks, now, codec, stream>>
      /\ CacheEffect /\ OutEffect /\ FanoutPart!TypeOK'
  <2>1. FanoutPart!TypeOK /\ \A p \in FanoutPart!ToSet(queue) : p.talk <= Len(talks)
    BY DEF Ready, FanoutPart!LineUp
  <2>. QED
    BY <1>2, <2>1, HandleDoes DEF AtHand
<1>4. PICK P \in FanoutPart!Packets : P = FanoutPart!Packet
  BY <1>2 DEF AtHand
<1>5. PICK M \in Modules : M = FanoutPart!Module
  BY <1>2 DEF AtHand
<1>6. /\ FanoutPart!TypeOK /\ Len(talks) \in Nat /\ queue \in Seq(FanoutPart!Packets) /\ FanoutPart!OrderedByModule(queue)
      /\ \A n \in Modules : FanoutPart!Line(n)
      /\ \A p \in FanoutPart!ToSet(queue) : p.talk <= Len(talks)
  BY DEF Ready, FanoutPart!LineUp, FanoutPart!TypeOK
<1>7. MoreTalks
  BY <1>3, <1>6 DEF MoreTalks
<1>8. /\ P = Head(queue) /\ FanoutPart!ToSet(queue) = FanoutPart!ToSet(queue') \cup {P}
      /\ FanoutPart!OrderedByModule(queue')
      /\ \A p \in FanoutPart!ToSet(queue') : FanoutPart!ModuleOf(p) = M => FanoutPart!Precedes(P, p)
      /\ FanoutPart!ModuleOf(P) = M
  BY <1>1, <1>2, <1>3, <1>4, <1>5, <1>6, LineTail DEF FanoutPart!Packet
<1>9. /\ \A n \in Modules : n # M => FanoutPart!InQueue(n)' = FanoutPart!InQueue(n)
      /\ FanoutPart!InQueue(M) = FanoutPart!InQueue(M)' \cup {P}
      /\ \A p \in FanoutPart!InQueue(M)' : FanoutPart!Precedes(P, p)
  <2>1. \A n \in Modules : FanoutPart!InQueue(n)' = {p \in FanoutPart!ToSet(queue') : FanoutPart!ModuleOf(p) = n}
    BY <1>3 DEF FanoutPart!InQueue, FanoutPart!ModuleOf, FanoutPart!ToSet
  <2>. QED
    BY <1>8, <2>1 DEF FanoutPart!InQueue
<1>10. \A n \in Modules :
         /\ FanoutPart!ToSet(stream[n])' = FanoutPart!ToSet(stream[n]) /\ FanoutPart!ToSet(codec[n])' = FanoutPart!ToSet(codec[n])
         /\ stream'[n] = stream[n] /\ codec'[n] = codec[n]
  BY <1>3 DEF FanoutPart!ToSet
<1>11. /\ FanoutPart!Way(M) = FanoutPart!Way(M)' \cup {P}
       /\ \A q \in FanoutPart!Way(M)' : FanoutPart!Precedes(P, q)
  <2>1. \A q \in FanoutPart!ToSet(stream[M]) \cup FanoutPart!ToSet(codec[M]) : FanoutPart!Precedes(P, q)
    BY <1>6, <1>9 DEF FanoutPart!Line, FanoutPart!AllBefore
  <2>2. FanoutPart!Way(M)' = FanoutPart!InQueue(M)' \cup FanoutPart!ToSet(stream[M]) \cup FanoutPart!ToSet(codec[M])
    BY <1>10 DEF FanoutPart!Way
  <2>3. FanoutPart!Way(M) = FanoutPart!InQueue(M) \cup FanoutPart!ToSet(stream[M]) \cup FanoutPart!ToSet(codec[M])
    BY <1>6, WayIs
  <2>. QED
    BY <1>9, <2>1, <2>2, <2>3
<1>12. Took(P, M)
  BY <1>2, <1>3, <1>4, <1>5, <1>11 DEF Took
<1>13. ASSUME NEW n \in Modules PROVE FanoutPart!Line(n)'
  <2>1. FanoutPart!InQueue(n)' \subseteq FanoutPart!InQueue(n)
    BY <1>9
  <2>2. FanoutPart!Ordered(stream[n])' /\ FanoutPart!Ordered(codec[n])'
    BY <1>6, <1>10 DEF FanoutPart!Line, FanoutPart!Ordered, FanoutPart!Precedes
  <2>3. /\ FanoutPart!AllBefore(FanoutPart!InQueue(n), FanoutPart!ToSet(stream[n]))'
        /\ FanoutPart!AllBefore(FanoutPart!InQueue(n), FanoutPart!ToSet(codec[n]))'
    BY <1>6, <1>10, <2>1 DEF FanoutPart!Line, FanoutPart!AllBefore, FanoutPart!Precedes
  <2>4. FanoutPart!AllBefore(FanoutPart!ToSet(stream[n]), FanoutPart!ToSet(codec[n]))'
    BY <1>6, <1>10 DEF FanoutPart!Line, FanoutPart!AllBefore, FanoutPart!Precedes
  <2>. QED
    BY <2>2, <2>3, <2>4 DEF FanoutPart!Line
<1>14. FanoutPart!LineUp'
  <2>1. FanoutPart!OrderedByModule(queue)'
    BY <1>3, <1>8 DEF FanoutPart!OrderedByModule, FanoutPart!ModuleOf, FanoutPart!Precedes
  <2>2. \A p \in FanoutPart!ToSet(queue)' : p.talk <= Len(talks')
    BY <1>3, <1>6, <1>8 DEF FanoutPart!ToSet
  <2>. QED
    BY <1>13, <2>1, <2>2 DEF FanoutPart!LineUp
<1>15. ASSUME NEW n \in Modules, n # M PROVE FanoutPart!Account(n)'
  <2>1. SameAt(n) /\ FanoutPart!InQueue(n)' = FanoutPart!InQueue(n)
    BY <1>3, <1>5, <1>9, <1>15 DEF SameAt, CacheEffect, OutEffect
  <2>. QED
    BY <1>3, <1>7, <2>1, RestStays
<1>. QED
  BY <1>3, <1>7, <1>12, <1>14, <1>15

\* What was on its way with P, and where P stood.
LEMMA TookIs ==
  ASSUME NEW P \in FanoutPart!Packets, NEW M \in Modules, Took(P, M)
  PROVE  /\ P.talk \in 1..Len(talks) /\ P.pid \in Nat /\ Len(talks) \in Nat
         /\ P \in FanoutPart!Way(M) /\ FanoutPart!TypeOK /\ FanoutPart!Account(M)
         /\ P.header => P.pid = 0 /\ ~P.last
         /\ FanoutPart!Open(M) => FanoutPart!Past(M, P)
         /\ M \in Prompt => P.talk = now[M].talk
         /\ FanoutPart!Way(M)' \subseteq FanoutPart!Way(M)
         /\ \A q \in FanoutPart!Way(M) : q \in FanoutPart!Packets /\ (q = P \/ q \in FanoutPart!Way(M)')
         /\ \A q \in FanoutPart!Way(M)' : FanoutPart!Precedes(P, q)
         /\ FanoutPart!Open(M)' <=> FanoutPart!Open(M)
         /\ FanoutPart!KeepsHeader' <=> FanoutPart!KeepsHeader
         /\ FanoutPart!Size(protocol)' = FanoutPart!Size(protocol) /\ FanoutPart!Step' = FanoutPart!Step
         /\ ~P.header => [talk |-> P.talk, pid |-> P.pid] \in FanoutPart!Coming(M)
         /\ \A c \in FanoutPart!Coming(M)' :
              /\ c \in FanoutPart!Coming(M) /\ c.talk \in Nat /\ c.pid \in Nat
              /\ P.talk < c.talk \/ (P.talk = c.talk /\ (P.header \/ P.pid < c.pid))
<1>1. /\ FanoutPart!TypeOK /\ FanoutPart!Account(M) /\ FanoutPart!Origins(M) /\ P.talk \in 1..Len(talks) /\ P.pid \in Nat
      /\ Len(talks) \in Nat /\ P \in FanoutPart!Way(M)
  <2>1. FanoutPart!TypeOK /\ FanoutPart!Account(M) /\ FanoutPart!Origins(M) /\ P.talk \in 1..Len(talks) /\ P \in FanoutPart!Way(M)
    BY DEF Took, Ready, FanoutPart!Account, AtHand
  <2>. QED
    BY <2>1, NowIs, PacketIs
<1>2. /\ P.header => P.pid = 0 /\ ~P.last
      /\ FanoutPart!Open(M) => FanoutPart!Past(M, P)
      /\ M \in Prompt => P.talk = now[M].talk
  BY <1>1 DEF FanoutPart!Origins
<1>3. /\ FanoutPart!Way(M)' \subseteq FanoutPart!Way(M)
      /\ \A q \in FanoutPart!Way(M) : q = P \/ q \in FanoutPart!Way(M)'
      /\ \A q \in FanoutPart!Way(M)' : FanoutPart!Precedes(P, q)
  BY DEF Took
<1>4. /\ FanoutPart!Open(M)' <=> FanoutPart!Open(M)
      /\ FanoutPart!KeepsHeader' <=> FanoutPart!KeepsHeader
      /\ FanoutPart!Size(protocol)' = FanoutPart!Size(protocol) /\ FanoutPart!Step' = FanoutPart!Step
  BY DEF Took, FanoutPart!Open, FanoutPart!KeepsHeader, FanoutPart!Size, FanoutPart!Step
<1>5. \A q \in FanoutPart!Way(M) : q \in FanoutPart!Packets
  BY <1>1, WayIs
<1>6. ~P.header => [talk |-> P.talk, pid |-> P.pid] \in FanoutPart!Coming(M)
  BY <1>1 DEF FanoutPart!Coming
<1>7. now'[M] = now[M] /\ now[M].talk \in Nat /\ now[M].pid \in Nat
  BY <1>1, NowIs DEF Took
<1>8. ASSUME NEW c \in FanoutPart!Coming(M)'
      PROVE  /\ c \in FanoutPart!Coming(M) /\ c.talk \in Nat /\ c.pid \in Nat
             /\ P.talk < c.talk \/ (P.talk = c.talk /\ (P.header \/ P.pid < c.pid))
  <2>1. CASE \E q \in FanoutPart!Way(M)' : ~q.header /\ c = [talk |-> q.talk, pid |-> q.pid]
    <3>1. PICK q \in FanoutPart!Way(M)' : ~q.header /\ c = [talk |-> q.talk, pid |-> q.pid]
      BY <2>1
    <3>2. q \in FanoutPart!Way(M) /\ q \in FanoutPart!Packets /\ FanoutPart!Precedes(P, q)
      BY <1>3, <1>5, <3>1
    <3>3. q.talk \in Nat /\ q.pid \in Nat
      BY <3>2, PacketIs
    <3>4. c \in FanoutPart!Coming(M)
      BY <3>1, <3>2 DEF FanoutPart!Coming
    <3>. QED
      BY <1>1, <3>1, <3>2, <3>3, <3>4 DEF FanoutPart!Precedes
  <2>2. CASE FanoutPart!Open(M)' /\ ~now'[M].over /\ c = [talk |-> now'[M].talk, pid |-> now'[M].pid]
    <3>1. c \in FanoutPart!Coming(M)
      BY <1>4, <1>7, <2>2 DEF FanoutPart!Coming
    <3>2. FanoutPart!Past(M, P)
      BY <1>2, <1>4, <2>2
    <3>. QED
      BY <1>1, <1>7, <2>2, <3>1, <3>2 DEF FanoutPart!Past
  <2>. QED
    BY <2>1, <2>2 DEF FanoutPart!Coming
<1>. QED
  BY <1>1, <1>2, <1>3, <1>4, <1>5, <1>6, <1>8

\* What goes out, if anything, ends with P.
LEMMA TookOut ==
  ASSUME NEW P \in FanoutPart!Packets, NEW M \in Modules, Took(P, M)
  PROVE  /\ \A n \in Modules : n # M => out'[n] = out[n]
         /\ GoesOut => /\ out'[M].kind = FanoutPart!Kind(P) /\ out'[M].header = TheHeaderSent
                       /\ out'[M].frames = TheFramesSent /\ out'[M].to = FanoutPart!Listeners(M)
                       /\ FanoutPart!Newest(out'[M]) = P /\ FanoutPart!Newest(out[M])' = P
         /\ ~GoesOut => out'[M] = out[M] /\ FanoutPart!Newest(out[M])' = FanoutPart!Newest(out[M])
<1>1. CASE GoesOut
  <2>1. TheFramesSent[Len(TheFramesSent)] = P
    BY FramesSent DEF Took
  <2>. QED
    BY <1>1, <2>1 DEF Took, OutEffect, FanoutPart!Newest
<1>2. CASE ~GoesOut
  BY <1>2 DEF Took, OutEffect, FanoutPart!Newest
<1>. QED
  BY <1>1, <1>2

\* What is kept of the header is that of P, unless P is the header.
LEMMA TookHeader ==
  ASSUME NEW P \in FanoutPart!Packets, NEW M \in Modules, Took(P, M)
  PROVE  /\ FanoutPart!KeepsHeader /\ ~P.header => cache[M].header = P.talk
         /\ FanoutPart!KeepsHeader => cache'[M].header = P.talk
         /\ GoesOut => out'[M].header = P.talk
<1>1. FanoutPart!HeaderKept(M) /\ P \in FanoutPart!Way(M) /\ \A q \in FanoutPart!Way(M) : q = P \/ FanoutPart!Precedes(P, q)
  BY TookIs DEF FanoutPart!Account
<1>2. ASSUME FanoutPart!KeepsHeader, ~P.header PROVE cache[M].header = P.talk
  <2>1. FanoutPart!Announced(M, P.talk)
    BY <1>1, <1>2 DEF FanoutPart!HeaderKept
  <2>2. ASSUME NEW q \in FanoutPart!Way(M), q.header, q.talk = P.talk PROVE FALSE
    <3>1. FanoutPart!Precedes(P, q)
      BY <1>1, <1>2, <2>2
    <3>. QED
      BY <2>2, <3>1, PacketIs DEF FanoutPart!Precedes
  <2>. QED
    BY <2>1, <2>2 DEF FanoutPart!Announced
<1>3. ASSUME FanoutPart!KeepsHeader PROVE cache'[M].header = P.talk
  BY <1>2, <1>3 DEF Took, CacheEffect
<1>4. ASSUME GoesOut PROVE out'[M].header = P.talk
  <2>1. out'[M].header = TheHeaderSent
    BY <1>4, TookOut
  <2>2. P = FanoutPart!Packet /\ M = FanoutPart!Module
    BY DEF Took
  <2>. QED
    BY <1>2, <2>1, <2>2 DEF TheHeaderSent, FanoutPart!KeepsHeader
<1>. QED
  BY <1>2, <1>3, <1>4

\* M17 counts right.
LEMMA TookCount ==
  ASSUME NEW P \in FanoutPart!Packets, NEW M \in Modules, Took(P, M),
         M \notin Transcoded, protocol = "m17", ~P.header
  PROVE  cache[M].seq = P.pid
<1>. DEFINE c == [talk |-> P.talk, pid |-> P.pid]
<1>1. c \in FanoutPart!Coming(M) /\ FanoutPart!Counted(M)
  BY TookIs DEF FanoutPart!Account, FanoutPart!Unbroken
<1>2. \A q \in FanoutPart!Way(M) : q \in FanoutPart!Packets /\ (q = P \/ FanoutPart!Precedes(P, q))
  BY TookIs
<1>3. ASSUME NEW q \in FanoutPart!Way(M), q.talk = c.talk, IF q.header THEN c.pid = 0 ELSE c.pid = q.pid + 1
      PROVE  FALSE
  <2>1. q.pid \in Nat /\ P.pid \in Nat /\ P.talk \in Nat
    BY <1>2, <1>3, PacketIs
  <2>. QED
    BY <1>2, <1>3, <2>1 DEF FanoutPart!Precedes
<1>. QED
  BY <1>1, <1>3 DEF FanoutPart!Counted

\* A voice frame goes out if it completes a group, and no other does.
LEMMA TookCompletes ==
  ASSUME NEW P \in FanoutPart!Packets, NEW M \in Modules, Took(P, M),
         M \notin Transcoded, FanoutPart!Kind(P) = "voice",
         protocol = "urf" => talks[P.talk].local
  PROVE  GoesOut <=> FanoutPart!Completes(P.pid)
<1>1. P = FanoutPart!Packet /\ M = FanoutPart!Module /\ ~P.header /\ ~P.last /\ P.pid \in Nat
  BY TookIs DEF Took, FanoutPart!Kind
<1>2. /\ FanoutPart!TypeOK /\ protocol \in FanoutPart!Protocols
      /\ protocol = "m17" => FanoutPart!Step = 2 /\ cache[M].seq = P.pid
      /\ protocol # "m17" => FanoutPart!Step = FanoutPart!Size(protocol)
  BY <1>1, TookIs, TookCount, Sizes, FanoutIs DEF FanoutPart!TypeOK
<1>3. CASE protocol = "m17"
  BY <1>1, <1>2, <1>3 DEF GoesOut, FanoutPart!Completes
<1>4. CASE protocol \in {"mmdvm", "nxdn", "ysf"}
  BY <1>1, <1>2, <1>4 DEF GoesOut, FanoutPart!Completes
<1>5. CASE protocol \in {"dextra", "dplus", "dcs", "p25", "urf"}
  <2>1. FanoutPart!Step = 1
    BY <1>2, <1>5 DEF FanoutPart!Size
  <2>2. FanoutPart!Completes(P.pid)
    BY <1>1, <2>1 DEF FanoutPart!Completes
  <2>. QED
    BY <1>1, <1>5, <2>2 DEF GoesOut
<1>. QED
  BY <1>2, <1>3, <1>4, <1>5 DEF FanoutPart!Protocols

LEMMA TookOrigins ==
  ASSUME NEW P \in FanoutPart!Packets, NEW M \in Modules, Took(P, M)
  PROVE  FanoutPart!Origins(M)'
<1>1. FanoutPart!Origins(M) /\ FanoutPart!Way(M)' \subseteq FanoutPart!Way(M) /\ (FanoutPart!Open(M)' <=> FanoutPart!Open(M))
  BY TookIs DEF FanoutPart!Account
<1>2. UNCHANGED <<talks, now, codec>>
  BY DEF Took
<1>3. FanoutPart!ToSet(codec[M])' = FanoutPart!ToSet(codec[M])
  BY <1>2 DEF FanoutPart!ToSet
<1>. QED
  BY <1>1, <1>2, <1>3 DEF FanoutPart!Origins, FanoutPart!ModuleOf, FanoutPart!Past

LEMMA TookHeaderKept ==
  ASSUME NEW P \in FanoutPart!Packets, NEW M \in Modules, Took(P, M)
  PROVE  FanoutPart!HeaderKept(M)'
<1>1. SUFFICES ASSUME FanoutPart!KeepsHeader
               PROVE  /\ \A p \in FanoutPart!Way(M)' :
                           IF p.header THEN p.talk > cache'[M].header ELSE FanoutPart!Announced(M, p.talk)'
                      /\ FanoutPart!Open(M)' => FanoutPart!Announced(M, now[M].talk)'
  <2>1. (FanoutPart!KeepsHeader' <=> FanoutPart!KeepsHeader) /\ now' = now
    BY TookIs DEF Took
  <2>. QED
    BY <2>1 DEF FanoutPart!HeaderKept, FanoutPart!Announced
<1>2. cache'[M].header = P.talk
  BY <1>1, TookHeader
<1>3. FanoutPart!HeaderKept(M) /\ \A q \in FanoutPart!Way(M) : q = P \/ q \in FanoutPart!Way(M)'
  BY TookIs DEF FanoutPart!Account
<1>4. cache[M].header \in Nat /\ P.talk \in Nat /\ now[M].talk \in Nat
  <2>1. P.talk \in 1..Len(talks) /\ Len(talks) \in Nat
    BY TookIs
  <2>2. cache[M].header \in 0..Len(talks) /\ now[M].talk \in 0..Len(talks)
    BY TookIs, NowIs
  <2>. QED
    BY <2>1, <2>2
<1>5. ASSUME NEW t \in Nat, FanoutPart!Announced(M, t), P.talk <= t PROVE FanoutPart!Announced(M, t)'
  <2>1. CASE cache[M].header = t
    <3>1. CASE P.header
      <4>1. P.talk > cache[M].header
        BY <1>1, <1>3, <3>1, TookIs DEF FanoutPart!HeaderKept
      <4>. QED
        BY <1>4, <1>5, <2>1, <4>1
    <3>2. CASE ~P.header
      BY <1>1, <1>2, <2>1, <3>2, TookHeader DEF FanoutPart!Announced
    <3>. QED
      BY <3>1, <3>2
  <2>2. CASE \E p \in FanoutPart!Way(M) : p.header /\ p.talk = t
    BY <1>2, <1>3, <2>2 DEF FanoutPart!Announced
  <2>. QED
    BY <1>5, <2>1, <2>2 DEF FanoutPart!Announced
<1>6. ASSUME NEW p \in FanoutPart!Way(M)'
      PROVE  IF p.header THEN p.talk > cache'[M].header ELSE FanoutPart!Announced(M, p.talk)'
  <2>1. p \in FanoutPart!Way(M) /\ FanoutPart!Precedes(P, p) /\ p.talk \in Nat
    BY <1>6, TookIs, PacketIs
  <2>2. CASE p.header
    BY <1>2, <1>4, <2>1, <2>2 DEF FanoutPart!Precedes
  <2>3. CASE ~p.header
    <3>1. FanoutPart!Announced(M, p.talk)
      BY <1>1, <1>3, <2>1, <2>3 DEF FanoutPart!HeaderKept
    <3>2. P.talk <= p.talk
      BY <1>4, <2>1 DEF FanoutPart!Precedes
    <3>. QED
      BY <1>5, <2>1, <2>3, <3>1, <3>2
  <2>. QED
    BY <2>2, <2>3
<1>7. ASSUME FanoutPart!Open(M)' PROVE FanoutPart!Announced(M, now[M].talk)'
  <2>1. PICK t \in Nat : t = now[M].talk /\ t = now'[M].talk
    BY <1>4 DEF Took
  <2>2. FanoutPart!Open(M) /\ FanoutPart!Past(M, P)
    BY <1>7, TookIs
  <2>3. FanoutPart!Announced(M, t)
    BY <1>1, <1>3, <2>1, <2>2 DEF FanoutPart!HeaderKept
  <2>4. P.talk <= t
    BY <1>4, <2>1, <2>2 DEF FanoutPart!Past
  <2>5. FanoutPart!Announced(M, t)'
    BY <1>5, <2>3, <2>4
  <2>. QED
    BY <2>1, <2>5 DEF FanoutPart!Announced
<1>. QED
  BY <1>6, <1>7

LEMMA TookSent ==
  ASSUME NEW P \in FanoutPart!Packets, NEW M \in Modules, Took(P, M)
  PROVE  FanoutPart!Sent(M)'
<1>1. CASE GoesOut
  <2>1. out'[M].kind = FanoutPart!Kind(P) /\ FanoutPart!Newest(out[M])' = P
    BY <1>1, TookOut
  <2>2. P.talk <= Len(talks') /\ (P.header <=> FanoutPart!Kind(P) = "header")
    <3>1. P.talk \in 1..Len(talks) /\ Len(talks) \in Nat /\ talks' = talks
      BY TookIs DEF Took
    <3>2. P.header <=> FanoutPart!Kind(P) = "header"
      BY PacketIs DEF FanoutPart!Kind
    <3>. QED
      BY <3>1, <3>2
  <2>3. \A p \in FanoutPart!Way(M)' : FanoutPart!Precedes(P, p)
    BY TookIs
  <2>4. FanoutPart!Open(M)' => FanoutPart!Past(M, P)'
    BY TookIs DEF Took, FanoutPart!Past
  <2>5. FanoutPart!Kind(P) = "voice" /\ M \notin Transcoded => FanoutPart!Completes(P.pid)'
    <3>1. SUFFICES ASSUME FanoutPart!Kind(P) = "voice", M \notin Transcoded PROVE FanoutPart!Completes(P.pid)'
      OBVIOUS
    <3>2. protocol = "urf" => talks[P.talk].local
      BY <1>1 DEF Took, GoesOut
    <3>3. FanoutPart!Completes(P.pid)
      BY <1>1, <3>1, <3>2, TookCompletes
    <3>. QED
      BY <3>3, TookIs DEF FanoutPart!Completes
  <2>. QED
    BY <2>1, <2>2, <2>3, <2>4, <2>5 DEF FanoutPart!Sent, FanoutPart!Precedes, FanoutPart!Past, FanoutPart!Completes
<1>2. CASE ~GoesOut
  <2>1. out'[M] = out[M] /\ FanoutPart!Newest(out[M])' = FanoutPart!Newest(out[M])
    BY <1>2, TookOut
  <2>2. FanoutPart!Sent(M) /\ now' = now /\ talks' = talks
    BY TookIs DEF FanoutPart!Account, Took
  <2>. QED
    BY <2>1, <2>2, TookIs DEF FanoutPart!Sent, FanoutPart!Precedes, FanoutPart!Past, FanoutPart!Completes
<1>. QED
  BY <1>1, <1>2

LEMMA TookGapless ==
  ASSUME NEW P \in FanoutPart!Packets, NEW M \in Modules, Took(P, M), FanoutPart!Gapless(M)
  PROVE  FanoutPart!Gapless(M)'
<1>1. SUFFICES ASSUME NEW c \in FanoutPart!Coming(M)', NEW p \in FanoutPart!Way(M)', p.talk = c.talk,
                      NEW k \in 0..c.pid - 1, p.header \/ p.pid < k
               PROVE  FanoutPart!Frame(c.talk, k) \in FanoutPart!Way(M)'
  BY DEF FanoutPart!Gapless, FanoutPart!Frame
<1>2. c \in FanoutPart!Coming(M) /\ p \in FanoutPart!Way(M) /\ FanoutPart!Precedes(P, p) /\ p \in FanoutPart!Packets
  BY <1>1, TookIs
<1>3. FanoutPart!Frame(c.talk, k) \in FanoutPart!Way(M)
  BY <1>1, <1>2 DEF FanoutPart!Gapless
<1>4. FanoutPart!Frame(c.talk, k) # P
  <2>1. SUFFICES ASSUME P = FanoutPart!Frame(c.talk, k) PROVE FALSE
    OBVIOUS
  <2>2. P.talk = p.talk /\ P.pid = k /\ P.header = FALSE
    BY <1>1, <2>1 DEF FanoutPart!Frame
  <2>3. p.talk \in Nat /\ p.pid \in Nat /\ k \in Int
    BY <1>2, PacketIs
  <2>. QED
    BY <1>1, <1>2, <2>2, <2>3 DEF FanoutPart!Precedes
<1>. QED
  BY <1>3, <1>4, TookIs

LEMMA TookGroup ==
  ASSUME NEW P \in FanoutPart!Packets, NEW M \in Modules, Took(P, M), FanoutPart!GroupKept(M)
  PROVE  FanoutPart!GroupKept(M)'
<1>1. PICK s \in {1, 2, 3, 4, 5} : s = FanoutPart!Size(protocol)
  BY TookIs, Sizes
<1>2. \A k \in 0..s - 1 : k \in 0..FanoutPart!MaxSize - 1
  BY DEF FanoutPart!MaxSize
<1>3. \A k \in 0..s - 1 : cache'[M].frames[k] = IF InGroup(k) THEN P ELSE cache[M].frames[k]
  BY <1>2 DEF Took, CacheEffect
<1>4. \A k \in 0..s - 1 :
        InGroup(k) <=> s > 1 /\ ~P.header /\ ~P.last /\ k = P.pid % s
  <2>1. P = FanoutPart!Packet
    BY DEF Took
  <2>. QED
    BY <1>1, <2>1 DEF InGroup
<1>5. P.talk \in Nat /\ P.pid \in Nat /\ P.talk <= Len(talks) /\ talks' = talks
  <2>1. P.talk \in 1..Len(talks) /\ P.pid \in Nat /\ Len(talks) \in Nat
    BY TookIs
  <2>. QED
    BY <2>1 DEF Took
<1>6. ASSUME NEW k \in 0..s - 1, cache'[M].frames[k] # None
      PROVE  /\ cache'[M].frames[k].talk <= Len(talks')
             /\ \A p \in FanoutPart!Way(M)' : FanoutPart!Precedes(cache'[M].frames[k], p)
             /\ FanoutPart!Open(M)' => FanoutPart!Past(M, cache[M].frames[k])'
  <2>1. CASE InGroup(k)
    <3>1. cache'[M].frames[k] = P /\ \A p \in FanoutPart!Way(M)' : FanoutPart!Precedes(P, p)
      BY <1>3, <2>1, TookIs
    <3>2. FanoutPart!Open(M)' => FanoutPart!Past(M, P)'
      BY TookIs DEF Took, FanoutPart!Past
    <3>. QED
      BY <1>5, <3>1, <3>2 DEF FanoutPart!Past
  <2>2. CASE ~InGroup(k)
    <3>1. cache'[M].frames[k] = cache[M].frames[k] /\ now' = now
      BY <1>3, <2>2 DEF Took
    <3>2. /\ cache[M].frames[k].talk <= Len(talks)
          /\ \A p \in FanoutPart!Way(M) : FanoutPart!Precedes(cache[M].frames[k], p)
          /\ FanoutPart!Open(M) => FanoutPart!Past(M, cache[M].frames[k])
      BY <1>1, <1>6, <3>1 DEF FanoutPart!GroupKept
    <3>. QED
      BY <1>5, <3>1, <3>2, TookIs DEF FanoutPart!Past
  <2>. QED
    BY <2>1, <2>2
<1>7. ASSUME NEW c \in FanoutPart!Coming(M)', NEW k \in 0..s - 1, k < c.pid % s,
             NEW f, f = FanoutPart!Frame(c.talk, c.pid - (c.pid % s) + k)
      PROVE  cache'[M].frames[k] = f \/ f \in FanoutPart!Way(M)'
  <2>1. /\ c \in FanoutPart!Coming(M) /\ c.talk \in Nat /\ c.pid \in Nat
        /\ P.talk < c.talk \/ (P.talk = c.talk /\ (P.header \/ P.pid < c.pid))
    BY TookIs
  <2>2. cache[M].frames[k] = f \/ f \in FanoutPart!Way(M)
    BY <1>1, <1>7, <2>1 DEF FanoutPart!GroupKept
  <2>3. /\ f.talk = c.talk /\ f.header = FALSE /\ f.last = FALSE
        /\ f.pid = c.pid - (c.pid % s) + k
    BY <1>7 DEF FanoutPart!Frame
  <2>4. PICK b \in Nat : b = c.pid - (c.pid % s) /\ c.pid < b + s /\ c.pid % s \in 0..s - 1
    <3>1. c.pid % s \in 0..s - 1 /\ c.pid - (c.pid % s) \in Nat
      BY <2>1, GroupNext
    <3>2. PICK r \in 0..s - 1 : r = c.pid % s
      BY <3>1
    <3>3. c.pid - r \in Nat /\ c.pid < (c.pid - r) + s
      BY <2>1, <3>1, <3>2
    <3>. QED
      BY <3>1, <3>2, <3>3
  <2>5. s > 1 /\ f.pid = b + k /\ f.pid \in Nat /\ f.pid % s = k
    <3>1. f.pid = b + k /\ f.pid \in Nat /\ b + k < b + s /\ b <= b + k /\ s > 1
      BY <1>7, <2>3, <2>4
    <3>2. f.pid % s = f.pid - b
      BY <2>1, <2>4, <3>1, GroupPlace
    <3>. QED
      BY <3>1, <3>2
  <2>6. CASE f = P
    <3>1. InGroup(k)
      BY <1>4, <2>3, <2>5, <2>6
    <3>. QED
      BY <1>3, <2>6, <3>1
  <2>7. CASE f \in FanoutPart!Way(M) /\ f # P
    BY <2>7, TookIs
  <2>8. CASE cache[M].frames[k] = f /\ f # P
    <3>1. CASE ~InGroup(k)
      BY <1>3, <2>8, <3>1
    <3>2. CASE InGroup(k)
      <4>1. ~P.header /\ k = P.pid % s
        BY <1>4, <3>2
      <4>2. f # None
        <5>1. f \in FanoutPart!Packets
          <6>1. f = [talk |-> c.talk, header |-> FALSE, pid |-> b + k, last |-> FALSE]
            BY <1>7, <2>4 DEF FanoutPart!Frame
          <6>2. c.talk \in Nat \ {0}
            BY <1>5, <2>1, PacketIs
          <6>. QED
            BY <2>5, <6>1, <6>2 DEF FanoutPart!Packets
        <5>. QED
          BY <5>1, FanoutIs
      <4>3. FanoutPart!Precedes(f, P)
        BY <1>1, <2>8, <4>2, TookIs DEF FanoutPart!GroupKept
      <4>4. P.talk = c.talk /\ f.pid < P.pid /\ P.pid < c.pid
        BY <1>5, <2>1, <2>3, <4>1, <4>3 DEF FanoutPart!Precedes
      <4>5. b <= P.pid /\ P.pid < b + s /\ k \in Int /\ b + k < P.pid
        <5>1. b + k < P.pid /\ k \in Nat
          BY <2>5, <4>4
        <5>2. P.pid < b + s
          BY <1>5, <2>1, <2>4, <4>4
        <5>. QED
          BY <1>5, <5>1, <5>2
      <4>6. P.pid % s = P.pid - b
        BY <1>5, <2>1, <2>4, <4>5, GroupPlace
      <4>. QED
        BY <1>5, <4>1, <4>5, <4>6
    <3>. QED
      BY <3>1, <3>2
  <2>. QED
    BY <2>2, <2>6, <2>7, <2>8
<1>8. FanoutPart!Size(protocol)' = s
  BY <1>1, TookIs
<1>. QED
  BY <1>6, <1>7, <1>8 DEF FanoutPart!GroupKept, FanoutPart!Frame, FanoutPart!Precedes

LEMMA TookCounted ==
  ASSUME NEW P \in FanoutPart!Packets, NEW M \in Modules, Took(P, M),
         M \notin Transcoded, protocol = "m17", FanoutPart!Counted(M)
  PROVE  FanoutPart!Counted(M)'
<1>1. SUFFICES ASSUME NEW c \in FanoutPart!Coming(M)'
               PROVE  \/ cache'[M].header = c.talk /\ cache'[M].seq = c.pid
                      \/ \E p \in FanoutPart!Way(M)' :
                           p.talk = c.talk /\ IF p.header THEN c.pid = 0 ELSE c.pid = p.pid + 1
  BY DEF FanoutPart!Counted
<1>2. /\ c \in FanoutPart!Coming(M) /\ c.talk \in Nat /\ c.pid \in Nat
      /\ P.talk < c.talk \/ (P.talk = c.talk /\ (P.header \/ P.pid < c.pid))
      /\ P.talk \in Nat /\ P.pid \in Nat
  BY TookIs, PacketIs
<1>3. FanoutPart!KeepsHeader /\ cache'[M].header = P.talk
  BY TookHeader DEF FanoutPart!KeepsHeader
<1>4. /\ P.header => cache'[M].seq = 0
      /\ ~P.header => cache[M].header = P.talk /\ cache[M].seq = P.pid /\ cache'[M].seq = P.pid + 1
  <2>1. P.header => cache'[M].seq = 0
    BY <1>3 DEF Took, CacheEffect
  <2>2. ~P.header => cache[M].header = P.talk /\ cache[M].seq = P.pid
    BY <1>3, TookHeader, TookCount
  <2>3. ~P.header => cache'[M].seq = cache[M].seq + 1
    BY DEF Took, CacheEffect
  <2>. QED
    BY <2>1, <2>2, <2>3
<1>5. CASE cache[M].header = c.talk /\ cache[M].seq = c.pid
  <2>1. P.header => P.talk > cache[M].header
    BY <1>3, TookIs DEF FanoutPart!Account, FanoutPart!HeaderKept
  <2>2. cache[M].header \in Nat
    BY <1>2, <1>5
  <2>. QED
    BY <1>2, <1>4, <1>5, <2>1, <2>2
<1>6. ASSUME NEW p \in FanoutPart!Way(M), p.talk = c.talk,
             IF p.header THEN c.pid = 0 ELSE c.pid = p.pid + 1
      PROVE  \/ cache'[M].header = c.talk /\ cache'[M].seq = c.pid
             \/ p \in FanoutPart!Way(M)'
  <2>1. CASE p = P
    BY <1>3, <1>4, <1>6, <2>1
  <2>2. CASE p # P
    BY <2>2, TookIs
  <2>. QED
    BY <2>1, <2>2
<1>. QED
  BY <1>2, <1>5, <1>6 DEF FanoutPart!Counted

\* Of what is heard P leaves out nothing.
LEMMA TookNoneLeftOut ==
  ASSUME NEW P \in FanoutPart!Packets, NEW M \in Modules, Took(P, M), M \notin Transcoded,
         FanoutPart!Unbroken(M), FanoutPart!RightHeader, FanoutPart!NoEcho
  PROVE  FanoutPart!NoneLeftOut(M)'
<1>1. SUFFICES ASSUME out'[M].kind = "voice",
                      NEW c \in FanoutPart!Coming(M)', c.talk = out'[M].header,
                      NEW k \in 0..c.pid - 1, FanoutPart!Newest(out[M])'.pid < k, FanoutPart!Completes(k)
               PROVE  FanoutPart!Frame(c.talk, k) \in FanoutPart!Way(M)'
  <2>1. \A k : FanoutPart!Completes(k)' <=> FanoutPart!Completes(k)
    BY TookIs DEF FanoutPart!Completes
  <2>. QED
    BY <2>1 DEF FanoutPart!NoneLeftOut, FanoutPart!Newest, FanoutPart!Frame
<1>2. c \in FanoutPart!Coming(M) /\ c.talk \in Nat /\ c.pid \in Nat
  BY TookIs
<1>3. PICK F : F = FanoutPart!Frame(c.talk, k)
  OBVIOUS
<1>4. F.talk = c.talk /\ F.header = FALSE /\ F.pid = k /\ F.last = FALSE
  BY <1>3 DEF FanoutPart!Frame
<1>5. CASE GoesOut
  <2>1. /\ out'[M].header = P.talk /\ FanoutPart!Newest(out[M])' = P /\ FanoutPart!Kind(P) = "voice"
    BY <1>1, <1>5, TookOut, TookHeader
  <2>2. P.talk = c.talk /\ P.pid < k /\ P.pid \in Nat /\ P \in FanoutPart!Way(M)
    BY <1>1, <2>1, TookIs
  <2>3. F \in FanoutPart!Way(M)
    BY <1>1, <1>2, <1>3, <2>2 DEF FanoutPart!Unbroken, FanoutPart!Gapless
  <2>4. F # P
    BY <1>4, <2>2
  <2>. QED
    BY <1>3, <2>3, <2>4, TookIs
<1>6. CASE ~GoesOut
  <2>1. out'[M] = out[M] /\ FanoutPart!Newest(out[M])' = FanoutPart!Newest(out[M])
    BY <1>6, TookOut
  <2>2. F \in FanoutPart!Way(M)
    BY <1>1, <1>2, <1>3, <2>1 DEF FanoutPart!Unbroken, FanoutPart!NoneLeftOut
  <2>3. F # P
    <3>1. SUFFICES ASSUME F = P PROVE FALSE
      OBVIOUS
    <3>2. FanoutPart!Kind(P) = "voice" /\ P.talk = out[M].header
      BY <1>1, <1>4, <2>1, <3>1 DEF FanoutPart!Kind
    <3>3. protocol = "urf" => talks[P.talk].local
      <4>1. out[M].kind # "nothing"
        BY <1>1, <2>1
      <4>2. out[M].header = FanoutPart!Newest(out[M]).talk
        BY <4>1 DEF FanoutPart!RightHeader
      <4>. QED
        BY <3>2, <4>1, <4>2 DEF FanoutPart!NoEcho
    <3>4. FanoutPart!Completes(P.pid)
      BY <1>1, <1>4, <3>1
    <3>. QED
      BY <1>6, <3>2, <3>3, <3>4, TookCompletes
  <2>. QED
    BY <1>3, <2>2, <2>3, TookIs
<1>. QED
  BY <1>5, <1>6

LEMMA TookEnd ==
  ASSUME NEW P \in FanoutPart!Packets, NEW M \in Modules, Took(P, M), M \notin Transcoded,
         FanoutPart!Unbroken(M), FanoutPart!RightHeader
  PROVE  FanoutPart!EndComes(M)'
<1>1. SUFFICES ASSUME now[M].over
               PROVE  \/ \E p \in FanoutPart!Way(M)' : p.last /\ p.talk = now[M].talk /\ now[M].pid = p.pid + 1
                      \/ /\ out'[M].kind = "last" /\ out'[M].header = now[M].talk
                         /\ now[M].pid = FanoutPart!Newest(out[M])'.pid + 1
                      \/ protocol = "urf" /\ ~talks[now[M].talk].local
  <2>1. UNCHANGED <<protocol, talks, now>>
    BY DEF Took
  <2>. QED
    BY <2>1 DEF FanoutPart!EndComes, FanoutPart!Newest
<1>2. /\ FanoutPart!EndComes(M) /\ FanoutPart!Open(M) /\ FanoutPart!Past(M, P)
      /\ P.talk \in Nat /\ P.pid \in Nat /\ now[M].pid \in Nat /\ now[M].talk \in Nat
      /\ P.header => ~P.last
  <2>1. FanoutPart!EndComes(M) /\ FanoutPart!Open(M) /\ FanoutPart!TypeOK
    BY <1>1, TookIs DEF FanoutPart!Unbroken, FanoutPart!Account, FanoutPart!Origins
  <2>2. now[M].pid \in Nat /\ now[M].talk \in Nat
    BY <2>1, NowIs
  <2>. QED
    BY <2>1, <2>2, TookIs, PacketIs
<1>3. CASE \E p \in FanoutPart!Way(M) : p.last /\ p.talk = now[M].talk /\ now[M].pid = p.pid + 1
  <2>1. PICK p \in FanoutPart!Way(M) : p.last /\ p.talk = now[M].talk /\ now[M].pid = p.pid + 1
    BY <1>3
  <2>2. CASE p # P
    BY <2>1, <2>2, TookIs
  <2>3. CASE p = P
    <3>1. ~P.header /\ P.last /\ FanoutPart!Kind(P) = "last" /\ P = FanoutPart!Packet
      BY <1>2, <2>1, <2>3 DEF FanoutPart!Kind, Took
    <3>2. CASE protocol = "urf" /\ ~talks[P.talk].local
      BY <2>1, <2>3, <3>2
    <3>3. CASE ~(protocol = "urf" /\ ~talks[P.talk].local)
      <4>1. protocol \in FanoutPart!Protocols
        BY TookIs, FanoutIs DEF FanoutPart!TypeOK
      <4>2. GoesOut
        BY <3>1, <3>3, <4>1 DEF GoesOut, FanoutPart!Protocols
      <4>3. out'[M].kind = "last" /\ out'[M].header = P.talk /\ FanoutPart!Newest(out[M])' = P
        BY <3>1, <4>2, TookOut, TookHeader
      <4>. QED
        BY <2>1, <2>3, <4>3
    <3>. QED
      BY <3>2, <3>3
  <2>. QED
    BY <2>2, <2>3
<1>4. CASE /\ out[M].kind = "last" /\ out[M].header = now[M].talk
           /\ now[M].pid = FanoutPart!Newest(out[M]).pid + 1
  <2>1. PICK N \in FanoutPart!Packets : N = FanoutPart!Newest(out[M])
    BY <1>4, TookIs, NowIs
  <2>2. N.talk = now[M].talk /\ ~N.header /\ FanoutPart!Precedes(N, P)
    BY <1>4, <2>1, TookIs DEF FanoutPart!RightHeader, FanoutPart!Account, FanoutPart!Sent
  <2>3. N.pid \in Nat /\ now[M].pid = N.pid + 1
    BY <1>4, <2>1, PacketIs
  <2>. QED
    BY <1>2, <2>2, <2>3 DEF FanoutPart!Precedes, FanoutPart!Past
<1>. QED
  BY <1>1, <1>2, <1>3, <1>4 DEF FanoutPart!EndComes

\* The group P completes.
LEMMA TookWhole ==
  ASSUME NEW P \in FanoutPart!Packets, NEW M \in Modules, Took(P, M), M \notin Transcoded,
         FanoutPart!Unbroken(M), GoesOut, FanoutPart!Kind(P) = "voice"
  PROVE  LET frames == out'[M].frames
         IN  /\ DOMAIN frames = 1..FanoutPart!Size(protocol)
             /\ \A k \in DOMAIN frames :
                  frames[k].talk = P.talk /\ frames[k].pid = frames[1].pid + k - 1
             /\ frames[1].pid % FanoutPart!Size(protocol) = 0
             /\ frames[1].pid \in Nat /\ P.pid = frames[1].pid + FanoutPart!Size(protocol) - 1
             /\ protocol = "m17" => frames[1].pid % 2 = 1
<1>1. PICK s \in {1, 3, 4, 5} : s = FanoutPart!Size(protocol)
  BY TookIs, Sizes
<1>2. /\ P = FanoutPart!Packet /\ M = FanoutPart!Module /\ P.pid \in Nat /\ ~P.header /\ ~P.last
      /\ out'[M].frames = TheFramesSent
  BY TookIs, TookOut DEF Took, FanoutPart!Kind
<1>3. protocol = "urf" => talks[P.talk].local
  BY <1>2 DEF GoesOut
<1>4. FanoutPart!Completes(P.pid)
  BY <1>3, TookCompletes
<1>5. CASE s = 1
  <2>1. out'[M].frames = <<P>>
    BY <1>1, <1>2, <1>5 DEF TheFramesSent
  <2>2. protocol = "m17" => P.pid % 2 = 1
    <3>1. protocol = "m17" => FanoutPart!Step = 2
      BY TookIs, Sizes
    <3>. QED
      BY <1>4, <3>1 DEF FanoutPart!Completes
  <2>3. P.pid % 1 = 0
    BY <1>2
  <2>. QED
    BY <1>1, <1>2, <1>5, <2>1, <2>2, <2>3
<1>6. CASE s # 1
  <2>1. /\ protocol # "m17" /\ P.pid % s = s - 1
    BY <1>1, <1>4, <1>6, TookIs, Sizes DEF FanoutPart!Completes
  <2>2. PICK b \in Nat : b = P.pid - (s - 1) /\ b % s = 0
    <3>1. s \in {1, 2, 3, 4, 5}
      BY <1>1
    <3>2. P.pid - (P.pid % s) \in Nat /\ (P.pid - (P.pid % s)) % s = 0
      BY <1>2, <3>1, GroupNext
    <3>. QED
      BY <2>1, <3>2
  <2>3. TheFramesSent = [k \in 1..s |-> IF k = s THEN P ELSE cache[M].frames[k - 1]]
    BY <1>1, <1>2, <1>6 DEF TheFramesSent
  <2>4. ASSUME NEW k \in 1..s, k # s PROVE cache[M].frames[k - 1] = FanoutPart!Frame(P.talk, b + (k - 1))
    <3>1. PICK j \in 0..s - 1 : j = k - 1 /\ j < s - 1
      BY <2>4
    <3>2. [talk |-> P.talk, pid |-> P.pid] \in FanoutPart!Coming(M)
      BY <1>2, TookIs
    <3>3. PICK f : f = FanoutPart!Frame(P.talk, b + j)
      OBVIOUS
    <3>4. P.pid - (P.pid % s) = b
      BY <1>2, <2>1, <2>2
    <3>5. cache[M].frames[j] = f \/ f \in FanoutPart!Way(M)
      BY <1>1, <2>1, <3>1, <3>2, <3>3, <3>4 DEF FanoutPart!Unbroken, FanoutPart!GroupKept
    <3>6. ASSUME f \in FanoutPart!Way(M) PROVE FALSE
      <4>1. f.talk = P.talk /\ f.pid = b + j /\ b + j < P.pid
        BY <1>2, <2>2, <3>1, <3>3 DEF FanoutPart!Frame
      <4>2. P.talk \in Nat /\ b + j \in Nat /\ f # P
        BY <1>2, <2>2, <3>1, <4>1, PacketIs
      <4>3. FanoutPart!Precedes(P, f)
        BY <3>6, <4>2, TookIs
      <4>. QED
        BY <1>2, <4>1, <4>2, <4>3 DEF FanoutPart!Precedes
    <3>. QED
      BY <3>1, <3>3, <3>5, <3>6
  <2>5. \A k \in 1..s : /\ out'[M].frames[k].talk = P.talk
                        /\ out'[M].frames[k].pid = b + (k - 1)
    <3>1. SUFFICES ASSUME NEW k \in 1..s
                   PROVE  out'[M].frames[k].talk = P.talk /\ out'[M].frames[k].pid = b + (k - 1)
      OBVIOUS
    <3>2. CASE k = s
      BY <1>2, <2>2, <2>3, <3>2
    <3>3. CASE k # s
      <4>1. out'[M].frames[k] = FanoutPart!Frame(P.talk, b + (k - 1))
        BY <1>2, <2>3, <2>4, <3>3
      <4>. QED
        BY <4>1 DEF FanoutPart!Frame
    <3>. QED
      BY <3>2, <3>3
  <2>6. out'[M].frames[1].pid = b /\ DOMAIN out'[M].frames = 1..s
    <3>1. 1 \in 1..s /\ b + (1 - 1) = b
      BY <2>2
    <3>. QED
      BY <1>2, <2>3, <2>5, <3>1
  <2>7. \A k \in 1..s : out'[M].frames[k].talk = P.talk /\ out'[M].frames[k].pid = b + k - 1
    BY <2>5
  <2>8. P.pid = b + s - 1
    BY <1>2, <2>2
  <2>. QED
    BY <1>1, <2>1, <2>2, <2>6, <2>7, <2>8
<1>. QED
  BY <1>5, <1>6

-----------------------------------------------------------------------------
(***************************************************************************)
(* The inductive invariant.                                                *)
(***************************************************************************)

LEMMA TookAccount ==
  ASSUME NEW P \in FanoutPart!Packets, NEW M \in Modules, Took(P, M), FanoutPart!Inv
  PROVE  FanoutPart!Account(M)'
<1>1. FanoutPart!Origins(M)' /\ FanoutPart!HeaderKept(M)' /\ FanoutPart!Sent(M)'
  BY TookOrigins, TookHeaderKept, TookSent
<1>2. ASSUME M \notin Transcoded PROVE FanoutPart!Unbroken(M)'
  <2>1. FanoutPart!Unbroken(M) /\ FanoutPart!RightHeader /\ FanoutPart!NoEcho
    BY <1>2, TookIs DEF FanoutPart!Account, FanoutPart!Inv
  <2>2. FanoutPart!Gapless(M)' /\ FanoutPart!GroupKept(M)'
    BY <2>1, TookGapless, TookGroup DEF FanoutPart!Unbroken
  <2>3. protocol' = "m17" => FanoutPart!Counted(M)'
    <3>1. protocol' = protocol
      BY DEF Took
    <3>. QED
      BY <1>2, <2>1, <3>1, TookCounted DEF FanoutPart!Unbroken
  <2>4. FanoutPart!NoneLeftOut(M)' /\ FanoutPart!EndComes(M)'
    BY <1>2, <2>1, TookNoneLeftOut, TookEnd
  <2>. QED
    BY <2>2, <2>3, <2>4 DEF FanoutPart!Unbroken
<1>. QED
  BY <1>1, <1>2 DEF FanoutPart!Account

\* What is heard of the other modules stays, and what P adds is sound.
LEMMA TookHeard ==
  ASSUME NEW P \in FanoutPart!Packets, NEW M \in Modules, Took(P, M), FanoutPart!Inv
  PROVE  FanoutPart!RightHeader' /\ FanoutPart!WholeGroups' /\ FanoutPart!NoEcho'
<1>1. UNCHANGED <<protocol, talks>> /\ FanoutPart!Size(protocol)' = FanoutPart!Size(protocol)
  BY TookIs DEF Took
<1>2. \A n \in Modules : n # M \/ ~GoesOut => out'[n] = out[n]
  BY TookOut
<1>3. GoesOut =>
        /\ out'[M].kind = FanoutPart!Kind(P) /\ out'[M].header = P.talk
        /\ FanoutPart!Newest(out[M])' = P /\ out'[M].to = FanoutPart!Listeners(M)
  BY TookOut, TookHeader
<1>4. FanoutPart!RightHeader'
  <2>1. SUFFICES ASSUME NEW n \in Modules, out'[n].kind # "nothing"
                 PROVE  out'[n].header = FanoutPart!Newest(out[n])'.talk
    BY DEF FanoutPart!RightHeader, FanoutPart!Newest
  <2>2. CASE n = M /\ GoesOut
    BY <1>3, <2>2
  <2>3. CASE n # M \/ ~GoesOut
    <3>1. out'[n] = out[n] /\ FanoutPart!Newest(out[n])' = FanoutPart!Newest(out[n])
      BY <1>2, <2>3 DEF FanoutPart!Newest
    <3>. QED
      BY <2>1, <3>1 DEF FanoutPart!Inv, FanoutPart!RightHeader
  <2>. QED
    BY <2>2, <2>3
<1>5. FanoutPart!WholeGroups'
  <2>. DEFINE Whole(r) ==
         /\ \A k \in DOMAIN r.frames :
              r.frames[k].talk = r.header /\ r.frames[k].pid = r.frames[1].pid + k - 1
         /\ r.frames[1].pid % FanoutPart!Size(protocol) = 0
         /\ protocol = "m17" => r.frames[1].pid % 2 = 1
  <2>1. ASSUME NEW n \in Modules, n \notin Transcoded, NEW r, r = out'[n], r.kind = "voice"
        PROVE  Whole(r)
    <3>1. CASE n = M /\ GoesOut
      <4>1. M \notin Transcoded /\ FanoutPart!Kind(P) = "voice" /\ FanoutPart!Unbroken(M)
        BY <1>3, <2>1, <3>1, TookIs DEF FanoutPart!Account
      <4>2. r.header = P.talk /\ r = out'[M]
        BY <1>3, <2>1, <3>1
      <4>. QED
        BY <3>1, <4>1, <4>2, TookWhole
    <3>2. CASE n # M \/ ~GoesOut
      <4>1. r = out[n]
        BY <1>2, <2>1, <3>2
      <4>. QED
        BY <2>1, <4>1 DEF FanoutPart!Inv, FanoutPart!WholeGroups
    <3>. QED
      BY <3>1, <3>2
  <2>. QED
    BY <1>1, <2>1 DEF FanoutPart!WholeGroups
<1>6. FanoutPart!NoEcho'
  <2>1. SUFFICES ASSUME NEW n \in Modules, out'[n].kind # "nothing"
                 PROVE  /\ n \in Prompt => talks[FanoutPart!Newest(out[n])'.talk].by \notin out'[n].to
                        /\ protocol = "urf" => talks[FanoutPart!Newest(out[n])'.talk].local
    BY <1>1 DEF FanoutPart!NoEcho, FanoutPart!Newest
  <2>2. CASE n = M /\ GoesOut
    <3>1. ASSUME M \in Prompt PROVE talks[P.talk].by \notin FanoutPart!Listeners(M)
      <4>1. P.talk = now[M].talk /\ P.talk # 0
        BY <3>1, TookIs, PacketIs
      <4>2. FanoutPart!Talker(M) = talks[P.talk].by
        BY <4>1 DEF FanoutPart!Talker, FanoutPart!Open
      <4>. QED
        BY <4>2 DEF FanoutPart!Listeners, FanoutPart!IsAMaster
    <3>2. protocol = "urf" => talks[P.talk].local
      BY <2>2 DEF GoesOut, Took
    <3>. QED
      BY <1>3, <2>2, <3>1, <3>2
  <2>3. CASE n # M \/ ~GoesOut
    <3>1. out'[n] = out[n] /\ FanoutPart!Newest(out[n])' = FanoutPart!Newest(out[n])
      BY <1>2, <2>3 DEF FanoutPart!Newest
    <3>. QED
      BY <2>1, <3>1 DEF FanoutPart!Inv, FanoutPart!NoEcho
  <2>. QED
    BY <2>2, <2>3
<1>. QED
  BY <1>4, <1>5, <1>6

LEMMA OutStays ==
  ASSUME FanoutPart!Inv, MoreTalks, UNCHANGED <<protocol, out>>
  PROVE  FanoutPart!RightHeader' /\ FanoutPart!WholeGroups' /\ FanoutPart!NoEcho'
<1>1. \A m \in Modules : FanoutPart!Newest(out[m])' = FanoutPart!Newest(out[m])
  BY DEF FanoutPart!Newest
<1>2. FanoutPart!RightHeader'
  BY DEF FanoutPart!Inv, FanoutPart!RightHeader, FanoutPart!Newest
<1>3. FanoutPart!WholeGroups'
  BY DEF FanoutPart!Inv, FanoutPart!WholeGroups, FanoutPart!Size
<1>4. ASSUME NEW m \in Modules, out[m].kind # "nothing"
      PROVE  talks'[FanoutPart!Newest(out[m]).talk] = talks[FanoutPart!Newest(out[m]).talk]
  <2>1. FanoutPart!TypeOK /\ FanoutPart!Sent(m)
    BY DEF FanoutPart!Inv, FanoutPart!Account
  <2>2. FanoutPart!Newest(out[m]) \in FanoutPart!Packets /\ Len(talks) \in Nat
    BY <1>4, <2>1, NowIs
  <2>3. FanoutPart!Newest(out[m]).talk \in 1..Len(talks)
    BY <1>4, <2>1, <2>2, PacketIs DEF FanoutPart!Sent
  <2>. QED
    BY <2>3 DEF MoreTalks
<1>5. FanoutPart!NoEcho'
  <2>1. SUFFICES ASSUME NEW m \in Modules, out[m].kind # "nothing"
                 PROVE  /\ m \in Prompt => talks'[FanoutPart!Newest(out[m]).talk].by \notin out[m].to
                        /\ protocol = "urf" => talks'[FanoutPart!Newest(out[m]).talk].local
    BY <1>1 DEF FanoutPart!NoEcho
  <2>. QED
    BY <1>4, <2>1 DEF FanoutPart!Inv, FanoutPart!NoEcho
<1>. QED
  BY <1>2, <1>3, <1>5

\* Places that complete groups of s.
LEMMA CompletesNext ==
  ASSUME NEW s \in {1, 2, 3, 4, 5}, NEW n \in Nat, NEW x \in Nat,
         n % s = s - 1, x % s = s - 1, n < x
  PROVE  (n + s) % s = s - 1 /\ n + s <= x
<1>1. CASE s = 1
  BY <1>1
<1>2. CASE s = 2
  BY <1>2
<1>3. CASE s = 3
  BY <1>3
<1>4. CASE s = 4
  BY <1>4
<1>5. CASE s = 5
  BY <1>5
<1>. QED
  BY <1>1, <1>2, <1>3, <1>4, <1>5

LEMMA TookInOrder ==
  ASSUME NEW P \in FanoutPart!Packets, NEW M \in Modules, Took(P, M), FanoutPart!Inv,
         NEW m \in Modules, out[m] # out'[m], out[m].kind # "nothing"
  PROVE  /\ FanoutPart!Before(FanoutPart!Newest(out[m]), FanoutPart!Newest(out'[m]))
         /\ m \notin Transcoded => FanoutPart!Follows(out[m], out'[m])
<1>1. m = M /\ GoesOut
  BY TookOut
<1>2. /\ out'[M].kind = FanoutPart!Kind(P) /\ out'[M].header = P.talk /\ FanoutPart!Newest(out'[M]) = P
  BY <1>1, TookOut, TookHeader
<1>3. PICK N \in FanoutPart!Packets : N = FanoutPart!Newest(out[M])
  BY <1>1, TookIs, NowIs
<1>4. /\ FanoutPart!Precedes(N, P) /\ out[M].header = N.talk
      /\ out[M].kind = "voice" => ~N.header
      /\ out[M].kind = "voice" /\ M \notin Transcoded => FanoutPart!Completes(N.pid)
  <2>1. FanoutPart!Sent(M) /\ P \in FanoutPart!Way(M) /\ FanoutPart!RightHeader
    BY TookIs DEF FanoutPart!Account, FanoutPart!Inv
  <2>. QED
    BY <1>1, <1>3, <2>1 DEF FanoutPart!Sent, FanoutPart!RightHeader
<1>5. FanoutPart!Before(N, P)
  BY <1>4 DEF FanoutPart!Precedes, FanoutPart!Before
<1>6. ASSUME M \notin Transcoded, out[M].kind = "voice", out'[M].kind = "voice",
             out[M].header = out'[M].header
      PROVE  out'[M].frames[1].pid = N.pid + (IF protocol = "m17" THEN 2 ELSE 1)
  <2>1. /\ N.talk = P.talk /\ ~N.header /\ FanoutPart!Kind(P) = "voice" /\ ~P.header
        /\ N.pid \in Nat /\ P.pid \in Nat /\ N.talk \in Nat /\ FanoutPart!Unbroken(M)
    <3>1. N.talk = P.talk /\ ~N.header /\ FanoutPart!Kind(P) = "voice"
      BY <1>2, <1>4, <1>6
    <3>2. FanoutPart!Unbroken(M)
      BY <1>6, TookIs DEF FanoutPart!Account
    <3>. QED
      BY <3>1, <3>2, PacketIs DEF FanoutPart!Kind
  <2>2. N.pid < P.pid
    BY <1>4, <2>1 DEF FanoutPart!Precedes
  <2>3. FanoutPart!Completes(N.pid) /\ FanoutPart!Completes(P.pid)
    <3>1. protocol = "urf" => talks[P.talk].local
      BY <1>1 DEF GoesOut, Took
    <3>. QED
      BY <1>1, <1>4, <1>6, <2>1, <3>1, TookCompletes
  <2>4. PICK s \in {1, 2, 3, 4, 5} : s = FanoutPart!Step
    BY TookIs, Sizes
  <2>5. (N.pid + s) % s = s - 1 /\ N.pid + s <= P.pid
    BY <2>1, <2>2, <2>3, <2>4, CompletesNext DEF FanoutPart!Completes
  <2>6. ASSUME N.pid + s < P.pid PROVE FALSE
    <3>1. PICK k \in 0..P.pid - 1 : k = N.pid + s /\ N.pid < k
      BY <2>1, <2>6
    <3>2. [talk |-> P.talk, pid |-> P.pid] \in FanoutPart!Coming(M)
      BY <2>1, TookIs
    <3>3. FanoutPart!Completes(k)
      BY <2>4, <2>5, <3>1 DEF FanoutPart!Completes
    <3>4. PICK f : f = FanoutPart!Frame(P.talk, k)
      OBVIOUS
    <3>5. f \in FanoutPart!Way(M)
      BY <1>2, <1>3, <1>6, <2>1, <3>1, <3>2, <3>3, <3>4 DEF FanoutPart!Unbroken, FanoutPart!NoneLeftOut
    <3>6. f.talk = P.talk /\ f.pid = k /\ f # P /\ k < P.pid
      BY <2>1, <3>1, <3>4 DEF FanoutPart!Frame
    <3>7. FanoutPart!Precedes(P, f)
      BY <3>5, <3>6, TookIs
    <3>. QED
      BY <2>1, <3>6, <3>7 DEF FanoutPart!Precedes
  <2>7. P.pid = N.pid + s
    BY <2>1, <2>4, <2>5, <2>6
  <2>8. /\ out'[M].frames[1].pid \in Nat
        /\ P.pid = out'[M].frames[1].pid + FanoutPart!Size(protocol) - 1
    BY <1>1, <1>6, <2>1, TookWhole
  <2>9. CASE protocol = "m17"
    <3>1. s = 2 /\ FanoutPart!Size(protocol) = 1
      BY <2>4, <2>9, TookIs, Sizes
    <3>. QED
      BY <2>1, <2>7, <2>8, <2>9, <3>1
  <2>10. CASE protocol # "m17"
    <3>1. FanoutPart!Size(protocol) = s
      BY <2>4, <2>10, TookIs, Sizes
    <3>. QED
      BY <2>1, <2>4, <2>7, <2>8, <2>10, <3>1
  <2>. QED
    BY <2>9, <2>10
<1>7. M \notin Transcoded => FanoutPart!Follows(out[M], out'[M])
  BY <1>3, <1>6 DEF FanoutPart!Follows
<1>. QED
  BY <1>1, <1>2, <1>3, <1>5, <1>7

LEMMA FanoutKeepsInv ==
  ASSUME FanoutPart!Inv, FanoutPart!Next
  PROVE  FanoutPart!Inv' /\ FanoutPart!InOrder
<1>1. Ready
  BY DEF FanoutPart!Inv, Ready
<1>2. ASSUME NEW m \in Modules,
             \/ \E c \in Clients \cup {None} : FanoutPart!OpenStream(m, c)
             \/ FanoutPart!Push(m) \/ FanoutPart!CodecStream(m) \/ FanoutPart!CloseStream(m) \/ FanoutPart!RouterThread(m)
      PROVE  FanoutPart!Inv' /\ FanoutPart!InOrder
  <2>1. Ready' /\ MoreTalks /\ UNCHANGED <<protocol, out>>
    BY <1>1, <1>2, OpenKeeps, PushKeeps, CodecKeeps, CloseKeeps, RouterKeeps
  <2>2. FanoutPart!RightHeader' /\ FanoutPart!WholeGroups' /\ FanoutPart!NoEcho'
    BY <2>1, OutStays
  <2>3. FanoutPart!InOrder
    BY <2>1 DEF FanoutPart!InOrder
  <2>. QED
    BY <2>1, <2>2, <2>3 DEF FanoutPart!Inv, Ready
<1>3. ASSUME FanoutPart!HandleQueue PROVE FanoutPart!Inv' /\ FanoutPart!InOrder
  <2>1. FanoutPart!LineUp'
    BY <1>1, <1>3, HandleTakes
  <2>2. PICK P \in FanoutPart!Packets : \E M \in Modules :
          Took(P, M) /\ \A n \in Modules : n # M => FanoutPart!Account(n)'
    BY <1>1, <1>3, HandleTakes
  <2>3. PICK M \in Modules : Took(P, M) /\ \A n \in Modules : n # M => FanoutPart!Account(n)'
    BY <2>2
  <2>4. FanoutPart!TypeOK' /\ FanoutPart!Account(M)'
    BY <2>3, TookAccount DEF Took
  <2>5. FanoutPart!RightHeader' /\ FanoutPart!WholeGroups' /\ FanoutPart!NoEcho'
    BY <2>3, TookHeard
  <2>6. FanoutPart!InOrder
    BY <2>3, TookInOrder DEF FanoutPart!InOrder
  <2>. QED
    BY <2>1, <2>3, <2>4, <2>5, <2>6 DEF FanoutPart!Inv
<1>. QED
  BY <1>2, <1>3 DEF FanoutPart!Next

LEMMA FanoutStarts ==
  ASSUME FanoutPart!Init
  PROVE  FanoutPart!Inv
<1>1. /\ protocol \in Watched /\ linked \in [Clients -> Modules]
      /\ talks = <<>> /\ Len(talks) = 0 /\ queue = <<>>
      /\ DOMAIN out = Modules
      /\ \A m \in Modules :
           /\ now[m] = FanoutPart!NoTalk /\ codec[m] = <<>> /\ stream[m] = <<>>
           /\ cache[m] = FanoutPart!Unset /\ out[m] = FanoutPart!Nothing
  BY DEF FanoutPart!Init
<1>2. FanoutPart!TypeOK
  <2>1. /\ talks \in Seq([by : Clients \cup {None}, module : Modules, local : BOOLEAN])
        /\ queue \in Seq(FanoutPart!Packets)
    BY <1>1
  <2>2. now \in [Modules -> [talk : 0..Len(talks), pid : Nat, over : BOOLEAN]]
    <3>1. FanoutPart!NoTalk \in [talk : 0..Len(talks), pid : Nat, over : BOOLEAN]
      BY <1>1 DEF FanoutPart!NoTalk
    <3>. QED
      BY <3>1 DEF FanoutPart!Init
  <2>3. codec \in [Modules -> Seq(FanoutPart!Packets)] /\ stream \in [Modules -> Seq(FanoutPart!Packets)]
    BY DEF FanoutPart!Init
  <2>4. cache \in [Modules -> [header : 0..Len(talks), seq : Nat,
                               frames : [0..FanoutPart!MaxSize - 1 -> FanoutPart!Packets \cup {None}]]]
    <3>1. FanoutPart!Unset \in [header : 0..Len(talks), seq : Nat,
                      frames : [0..FanoutPart!MaxSize - 1 -> FanoutPart!Packets \cup {None}]]
      BY <1>1 DEF FanoutPart!Unset
    <3>. QED
      BY <3>1 DEF FanoutPart!Init
  <2>5. \A m \in Modules :
          /\ out[m].kind \in {"nothing", "header", "voice", "last"}
          /\ out[m].header \in 0..Len(talks)
          /\ out[m].frames \in Seq(FanoutPart!Packets \cup {None})
          /\ out[m].kind # "nothing" => out[m].frames[Len(out[m].frames)] \in FanoutPart!Packets
    <3>1. /\ FanoutPart!Nothing.kind = "nothing" /\ FanoutPart!Nothing.header = 0 /\ FanoutPart!Nothing.frames = <<>>
      BY DEF FanoutPart!Nothing
    <3>2. <<>> \in Seq(FanoutPart!Packets \cup {None}) /\ 0 \in 0..Len(talks)
      BY <1>1
    <3>. QED
      BY <1>1, <3>1, <3>2
  <2>. QED
    BY <1>1, <2>1, <2>2, <2>3, <2>4, <2>5 DEF FanoutPart!TypeOK
<1>3. /\ FanoutPart!ToSet(queue) = {} /\ DOMAIN queue = {}
      /\ \A m \in Modules :
           /\ FanoutPart!ToSet(codec[m]) = {} /\ FanoutPart!ToSet(stream[m]) = {}
           /\ DOMAIN codec[m] = {} /\ DOMAIN stream[m] = {}
  BY <1>1 DEF FanoutPart!ToSet
<1>4. ASSUME NEW m \in Modules
      PROVE  /\ FanoutPart!Way(m) = {} /\ FanoutPart!InQueue(m) = {} /\ ~FanoutPart!Open(m) /\ ~now[m].over
             /\ out[m].kind = "nothing" /\ FanoutPart!Coming(m) = {}
             /\ \A k \in 0..FanoutPart!MaxSize - 1 : cache[m].frames[k] = None
  <2>1. FanoutPart!Way(m) = {} /\ FanoutPart!InQueue(m) = {}
    BY <1>3 DEF FanoutPart!Way, FanoutPart!InQueue
  <2>2. ~FanoutPart!Open(m) /\ ~now[m].over
    BY <1>1 DEF FanoutPart!Open, FanoutPart!NoTalk
  <2>3. FanoutPart!Coming(m) = {}
    BY <2>1, <2>2 DEF FanoutPart!Coming
  <2>4. out[m].kind = "nothing"
    BY <1>1 DEF FanoutPart!Nothing
  <2>5. \A k \in 0..FanoutPart!MaxSize - 1 : cache[m].frames[k] = None
    <3>1. PICK g : g = [i \in 0..FanoutPart!MaxSize - 1 |-> None]
      OBVIOUS
    <3>2. FanoutPart!Unset = [header |-> 0, frames |-> g, seq |-> 0]
      BY <3>1 DEF FanoutPart!Unset
    <3>3. cache[m].frames = g
      BY <1>1, <3>2
    <3>. QED
      BY <3>1, <3>3
  <2>. QED
    BY <2>1, <2>2, <2>3, <2>4, <2>5
<1>5. FanoutPart!LineUp
  BY <1>3, <1>4 DEF FanoutPart!LineUp, FanoutPart!Line, FanoutPart!OrderedByModule, FanoutPart!Ordered, FanoutPart!AllBefore
<1>6. ASSUME NEW m \in Modules PROVE FanoutPart!Account(m)
  <2>1. FanoutPart!Origins(m) /\ FanoutPart!HeaderKept(m) /\ FanoutPart!Sent(m)
    BY <1>3, <1>4 DEF FanoutPart!Origins, FanoutPart!HeaderKept, FanoutPart!Sent
  <2>2. FanoutPart!GroupKept(m)
    <3>1. \A k \in 0..FanoutPart!Size(protocol) - 1 : k \in 0..FanoutPart!MaxSize - 1
      BY <1>2, Sizes DEF FanoutPart!MaxSize
    <3>. QED
      BY <1>4, <3>1 DEF FanoutPart!GroupKept
  <2>3. FanoutPart!Unbroken(m)
    BY <1>4, <2>2 DEF FanoutPart!Unbroken, FanoutPart!Gapless, FanoutPart!Counted, FanoutPart!NoneLeftOut, FanoutPart!EndComes
  <2>. QED
    BY <2>1, <2>3 DEF FanoutPart!Account
<1>7. FanoutPart!RightHeader /\ FanoutPart!WholeGroups /\ FanoutPart!NoEcho
  BY <1>4 DEF FanoutPart!RightHeader, FanoutPart!WholeGroups, FanoutPart!NoEcho
<1>. QED
  BY <1>2, <1>5, <1>6, <1>7 DEF FanoutPart!Inv

LEMMA FanoutStutters ==
  ASSUME FanoutPart!Inv, UNCHANGED fanoutVars
  PROVE  FanoutPart!Inv'
<1>1. Ready
  BY DEF FanoutPart!Inv, Ready
<1>2. FanoutPart!TypeOK'
  BY DEF FanoutPart!Inv, FanoutPart!TypeOK, fanoutVars, FanoutPart!Packets
<1>3. MoreTalks
  BY <1>1 DEF Ready, FanoutPart!TypeOK, MoreTalks, fanoutVars
<1>4. \A m \in Modules : SameAt(m)
  BY DEF SameAt, fanoutVars
<1>5. UNCHANGED <<protocol, queue, out>>
  BY DEF fanoutVars
<1>6. \A m \in Modules : FanoutPart!Line(m)' /\ FanoutPart!Account(m)'
  BY <1>1, <1>2, <1>3, <1>4, <1>5, QueueStays, RestStays
<1>7. FanoutPart!LineUp'
  BY <1>1, <1>3, <1>5, <1>6, QueueStays DEF FanoutPart!LineUp
<1>8. FanoutPart!RightHeader' /\ FanoutPart!WholeGroups' /\ FanoutPart!NoEcho'
  BY <1>3, <1>5, OutStays
<1>. QED
  BY <1>2, <1>6, <1>7, <1>8 DEF FanoutPart!Inv

\* What the listeners of the watched protocol hear: see FanoutProps!Inv.
FanoutInv == part = "fanout" => FanoutPart!Inv

LEMMA FanoutInvariance ==
  ASSUME FanoutInv, [Next]_vars
  PROVE  FanoutInv' /\ (part = "fanout" => UNCHANGED fanoutVars \/ FanoutPart!InOrder)
<1>1. part' = part /\ (part = "fanout" => FanoutPart!Next \/ UNCHANGED fanoutVars)
  BY FanoutSteps
<1>2. CASE part = "fanout" /\ FanoutPart!Next
  BY <1>1, <1>2, FanoutKeepsInv DEF FanoutInv
<1>3. CASE part = "fanout" /\ UNCHANGED fanoutVars
  BY <1>1, <1>3, FanoutStutters DEF FanoutInv
<1>4. CASE part # "fanout"
  BY <1>1, <1>4 DEF FanoutInv
<1>. QED
  BY <1>1, <1>2, <1>3, <1>4

LEMMA FanoutInductive == Spec => []FanoutInv
<1>1. Init => FanoutInv
  BY FanoutStarts DEF Init, FanoutInv
<1>2. FanoutInv /\ [Next]_vars => FanoutInv'
  BY FanoutInvariance
<1>. QED
  BY <1>1, <1>2, PTL DEF Spec

-----------------------------------------------------------------------------
\* Whatever the protocols keep between packets, what they send out has the header
\* of its own transmission, and where nothing gets lost a packet of several frames
\* has successive frames of one transmission in it, from the start of a group on
\* (HandleQueue of the nine protocols).
THEOREM WholeGroupsCorrect == Spec => []WholeGroups
<1>1. FanoutInv => WholeGroups
  BY DEF FanoutInv, FanoutPart!Inv, WholeGroups
<1>. QED
  BY <1>1, FanoutInductive, PTL

\* Nobody hears himself, not even what was still queued when he stopped to be a
\* master, and what came from a peer goes to no peer (HandleQueue and IsAMaster,
\* CReflector::CloseStream).
THEOREM NoEchoCorrect == Spec => []NoEcho
<1>1. FanoutInv => NoEcho
  BY DEF FanoutInv, FanoutPart!Inv, NoEcho
<1>. QED
  BY <1>1, FanoutInductive, PTL

\* A transmission that has ended and left the queues has been ended for those who
\* listen, in every mode, where nothing gets lost (HandleQueue, the last packet).
THEOREM EndsHeardCorrect == Spec => []EndsHeard
<1>1. ASSUME FanoutPart!Inv PROVE FanoutPart!EndsHeard
  <2>1. SUFFICES ASSUME NEW m \in Modules, m \notin Transcoded, now[m].over, ~FanoutPart!UnderWay(m),
                        protocol = "urf" => talks[now[m].talk].local
                 PROVE  out[m].kind = "last" /\ out[m].header = now[m].talk
    BY DEF FanoutPart!EndsHeard
  <2>2. Ready /\ FanoutPart!TypeOK /\ FanoutPart!EndComes(m)
    BY <1>1, <2>1 DEF FanoutPart!Inv, Ready, FanoutPart!Account, FanoutPart!Unbroken
  <2>3. FanoutPart!Way(m) = {}
    <3>1. FanoutPart!ToSet(codec[m]) = {}
      BY <2>1, <2>2, CodecHolds
    <3>2. FanoutPart!ToSet(stream[m]) = {}
      BY <2>1 DEF FanoutPart!UnderWay, FanoutPart!ToSet
    <3>3. FanoutPart!InQueue(m) = {}
      BY <2>1 DEF FanoutPart!UnderWay, FanoutPart!InQueue, FanoutPart!ModuleOf, FanoutPart!ToSet
    <3>. QED
      BY <3>1, <3>2, <3>3 DEF FanoutPart!Way
  <2>. QED
    BY <2>1, <2>2, <2>3 DEF FanoutPart!EndComes
<1>2. FanoutInv => EndsHeard
  BY <1>1 DEF FanoutInv, EndsHeard
<1>. QED
  BY <1>2, FanoutInductive, PTL

\* On each module what goes out was said after what went out before, and where
\* nothing gets lost the group that was said next follows (RouterThread and
\* HandleQueue, the order of the queues).
THEOREM HeardInOrderCorrect == Spec => HeardInOrder
<1>1. FanoutInv /\ [Next]_vars => [part = "fanout" => FanoutPart!InOrder]_vars
  <2>1. ASSUME FanoutInv, [Next]_vars, part = "fanout", UNCHANGED fanoutVars
        PROVE  FanoutPart!InOrder
    BY <2>1 DEF FanoutPart!InOrder, fanoutVars
  <2>. QED
    BY <2>1, FanoutInvariance
<1>. QED
  BY <1>1, FanoutInductive, PTL DEF Spec, HeardInOrder

-----------------------------------------------------------------------------
(***************************************************************************)
(* The numbers and groups of voice packets (Superframes).                  *)
(***************************************************************************)

LEMMA GroupsSteps ==
  ASSUME [Next]_vars
  PROVE  part' = part /\ (part = "superframes" => Groups!Next \/ UNCHANGED superframesVars)
BY DEF Next, InFanout, InSuperframes, InWires, InNoisyLink, vars

LEMMA GroupsAre ==
  /\ Sources \subseteq {"dstar", "dmr", "ysf", "nxdn", "p25", "m17"}
  /\ Frames \in Nat \ {0} /\ Talks \in Nat \ {0}
BY FormatsAssumption DEF FormatsAssumption, Groups!SuperframesAssumption

\* The place of a frame in its group.
LEMMA PlaceIs ==
  ASSUME NEW mode \in Groups!Grouped, NEW n \in Nat
  PROVE  /\ Groups!Size[mode] \in {3, 4, 5}
         /\ Groups!InPlace(mode, n) \in 0..Groups!Size[mode] - 1
         /\ Groups!InGroup(mode, n) \in 0..Groups!Size[mode] - 1
         /\ n % Groups!Size[mode] \in 0..Groups!Size[mode] - 1
<1>1. CASE mode = "dmr"
  BY <1>1 DEF Groups!Size, Groups!InPlace, Groups!InGroup
<1>2. CASE mode = "nxdn"
  BY <1>2 DEF Groups!Size, Groups!InPlace, Groups!InGroup
<1>3. CASE mode = "ysf"
  BY <1>3 DEF Groups!Size, Groups!InPlace, Groups!InGroup
<1>. QED
  BY <1>1, <1>2, <1>3 DEF Groups!Grouped

\* The frames before one that completes a group are in the places before it.
LEMMA GroupPlaces ==
  ASSUME NEW mode \in Groups!Grouped, NEW n \in Nat,
         Groups!InPlace(mode, n) = Groups!Size[mode] - 1,
         NEW j \in 0..Groups!Size[mode] - 1
  PROVE  /\ n + 1 + j - Groups!Size[mode] \in Nat
         /\ Groups!InPlace(mode, n + 1 + j - Groups!Size[mode]) = j
<1>1. CASE mode = "dmr"
  <2>1. n % 3 = 2 /\ Groups!Size[mode] = 3
        /\ \A k \in Nat : Groups!InPlace(mode, k) = k % 3
    BY <1>1 DEF Groups!Size, Groups!InPlace, Groups!InGroup
  <2>2. n + 1 + j - 3 \in Nat /\ (n + 1 + j - 3) % 3 = j
    BY <2>1
  <2>. QED
    BY <2>1, <2>2
<1>2. CASE mode = "nxdn"
  <2>1. n % 4 = 3 /\ Groups!Size[mode] = 4
        /\ \A k \in Nat : Groups!InPlace(mode, k) = k % 4
    BY <1>2 DEF Groups!Size, Groups!InPlace, Groups!InGroup
  <2>2. n + 1 + j - 4 \in Nat /\ (n + 1 + j - 4) % 4 = j
    BY <2>1
  <2>. QED
    BY <2>1, <2>2
<1>3. CASE mode = "ysf" /\ source # "ysf"
  <2>1. n % 5 = 4 /\ Groups!Size[mode] = 5
        /\ \A k \in Nat : Groups!InPlace(mode, k) = k % 5
    BY <1>3 DEF Groups!Size, Groups!InPlace, Groups!InGroup
  <2>2. n + 1 + j - 5 \in Nat /\ (n + 1 + j - 5) % 5 = j
    BY <2>1
  <2>. QED
    BY <2>1, <2>2
<1>4. CASE mode = "ysf" /\ source = "ysf"
  <2>1. /\ Groups!Size[mode] = 5
        /\ \A k \in Nat : Groups!InPlace(mode, k) = IF k >= 2 THEN (k - 2) % 5 ELSE k % 5
    BY <1>4 DEF Groups!Size, Groups!InPlace, Groups!InGroup
  <2>2. n >= 2 /\ (n - 2) % 5 = 4
    BY <2>1
  <2>3. n + 1 + j - 5 \in Nat /\ n + 1 + j - 5 >= 2 /\ ((n + 1 + j - 5) - 2) % 5 = j
    BY <2>1, <2>2
  <2>. QED
    BY <2>1, <2>3
<1>. QED
  BY <1>1, <1>2, <1>3, <1>4 DEF Groups!Grouped

\* The numbers that the threads get are the places.
LEMMA IdsArePlaces ==
  ASSUME NEW mode \in Groups!Fed, NEW n \in Nat, path \in {"local", "peer"},
         source \in Sources
  PROVE  mode \in Groups!Grouped /\ Groups!Ids(n)[mode] = Groups!InPlace(mode, n)
<1>. DEFINE first == Groups!UpdatePids(Groups!Numbered(n), n)
<1>1. mode \in Groups!Grouped
  BY DEF Groups!Fed
<1>2. Groups!Numbered(n)[mode] = IF mode = source THEN Groups!InGroup(mode, n) ELSE Groups!Undefined
  <2>1. ~(mode = "nxdn" /\ source = "p25")
    BY DEF Groups!Fed
  <2>2. CASE mode = source
    BY <1>1, <2>2 DEF Groups!Numbered
  <2>3. CASE mode # source
    BY <1>1, <2>1, <2>3 DEF Groups!Numbered
  <2>. QED
    BY <2>2, <2>3
<1>3. Groups!InGroup(mode, n) # Groups!Undefined /\ Groups!InPlace(mode, n) # Groups!Undefined
  BY <1>1, PlaceIs DEF Groups!Undefined
<1>4. first[mode] = Groups!InPlace(mode, n)
  BY <1>1, <1>2, <1>3 DEF Groups!UpdatePids, Groups!InPlace
<1>. HIDE DEF first
<1>5. CASE path = "local"
  BY <1>1, <1>4, <1>5 DEF Groups!Ids, first
<1>6. CASE path = "peer"
  <2>1. mode # "nxdn"
    BY <1>6 DEF Groups!Fed
  <2>2. Groups!Carried(first)[mode] = first[mode]
    BY <2>1 DEF Groups!Carried
  <2>3. Groups!Ids(n) = Groups!UpdatePids(Groups!Carried(first), n)
    BY <1>6 DEF Groups!Ids, first
  <2>. QED
    BY <1>1, <1>3, <1>4, <2>2, <2>3 DEF Groups!UpdatePids
<1>. QED
  BY <1>1, <1>5, <1>6

LEMMA GroupsKept ==
  ASSUME UNCHANGED <<source, path>>
  PROVE  Groups!Fed' = Groups!Fed /\ \A mode, n : Groups!InPlace(mode, n)' = Groups!InPlace(mode, n)
BY DEF Groups!Fed, Groups!InPlace

LEMMA TypesAre ==
  ASSUME Groups!TypeOK
  PROVE  /\ source \in Sources /\ path \in {"local", "peer"}
         /\ talk \in Nat /\ pid \in 0..Frames /\ seq \in Nat /\ Frames \in Nat \ {0}
         /\ Groups!Fed \subseteq Groups!Grouped
BY GroupsAre DEF Groups!TypeOK, Groups!Fed

\* The frame that comes is in its slot, and the other slots are as before.
LEMMA FilledIs ==
  ASSUME Groups!Inv, NEW mode \in Groups!Fed
  PROVE  LET new == Groups!Filled(mode, Groups!Ids(pid), <<talk, pid>>)
             place == Groups!InPlace(mode, pid)
         IN  /\ DOMAIN new = 0..Groups!Size[mode] - 1 /\ place \in DOMAIN new
             /\ new[place] = <<talk, pid>>
             /\ \A i \in DOMAIN new : i # place => new[i] = slots[mode][i]
<1>. DEFINE place == Groups!InPlace(mode, pid)
<1>1. /\ mode \in Groups!Grouped /\ pid \in Nat
      /\ Groups!Ids(pid)[mode] = place
  BY TypesAre, IdsArePlaces DEF Groups!Inv
<1>2. place \in 0..Groups!Size[mode] - 1 /\ Groups!Size[mode] \in {3, 4, 5}
  BY <1>1, PlaceIs
<1>3. DOMAIN slots[mode] = 0..Groups!Size[mode] - 1
  BY <1>1 DEF Groups!Inv
<1>. HIDE DEF place
<1>4. place < Groups!Size[mode]
  BY <1>2
<1>5. Groups!Filled(mode, Groups!Ids(pid), <<talk, pid>>)
        = [slots[mode] EXCEPT ![place] = <<talk, pid>>]
  BY <1>1, <1>4 DEF Groups!Filled
<1>. QED
  BY <1>2, <1>3, <1>5 DEF place

\* What is heard when a packet is handed to the threads.
LEMMA HeardIs ==
  ASSUME Groups!Voice, NEW h \in heard', h \notin heard
  PROVE  \/ h = Groups!Pair(<<talk, pid>>) /\ Groups!M17Sends(pid = Frames - 1)
         \/ /\ pid # Frames - 1
            /\ \E mode \in Groups!Grouped :
                 /\ Groups!IsFull(mode, Groups!Ids(pid))
                 /\ h \in Groups!Group(mode, Groups!Filled(mode, Groups!Ids(pid), <<talk, pid>>),
                                       <<talk, pid>>)
BY DEF Groups!Voice, Groups!Deliver

\* The kept frames are still there.
LEMMA VoiceKeeps == ASSUME Groups!Inv, Groups!Voice PROVE Groups!Kept'
<1>1. /\ UNCHANGED <<source, path, talk, missing>> /\ pid' = pid + 1 /\ talk > 0 /\ pid < Frames
  BY DEF Groups!Voice, Groups!Deliver
<1>2. SUFFICES ASSUME NEW mode \in Groups!Fed, NEW n \in 0..(Frames - 2),
                      n < pid + 1, <<talk, n>> \notin missing,
                      \A k \in n + 1..pid : Groups!InPlace(mode, k) # Groups!InPlace(mode, n)
               PROVE  slots'[mode][Groups!InPlace(mode, n)] = <<talk, n>>
  <2>1. pid' - 1 = pid
    BY <1>1, TypesAre DEF Groups!Inv
  <2>. QED
    BY <1>1, <2>1, GroupsKept DEF Groups!Kept
<1>3. /\ pid \in Nat /\ Frames \in Nat \ {0} /\ mode \in Groups!Grouped
  BY TypesAre DEF Groups!Inv
<1>4. n < pid => slots[mode][Groups!InPlace(mode, n)] = <<talk, n>>
  <2>1. \A k \in n + 1..pid - 1 : k \in n + 1..pid
    BY <1>3
  <2>. QED
    BY <1>1, <1>2, <2>1 DEF Groups!Inv, Groups!Kept
<1>5. CASE pid = Frames - 1
  <2>1. slots' = slots
    BY <1>5 DEF Groups!Voice, Groups!Deliver
  <2>. QED
    BY <1>2, <1>3, <1>4, <1>5, <2>1
<1>6. CASE pid # Frames - 1
  <2>. DEFINE new == Groups!Filled(mode, Groups!Ids(pid), <<talk, pid>>)
  <2>1. slots' = [g \in Groups!Grouped |-> Groups!Filled(g, Groups!Ids(pid), <<talk, pid>>)]
    BY <1>6 DEF Groups!Voice, Groups!Deliver
  <2>2. slots'[mode] = new
    BY <1>3, <2>1
  <2>3. /\ Groups!InPlace(mode, n) \in DOMAIN new
        /\ new[Groups!InPlace(mode, pid)] = <<talk, pid>>
        /\ \A i \in DOMAIN new : i # Groups!InPlace(mode, pid) => new[i] = slots[mode][i]
    <3>1. /\ DOMAIN new = 0..Groups!Size[mode] - 1
          /\ new[Groups!InPlace(mode, pid)] = <<talk, pid>>
          /\ \A i \in DOMAIN new : i # Groups!InPlace(mode, pid) => new[i] = slots[mode][i]
      BY FilledIs
    <3>2. n \in Nat
      BY <1>3
    <3>3. Groups!InPlace(mode, n) \in 0..Groups!Size[mode] - 1
      BY <1>3, <3>2, PlaceIs
    <3>. HIDE DEF new
    <3>. QED
      BY <3>1, <3>3
  <2>. HIDE DEF new
  <2>4. CASE n = pid
    BY <2>2, <2>3, <2>4
  <2>5. CASE n < pid
    <3>1. Groups!InPlace(mode, pid) # Groups!InPlace(mode, n)
      BY <1>2, <1>3, <2>5
    <3>. QED
      BY <1>4, <2>2, <2>3, <2>5, <3>1
  <2>. QED
    BY <1>2, <1>3, <2>4, <2>5
<1>. QED
  BY <1>5, <1>6

LEMMA VoiceReplaces ==
  ASSUME Groups!Inv, Groups!Voice, NEW h \in heard', h.mode \in Groups!Fed
  PROVE  h.is = h.at \/ h.at \in missing
<1>1. CASE h \in heard
  BY <1>1 DEF Groups!Inv, Groups!HeardInAllModes, Groups!OnlyLostReplaced
<1>2. CASE h \notin heard
  <2>1. h # Groups!Pair(<<talk, pid>>)
    BY DEF Groups!Pair, Groups!Fed, Groups!Grouped
  <2>2. PICK mode \in Groups!Grouped :
          /\ pid # Frames - 1
          /\ Groups!IsFull(mode, Groups!Ids(pid))
          /\ h \in Groups!Group(mode, Groups!Filled(mode, Groups!Ids(pid), <<talk, pid>>),
                                <<talk, pid>>)
    BY <1>2, <2>1, HeardIs
  <2>. DEFINE new == Groups!Filled(mode, Groups!Ids(pid), <<talk, pid>>)
              size == Groups!Size[mode]
  <2>3. PICK j \in DOMAIN new :
          h = [mode |-> mode, at |-> <<talk, pid + 1 + j - size>>, is |-> new[j]]
    BY <2>2 DEF Groups!Group
  <2>4. mode \in Groups!Fed
    BY <2>3
  <2>5. /\ pid \in Nat /\ pid < Frames /\ talk > 0 /\ Frames \in Nat \ {0}
        /\ Groups!Ids(pid)[mode] = Groups!InPlace(mode, pid)
    BY <2>4, TypesAre, IdsArePlaces DEF Groups!Inv, Groups!Voice
  <2>6. Groups!InPlace(mode, pid) = size - 1
    BY <2>2, <2>5 DEF Groups!IsFull
  <2>7. /\ size \in {3, 4, 5} /\ DOMAIN new = 0..size - 1 /\ new[size - 1] = <<talk, pid>>
        /\ \A i \in DOMAIN new : i # size - 1 => new[i] = slots[mode][i]
    BY <2>4, <2>5, <2>6, PlaceIs, FilledIs
  <2>. HIDE DEF new, size
  <2>8. CASE j = size - 1
    <3>1. pid + 1 + j - size = pid
      BY <2>5, <2>7, <2>8
    <3>. QED
      BY <2>3, <2>7, <2>8, <3>1
  <2>9. CASE j # size - 1
    <3>. DEFINE n == pid + 1 + j - size
    <3>1. j \in 0..size - 1 /\ j < size - 1
      BY <2>7, <2>9
    <3>2. n \in Nat /\ Groups!InPlace(mode, n) = j
      BY <2>5, <2>6, <2>7, GroupPlaces DEF size
    <3>3. n < pid /\ n \in 0..(Frames - 2)
      BY <2>5, <2>7, <3>1, <3>2
    <3>4. ASSUME NEW k \in n + 1..pid - 1
          PROVE  Groups!InPlace(mode, k) # Groups!InPlace(mode, n)
      <4>. DEFINE i == k + size - 1 - pid
      <4>1. i \in 0..size - 1 /\ i # j /\ pid + 1 + i - size = k
        BY <2>5, <2>7, <3>1, <3>2
      <4>. HIDE DEF i
      <4>2. Groups!InPlace(mode, pid + 1 + i - size) = i
        BY <2>5, <2>6, <4>1, GroupPlaces DEF size
      <4>. QED
        BY <3>2, <4>1, <4>2
    <3>. HIDE DEF n
    <3>5. <<talk, n>> \in missing \/ slots[mode][j] = <<talk, n>>
      BY <2>4, <2>5, <3>2, <3>3, <3>4 DEF Groups!Inv, Groups!Kept
    <3>6. h.at = <<talk, n>> /\ h.is = slots[mode][j]
      BY <2>3, <2>7, <2>9 DEF n
    <3>. QED
      BY <3>5, <3>6
  <2>. QED
    BY <2>8, <2>9
<1>. QED
  BY <1>1, <1>2

\* The group that the packet completes is sent.
LEMMA VoiceSends ==
  ASSUME Groups!Inv, Groups!Voice, NEW mode \in Groups!Fed, pid <= Frames - 2,
         Groups!InPlace(mode, pid) = Groups!Size[mode] - 1
  PROVE  \E h \in heard' : h.mode = mode /\ h.at = <<talk, pid>>
<1>. DEFINE new == Groups!Filled(mode, Groups!Ids(pid), <<talk, pid>>)
            size == Groups!Size[mode]
            h == [mode |-> mode, at |-> <<talk, pid + 1 + (size - 1) - size>>, is |-> new[size - 1]]
<1>1. /\ pid \in Nat /\ Frames \in Nat \ {0} /\ mode \in Groups!Grouped
      /\ Groups!Ids(pid)[mode] = size - 1
  BY TypesAre, IdsArePlaces DEF Groups!Inv
<1>2. size \in {3, 4, 5} /\ DOMAIN new = 0..size - 1
  BY <1>1, PlaceIs, FilledIs
<1>. HIDE DEF new, size
<1>3. size - 1 \in DOMAIN new /\ pid + 1 + (size - 1) >= size /\ pid + 1 + (size - 1) - size = pid
  BY <1>1, <1>2
<1>4. h \in Groups!Group(mode, new, <<talk, pid>>)
  BY <1>3 DEF Groups!Group, size
<1>5. pid # Frames - 1 /\ Groups!IsFull(mode, Groups!Ids(pid))
  BY <1>1 DEF Groups!IsFull, size
<1>6. h \in heard'
  <2>. HIDE DEF h
  <2>1. \E g \in {x \in Groups!Grouped : Groups!IsFull(x, Groups!Ids(pid))} :
          h \in Groups!Group(g, Groups!Filled(g, Groups!Ids(pid), <<talk, pid>>), <<talk, pid>>)
    BY <1>1, <1>4, <1>5 DEF new
  <2>. QED
    BY <1>5, <2>1 DEF Groups!Voice, Groups!Deliver
<1>. QED
  BY <1>3, <1>6

LEMMA VoiceKeepsInv == ASSUME Groups!Inv, Groups!Voice PROVE Groups!Inv'
<1>1. /\ UNCHANGED <<source, path, talk, missing, junk>> /\ pid' = pid + 1 /\ seq' = seq + 1
      /\ talk > 0 /\ pid < Frames
  BY DEF Groups!Voice, Groups!Deliver
<1>2. /\ pid \in 0..Frames /\ seq \in 0..Frames /\ Frames \in Nat \ {0} /\ seq <= pid
      /\ (missing = {} => seq = pid) /\ talk \in 0..Talks
  BY TypesAre DEF Groups!Inv, Groups!TypeOK
<1>3. Groups!TypeOK' /\ seq' <= pid' /\ (missing' = {} => seq' = pid')
  <2>1. pid' \in 0..Frames /\ seq' \in 0..Frames /\ seq' <= pid'
    BY <1>1, <1>2
  <2>2. missing' = {} => seq' = pid'
    BY <1>1, <1>2
  <2>. QED
    BY <1>1, <2>1, <2>2 DEF Groups!Inv, Groups!TypeOK
<1>4. /\ DOMAIN slots' = Groups!Grouped
      /\ \A mode \in Groups!Grouped : DOMAIN slots'[mode] = 0..(Groups!Size[mode] - 1)
  <2>1. \/ slots' = slots
        \/ slots' = [g \in Groups!Grouped |-> Groups!Filled(g, Groups!Ids(pid), <<talk, pid>>)]
    BY DEF Groups!Voice, Groups!Deliver
  <2>2. ASSUME NEW g \in Groups!Grouped
        PROVE  DOMAIN Groups!Filled(g, Groups!Ids(pid), <<talk, pid>>) = DOMAIN slots[g]
    BY DEF Groups!Filled
  <2>. QED
    BY <2>1, <2>2 DEF Groups!Inv
<1>5. Groups!OnlyLostReplaced'
  BY <1>1, GroupsKept, VoiceReplaces DEF Groups!OnlyLostReplaced
<1>6. Groups!WholeGroupsSent'
  <2>1. heard \subseteq heard'
    BY DEF Groups!Voice, Groups!Deliver
  <2>2. SUFFICES ASSUME NEW mode \in Groups!Fed, NEW t \in 1..talk, NEW n \in 0..(Frames - 2),
                        t < talk \/ n < pid + 1,
                        Groups!InPlace(mode, n) = Groups!Size[mode] - 1, <<t, n>> \notin missing
                 PROVE  \E h \in heard' : h.mode = mode /\ h.at = <<t, n>>
    BY <1>1, GroupsKept DEF Groups!WholeGroupsSent
  <2>3. CASE t < talk \/ n < pid
    <3>1. \E h \in heard : h.mode = mode /\ h.at = <<t, n>>
      BY <2>2, <2>3 DEF Groups!Inv, Groups!HeardInAllModes, Groups!WholeGroupsSent
    <3>. QED
      BY <2>1, <3>1
  <2>4. CASE t = talk /\ n = pid
    BY <1>2, <2>2, <2>4, VoiceSends
  <2>. QED
    BY <1>2, <2>2, <2>3, <2>4
<1>7. Groups!PairsWhole'
  <2>1. SUFFICES ASSUME missing = {}, NEW h \in heard', h.mode = "m17"
                 PROVE  h.is[2] % 2 = 1 \/ h.is[2] = Frames - 1
    BY <1>1 DEF Groups!PairsWhole
  <2>2. CASE h \in heard
    BY <2>1, <2>2 DEF Groups!Inv, Groups!HeardInAllModes, Groups!PairsWhole
  <2>3. CASE h \notin heard
    <3>1. h = Groups!Pair(<<talk, pid>>) /\ Groups!M17Sends(pid = Frames - 1)
      <4>1. \A mode \in Groups!Grouped : \A new, frame :
              h \in Groups!Group(mode, new, frame) => h.mode = mode
        BY DEF Groups!Group
      <4>2. "m17" \notin Groups!Grouped
        BY DEF Groups!Grouped
      <4>. QED
        BY <2>1, <2>3, <4>1, <4>2, HeardIs
    <3>2. h.is[2] = pid /\ (seq % 2 = 1 \/ pid = Frames - 1)
      BY <3>1 DEF Groups!Pair, Groups!M17Sends
    <3>. QED
      BY <1>2, <2>1, <3>2
  <2>. QED
    BY <2>2, <2>3
<1>. QED
  BY <1>3, <1>4, <1>5, <1>6, <1>7, VoiceKeeps DEF Groups!Inv, Groups!HeardInAllModes

LEMMA LoseKeepsInv == ASSUME Groups!Inv, Groups!Lose PROVE Groups!Inv'
<1>1. /\ UNCHANGED <<source, path, talk, seq, slots, heard, junk>> /\ pid' = pid + 1
      /\ missing' = missing \cup {<<talk, pid>>} /\ talk > 0 /\ pid < Frames
  BY DEF Groups!Lose
<1>2. /\ pid \in 0..Frames /\ seq \in 0..Frames /\ Frames \in Nat \ {0} /\ seq <= pid
      /\ talk \in 0..Talks /\ Talks \in Nat
  BY TypesAre, GroupsAre DEF Groups!Inv, Groups!TypeOK
<1>3. Groups!TypeOK' /\ seq' <= pid' /\ missing' # {}
  <2>1. pid' \in 0..Frames /\ seq' <= pid'
    BY <1>1, <1>2
  <2>2. talk \in 1..Talks /\ pid \in 0..(Frames - 1)
    BY <1>1, <1>2
  <2>3. missing \subseteq (1..Talks) \X (0..(Frames - 1))
    BY DEF Groups!Inv, Groups!TypeOK
  <2>4. missing' \subseteq (1..Talks) \X (0..(Frames - 1))
    BY ONLY <1>1, <2>2, <2>3
  <2>5. missing' # {}
    BY ONLY <1>1
  <2>. QED
    BY <1>1, <2>1, <2>4, <2>5 DEF Groups!Inv, Groups!TypeOK
<1>4. Groups!Kept'
  <2>1. SUFFICES ASSUME NEW mode \in Groups!Fed, NEW n \in 0..(Frames - 2),
                        n < pid + 1, <<talk, n>> \notin missing', talk > 0,
                        \A k \in n + 1..pid : Groups!InPlace(mode, k) # Groups!InPlace(mode, n)
                 PROVE  slots[mode][Groups!InPlace(mode, n)] = <<talk, n>>
    <3>1. pid' - 1 = pid
      BY <1>1, <1>2
    <3>. QED
      BY <1>1, <3>1, GroupsKept DEF Groups!Kept
  <2>2. n # pid /\ <<talk, n>> \notin missing
    BY <1>1, <2>1
  <2>3. n < pid /\ \A k \in n + 1..pid - 1 : k \in n + 1..pid
    BY <1>2, <2>1, <2>2
  <2>. QED
    BY <2>1, <2>2, <2>3 DEF Groups!Inv, Groups!Kept
<1>5. Groups!OnlyLostReplaced'
  BY <1>1, GroupsKept DEF Groups!Inv, Groups!HeardInAllModes, Groups!OnlyLostReplaced
<1>6. Groups!WholeGroupsSent'
  <2>1. SUFFICES ASSUME NEW mode \in Groups!Fed, NEW t \in 1..talk, NEW n \in 0..(Frames - 2),
                        t < talk \/ n < pid + 1,
                        Groups!InPlace(mode, n) = Groups!Size[mode] - 1, <<t, n>> \notin missing'
                 PROVE  \E h \in heard : h.mode = mode /\ h.at = <<t, n>>
    BY <1>1, GroupsKept DEF Groups!WholeGroupsSent
  <2>2. t < talk \/ n < pid
    BY <1>1, <1>2, <2>1
  <2>. QED
    BY <1>1, <2>1, <2>2 DEF Groups!Inv, Groups!HeardInAllModes, Groups!WholeGroupsSent
<1>7. Groups!PairsWhole'
  BY <1>3 DEF Groups!PairsWhole
<1>. QED
  BY <1>1, <1>3, <1>4, <1>5, <1>6, <1>7 DEF Groups!Inv, Groups!HeardInAllModes

\* When a transmission begins, all groups of the one before are sent.
LEMMA StartKeepsInv == ASSUME Groups!Inv, Groups!Start PROVE Groups!Inv'
<1>1. /\ UNCHANGED <<source, path, slots, heard, missing>> /\ talk' = talk + 1 /\ pid' = 0
      /\ seq' = 0 /\ talk < Talks /\ (talk = 0 \/ pid = Frames)
  BY DEF Groups!Start
<1>2. /\ Frames \in Nat \ {0} /\ talk \in 0..Talks /\ Talks \in Nat
  BY TypesAre, GroupsAre DEF Groups!Inv, Groups!TypeOK
<1>3. Groups!TypeOK' /\ seq' <= pid' /\ seq' = pid'
  <2>1. pid' \in 0..Frames /\ seq' \in 0..Frames /\ talk' \in 0..Talks
    BY <1>1, <1>2
  <2>. QED
    BY <1>1, <2>1 DEF Groups!Inv, Groups!TypeOK
<1>4. Groups!Kept'
  BY <1>1 DEF Groups!Kept
<1>5. Groups!OnlyLostReplaced'
  BY <1>1, GroupsKept DEF Groups!Inv, Groups!HeardInAllModes, Groups!OnlyLostReplaced
<1>6. Groups!WholeGroupsSent'
  <2>1. SUFFICES ASSUME NEW mode \in Groups!Fed, NEW t \in 1..talk + 1, NEW n \in 0..(Frames - 2),
                        t < talk + 1 \/ n < 0,
                        Groups!InPlace(mode, n) = Groups!Size[mode] - 1, <<t, n>> \notin missing
                 PROVE  \E h \in heard : h.mode = mode /\ h.at = <<t, n>>
    BY <1>1, GroupsKept DEF Groups!WholeGroupsSent
  <2>2. t \in 1..talk /\ (t < talk \/ n < pid)
    BY <1>1, <1>2, <2>1
  <2>. QED
    BY <2>1, <2>2 DEF Groups!Inv, Groups!HeardInAllModes, Groups!WholeGroupsSent
<1>7. Groups!PairsWhole'
  BY <1>1 DEF Groups!Inv, Groups!HeardInAllModes, Groups!PairsWhole
<1>. QED
  BY <1>1, <1>3, <1>4, <1>5, <1>6, <1>7 DEF Groups!Inv, Groups!HeardInAllModes

LEMMA GroupsInit == ASSUME Groups!Init PROVE Groups!Inv
<1>1. talk = 0 /\ pid = 0 /\ seq = 0 /\ heard = {} /\ missing = {}
  BY DEF Groups!Init
<1>2. Groups!TypeOK
  <2>1. 0 \in 0..Frames /\ 0 \in 0..Talks
    BY GroupsAre
  <2>. QED
    BY <1>1, <2>1 DEF Groups!Init, Groups!TypeOK
<1>3. Groups!Kept /\ Groups!HeardInAllModes
  BY <1>1 DEF Groups!Kept, Groups!HeardInAllModes, Groups!OnlyLostReplaced,
              Groups!WholeGroupsSent, Groups!PairsWhole
<1>4. /\ DOMAIN slots = Groups!Grouped
      /\ \A mode \in Groups!Grouped : DOMAIN slots[mode] = 0..(Groups!Size[mode] - 1)
  BY DEF Groups!Init
<1>. QED
  BY <1>1, <1>2, <1>3, <1>4 DEF Groups!Inv

LEMMA GroupsInvariance ==
  ASSUME Groups!Inv, Groups!Next \/ UNCHANGED superframesVars
  PROVE  Groups!Inv'
<1>1. CASE UNCHANGED superframesVars
  <2>1. UNCHANGED <<source, path, talk, pid, seq, slots, heard, missing, junk>>
    BY <1>1 DEF superframesVars
  <2>2. Groups!TypeOK'
    BY <2>1 DEF Groups!Inv, Groups!TypeOK
  <2>3. Groups!Kept'
    BY <2>1, GroupsKept DEF Groups!Inv, Groups!Kept
  <2>4. Groups!HeardInAllModes'
    <3>1. Groups!OnlyLostReplaced'
      BY <2>1, GroupsKept DEF Groups!Inv, Groups!HeardInAllModes, Groups!OnlyLostReplaced
    <3>2. Groups!WholeGroupsSent'
      <4>1. SUFFICES ASSUME NEW mode \in Groups!Fed, NEW t \in 1..talk, NEW n \in 0..(Frames - 2),
                            t < talk \/ n < pid, <<t, n>> \notin missing,
                            Groups!InPlace(mode, n) = Groups!Size[mode] - 1
                     PROVE  \E h \in heard : h.mode = mode /\ h.at = <<t, n>>
        BY <2>1, GroupsKept DEF Groups!WholeGroupsSent
      <4>. QED
        BY <4>1 DEF Groups!Inv, Groups!HeardInAllModes, Groups!WholeGroupsSent
    <3>3. Groups!PairsWhole'
      BY <2>1 DEF Groups!Inv, Groups!HeardInAllModes, Groups!PairsWhole
    <3>. QED
      BY <3>1, <3>2, <3>3 DEF Groups!HeardInAllModes
  <2>. QED
    BY <2>1, <2>2, <2>3, <2>4 DEF Groups!Inv
<1>. QED
  BY <1>1, StartKeepsInv, VoiceKeepsInv, LoseKeepsInv DEF Groups!Next

\* The frames that came are in their slots: see Superframes!Inv.
GroupsInv == part = "superframes" => Groups!Inv

\* A talker is heard in all modes, whatever his own: in each group his frames are
\* in their places but for the lost ones, each group whose last packet came is
\* sent, and M17 gets pairs: see Superframes!HeardInAllModes.
THEOREM HeardInAllModesCorrect == Spec => []HeardInAllModes
<1>1. Init => GroupsInv
  BY GroupsInit DEF Init, GroupsInv
<1>2. ASSUME GroupsInv, [Next]_vars PROVE GroupsInv'
  BY <1>2, GroupsSteps, GroupsInvariance DEF GroupsInv
<1>3. GroupsInv => HeardInAllModes
  BY DEF GroupsInv, Groups!Inv, HeardInAllModes
<1>. QED
  BY <1>1, <1>2, <1>3, PTL DEF Spec
=============================================================================
