-------------------------------- MODULE Fanout --------------------------------
(***************************************************************************)
(* How a transmission reaches the listeners (reflector/Reflector.cpp,      *)
(* RouterThread, and HandleQueue of the nine protocols).                   *)
(*                                                                         *)
(* The router thread of a module takes the packets of its stream and       *)
(* pushes a copy on the queue of every protocol.  The thread of a protocol *)
(* takes the packets of all modules from its one queue and, with what it   *)
(* keeps of each module, turns them into packets of its own, which may     *)
(* need several frames, for those of its clients that listen.              *)
(*                                                                         *)
(* Protocols share nothing below the router, so a behaviour watches one.   *)
(***************************************************************************)
EXTENDS Naturals, FiniteSets, SequencesExt

CONSTANTS
  Watched,    \* the protocols one of which is watched
  Clients,    \* the clients of the protocol that is watched
  Modules,    \* the modules configured
  Transcoded, \* those whose local frames pass through the transcoder
  Prompt,     \* those where no packet is under way for as long as STREAM_TIMEOUT
  Period,     \* D-Plus packets from one copy of the header to the next
  MaxTalks,   \* bound of the model: transmissions
  MaxFrames,  \* bound of the model: frames of a transmission that are more than one group
  MaxQueue,   \* bound of the model: packets in a queue
  None        \* nothing, nobody, somebody on another protocol

Protocols == {"dextra", "dplus", "dcs", "mmdvm", "ysf", "m17", "p25", "nxdn", "urf"}

Packets == [talk : Nat \ {0}, header : BOOLEAN, pid : Nat, last : BOOLEAN]

FanoutAssumption ==
  /\ Watched \subseteq Protocols
  /\ Prompt \subseteq Modules
  /\ Transcoded \subseteq Prompt
  /\ Period \in Nat \ {0}
  /\ MaxTalks \in Nat /\ MaxFrames \in Nat /\ MaxQueue \in Nat
  /\ IsFiniteSet(Clients) /\ None \notin Clients \cup Packets

VARIABLES
  protocol,  \* the protocol that is watched
  linked,    \* m_ReflectorModule of each client
  talks,     \* the transmissions so far: who, on which module, of local origin?
  now,       \* m_uiStreamId and m_uiPacketCntr of each CPacketStream
  codec,     \* frames in the CCodecStream of each module
  stream,    \* m_Queue of each CPacketStream
  queue,     \* m_Queue of the CProtocol
  cache,     \* m_StreamsCache of the protocol
  out        \* the packet the protocol sent last for each module

sourceVars == <<talks, now, codec>>
vars == <<protocol, linked, sourceVars, stream, queue, cache, out>>

\* The frames one outgoing packet carries.
Size(p) == CASE p = "mmdvm" -> 3 [] p = "nxdn" -> 4 [] p = "ysf" -> 5 [] OTHER -> 1
MaxSize == 5

TypeOK ==
  /\ protocol \in Watched
  /\ linked \in [Clients -> Modules]
  /\ talks \in Seq([by : Clients \cup {None}, module : Modules, local : BOOLEAN])
  /\ now \in [Modules -> [talk : 0..Len(talks), pid : Nat, over : BOOLEAN]]
  /\ codec \in [Modules -> Seq(Packets)] /\ stream \in [Modules -> Seq(Packets)]
  /\ queue \in Seq(Packets)
  /\ cache \in [Modules -> [header : 0..Len(talks), seq : Nat,
                            frames : [0..MaxSize - 1 -> Packets \cup {None}]]]
  /\ DOMAIN out = Modules
  /\ \A m \in Modules :
       /\ out[m].kind \in {"nothing", "header", "voice", "last"}
       /\ out[m].header \in 0..Len(talks)
       /\ out[m].frames \in Seq(Packets \cup {None})
       /\ out[m].kind # "nothing" => out[m].frames[Len(out[m].frames)] \in Packets

NoTalk == [talk |-> 0, pid |-> 0, over |-> FALSE]
Nothing == [kind |-> "nothing", header |-> 0, frames |-> <<>>, to |-> {}, copy |-> {}]
Unset == [header |-> 0, frames |-> [i \in 0..MaxSize - 1 |-> None], seq |-> 0]

Init ==
  /\ protocol \in Watched
  /\ linked \in [Clients -> Modules]
  /\ talks = <<>>
  /\ now = [m \in Modules |-> NoTalk]
  /\ codec = [m \in Modules |-> <<>>]
  /\ stream = [m \in Modules |-> <<>>]
  /\ queue = <<>>
  /\ cache = [m \in Modules |-> Unset]
  /\ out = [m \in Modules |-> Nothing]

Open(m) == now[m].talk # 0
Talker(m) == IF Open(m) THEN talks[now[m].talk].by ELSE None
IsAMaster(c) == \E m \in Modules : Talker(m) = c

-----------------------------------------------------------------------------
(***************************************************************************)
(* Where the packets come from.                                            *)
(***************************************************************************)

\* OpenStream, which pushes the header.  The header does not pass through the
\* transcoder.  A client of URF is a module of a peer.
OpenStream(m, c) ==
  /\ ~Open(m)
  /\ Len(talks) < MaxTalks /\ Len(stream[m]) < MaxQueue
  /\ c # None => ~IsAMaster(c) /\ linked[c] = m
  /\ \E local \in BOOLEAN :
       /\ c # None => (local <=> protocol # "urf")
       /\ talks' = Append(talks, [by |-> c, module |-> m, local |-> local])
  /\ now' = [now EXCEPT ![m] = [talk |-> Len(talks'), pid |-> 0, over |-> FALSE]]
  /\ stream' = [stream EXCEPT ![m] =
                  Append(@, [talk |-> Len(talks'), header |-> TRUE, pid |-> 0, last |-> FALSE])]
  /\ UNCHANGED <<protocol, linked, codec, queue, cache, out>>

\* CPacketStream::Push with a frame, which is numbered.
Push(m) ==
  /\ Open(m) /\ ~now[m].over
  /\ now[m].pid < Size(protocol) + MaxFrames /\ Len(stream[m]) < MaxQueue /\ Len(codec[m]) < MaxQueue
  /\ \E last \in BOOLEAN :
       LET frame == [talk |-> now[m].talk, header |-> FALSE, pid |-> now[m].pid, last |-> last]
       IN  /\ now' = [now EXCEPT ![m].pid = @ + 1, ![m].over = last]
           /\ IF m \in Transcoded /\ talks[now[m].talk].local
              THEN codec' = [codec EXCEPT ![m] = Append(@, frame)] /\ UNCHANGED stream
              ELSE stream' = [stream EXCEPT ![m] = Append(@, frame)] /\ UNCHANGED codec
  /\ UNCHANGED <<protocol, linked, talks, queue, cache, out>>

\* ReturnPacket, unless the transcoder has lost the frame.
CodecStream(m) ==
  /\ codec[m] # <<>>
  /\ codec' = [codec EXCEPT ![m] = Tail(@)]
  /\ \/ /\ Len(stream[m]) < MaxQueue
        /\ stream' = [stream EXCEPT ![m] = Append(@, Head(codec[m]))]
     \/ UNCHANGED stream
  /\ UNCHANGED <<protocol, linked, talks, now, queue, cache, out>>

\* CloseStream, once the queue of the stream is empty and the stream has been
\* silent for STREAM_TIMEOUT.
CloseStream(m) ==
  /\ Open(m)
  /\ stream[m] = <<>>
  /\ m \in Prompt =>
       /\ codec[m] = <<>>
       /\ \A i \in DOMAIN queue : talks[queue[i].talk].module # m
  /\ now' = [now EXCEPT ![m] = NoTalk]
  /\ UNCHANGED <<protocol, linked, talks, codec, stream, queue, cache, out>>

\* PopWait, then a copy for every protocol under the lock of the protocols.
RouterThread(m) ==
  /\ stream[m] # <<>> /\ Len(queue) < MaxQueue
  /\ queue' = Append(queue, Head(stream[m]))
  /\ stream' = [stream EXCEPT ![m] = Tail(@)]
  /\ UNCHANGED <<protocol, linked, sourceVars, cache, out>>

-----------------------------------------------------------------------------
(***************************************************************************)
(* HandleQueue of each protocol.                                           *)
(***************************************************************************)

Packet == Head(queue)
Module == talks[Packet.talk].module
Cache == cache[Module]

\* Mutant: the clients are not asked whether they are masters.
AllClients(m) == {c \in Clients : protocol = "dplus" \/ linked[c] = m}

\* Those linked to the module who do not talk themselves; D-Plus leaves it to
\* the clients which module they listen to.
Listeners(m) == {c \in Clients : ~IsAMaster(c) /\ (protocol = "dplus" \/ linked[c] = m)}

SendWithCopy(kind, header, frames, copy) ==
  out' = [out EXCEPT ![Module] =
            [kind |-> kind, header |-> header, frames |-> frames,
             to |-> Listeners(Module), copy |-> copy]]
Send(kind, header, frames) == SendWithCopy(kind, header, frames, {})
Kind(p) == IF p.header THEN "header" ELSE IF p.last THEN "last" ELSE "voice"

\* Mutant: what is kept is kept once for all modules.
KeepForAll(entry) == cache' = [m \in Modules |-> entry]

Keep(entry) == cache' = [cache EXCEPT ![Module] = entry]

\* Mutant: the header of a new transmission is kept and not counted anew.
KeepHeaderOnly == Keep([Cache EXCEPT !.header = Packet.talk])

KeepHeader == Keep([Cache EXCEPT !.header = Packet.talk, !.seq = 0])
KeepFrame(i) == Keep([Cache EXCEPT !.frames[i] = Packet])

\* The packet as it is, with the stream id in it.
DExtra ==
  /\ Send(Kind(Packet), Packet.talk, <<Packet>>)
  /\ UNCHANGED cache

\* Only what comes from here, for the peers.
URF ==
  /\ IF talks[Packet.talk].local THEN Send(Kind(Packet), Packet.talk, <<Packet>>)
                                 ELSE UNCHANGED out
  /\ UNCHANGED cache

\* The packet as it is, and every Period-th time a frame is sent to a client,
\* in the order they are listed, the same client gets a copy of the header.
DPlus ==
  LET to == SetToSeq(Listeners(Module))
      copy == {to[k] : k \in {n \in DOMAIN to : (Cache.seq + n) % Period = 0}}
  IN  IF Packet.header THEN Send("header", Packet.talk, <<Packet>>) /\ KeepHeader
      ELSE /\ SendWithCopy(Kind(Packet), Packet.talk, <<Packet>>, copy)
           /\ Keep([Cache EXCEPT !.seq = @ + Cardinality(Listeners(Module))])

\* A packet for each frame, which takes the header and a number from the cache.
DCS ==
  IF Packet.header THEN KeepHeader /\ UNCHANGED out
  ELSE /\ Send(Kind(Packet), Cache.header, <<Packet>>)
       /\ Keep([Cache EXCEPT !.seq = @ + 1])

P25 == DCS

\* Mutant: the last frame goes only when it is the second of a pair.
M17Pairs ==
  IF Packet.header THEN KeepHeader /\ UNCHANGED out
  ELSE /\ IF Cache.seq % 2 = 1 THEN Send(Kind(Packet), Cache.header, <<Packet>>)
                               ELSE UNCHANGED out
       /\ Keep([Cache EXCEPT !.seq = @ + 1])

\* A packet for the second frame of each pair, which holds the voice of both,
\* and for the last frame.
M17 ==
  IF Packet.header THEN KeepHeader /\ UNCHANGED out
  ELSE /\ IF Cache.seq % 2 = 1 \/ Packet.last THEN Send(Kind(Packet), Cache.header, <<Packet>>)
                                              ELSE UNCHANGED out
       /\ Keep([Cache EXCEPT !.seq = @ + 1])

\* Headers and terminators as they come, and a packet for each Size frames.
Group ==
  LET i == Packet.pid % Size(protocol)
  IN  \/ /\ Packet.header
         /\ KeepHeader
         /\ Send("header", Packet.talk, <<Packet>>)
      \/ /\ Packet.last
         /\ Send("last", Cache.header, <<Packet>>)
         /\ UNCHANGED cache
      \/ /\ ~Packet.header /\ ~Packet.last /\ i < Size(protocol) - 1
         /\ KeepFrame(i)
         /\ UNCHANGED out
      \/ /\ ~Packet.header /\ ~Packet.last /\ i = Size(protocol) - 1
         /\ Send("voice", Cache.header,
                 [k \in 1..Size(protocol) |-> IF k = Size(protocol) THEN Packet
                                                                  ELSE Cache.frames[k - 1]])
         /\ KeepFrame(i)

MMDVM == protocol = "mmdvm" /\ Group
NXDN == protocol = "nxdn" /\ Group
YSF == protocol = "ysf" /\ Group

HandleQueue ==
  /\ queue # <<>>
  /\ queue' = Tail(queue)
  /\ \/ protocol = "dextra" /\ DExtra
     \/ protocol = "dplus" /\ DPlus
     \/ protocol = "dcs" /\ DCS
     \/ protocol = "m17" /\ M17
     \/ protocol = "p25" /\ P25
     \/ protocol = "urf" /\ URF
     \/ MMDVM \/ NXDN \/ YSF
  /\ UNCHANGED <<protocol, linked, sourceVars, stream>>

-----------------------------------------------------------------------------

Next ==
  \/ \E m \in Modules :
       \/ \E c \in Clients \cup {None} : OpenStream(m, c)
       \/ Push(m)
       \/ CodecStream(m)
       \/ CloseStream(m)
       \/ RouterThread(m)
  \/ HandleQueue

Spec == Init /\ [][Next]_vars
=============================================================================
