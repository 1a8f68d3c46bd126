----------------------------- MODULE Superframes -----------------------------
(***************************************************************************)
(* The numbers a voice packet carries, and the groups that are made of     *)
(* them.  A station's protocol numbers its own packets; CPacketStream::Push *)
(* numbers them for the other modes (CPacket::UpdatePids).  By these       *)
(* numbers the DMR, YSF and NXDN threads put 3, 5 and 4 packets into one   *)
(* datagram; M17 takes every second packet.  A packet may be lost between  *)
(* the numbering and those threads: in the transcoder, or on the way to a  *)
(* peer.                                                                   *)
(***************************************************************************)
EXTENDS Naturals, FiniteSets

CONSTANTS
  Sources,   \* the modes of the talkers
  Frames,    \* the voice packets of a transmission; the last ends it
  Talks,     \* how many transmissions follow each other on the module
  MaxLost    \* bound of the lost packets

SuperframesAssumption ==
  /\ Sources \subseteq {"dstar", "dmr", "ysf", "nxdn", "p25", "m17"}
  /\ Frames \in Nat \ {0}
  /\ "ysf" \in Sources => Frames > 3 /\ Frames % 5 = 4  \* header, datagrams, terminator
  /\ Talks \in Nat \ {0} /\ MaxLost \in Nat

VARIABLES
  source,   \* the mode of the talker
  path,     \* "local", or "peer": the packets come over the interlink
  talk,     \* the transmission under way; 0 before the first
  pid,      \* CPacketStream::m_uiPacketCntr
  seq,      \* m_StreamsCache[module].m_iSeqCounter of M17
  cache,    \* m_dvFrames of each mode's thread: slot -> frame
  heard,    \* what the clients got: [mode, at, is]: frame "is" in place of "at"
  missing,  \* the lost packets
  junk      \* what the memory of a peer's packets holds for the NXDN number

vars == <<source, path, talk, pid, seq, cache, heard, missing, junk>>

Grouped == {"dmr", "ysf", "nxdn"}
Size == [dmr |-> 3, ysf |-> 5, nxdn |-> 4]
Nothing == <<0, 0>>
Undefined == 255

TypeOK ==
  /\ source \in Sources /\ path \in {"local", "peer"}
  /\ talk \in 0..Talks /\ pid \in 0..Frames /\ seq \in 0..Frames
  /\ missing \subseteq (1..Talks) \X (0..(Frames - 1))

-----------------------------------------------------------------------------
\* The number a mode's own packets have in its group, as sent by the station.  A
\* YSF header makes two silent packets, and the datagrams of five follow it.
InGroup(mode, n) ==
  IF mode = "ysf" /\ n >= 2 THEN (n - 2) % Size["ysf"] ELSE n % Size[mode]

\* What the constructors of CPacket make of the n-th packet of a talker: the
\* numbers of its own mode, and 0xFF for the others.  A P25 packet is made by
\* the constructor of NXDN, with "false" for the number.
Numbered(n) ==
  [mode \in Grouped |->
     CASE mode = source -> InGroup(mode, n)
       [] mode = "nxdn" /\ source = "p25" -> 0
       [] OTHER -> Undefined]

\* Mutant: the YSF number is taken from the superframe.
UpdatePidsOfFrame(ids, p) ==
  [mode \in Grouped |->
     IF ids[mode] # Undefined THEN ids[mode]
     ELSE IF mode = "ysf" THEN (p \div 5) % 8
     ELSE p % Size[mode]]

\* CPacket::UpdatePids
UpdatePids(ids, p) ==
  [mode \in Grouped |-> IF ids[mode] = Undefined THEN p % Size[mode] ELSE ids[mode]]

\* CPacket::EncodeInterlinkPacket and the constructor that reads it: the NXDN
\* number is not in the datagram, and nothing sets it at the peer.
Carried(ids) == [ids EXCEPT !["nxdn"] = junk]

-----------------------------------------------------------------------------
\* The thread of a grouped mode: HandleQueue of DMR, YSF and NXDN.
\* DMR counts its slots from 1.
Filled(mode, ids, frame) ==
  IF ids[mode] < Size[mode] THEN [cache[mode] EXCEPT ![ids[mode]] = frame] ELSE cache[mode]
IsFull(mode, ids) == ids[mode] = Size[mode] - 1

\* The datagram that is sent when the last of a group comes.
Group(mode, slots, frame) ==
  {[mode |-> mode, at |-> <<frame[1], frame[2] + 1 + i - Size[mode]>>, is |-> slots[i]] :
     i \in {j \in DOMAIN slots : frame[2] + 1 + j >= Size[mode]}}

\* HandleQueue of M17: every second packet, and the last.
M17Sends(last) == seq % 2 = 1 \/ last
Pair(frame) == [mode |-> "m17", at |-> frame, is |-> frame]

\* A packet is handed to the threads of all the protocols.
Deliver(ids, frame, last) ==
  LET slots == [mode \in Grouped |-> Filled(mode, ids, frame)]
  IN /\ cache' = IF last THEN cache ELSE slots
     /\ heard' = heard
          \cup (IF last THEN {}
                ELSE UNION {Group(mode, slots[mode], frame) :
                              mode \in {g \in Grouped : IsFull(g, ids)}})
          \cup (IF M17Sends(last) THEN {Pair(frame)} ELSE {})
     /\ seq' = seq + 1
     /\ UNCHANGED missing

-----------------------------------------------------------------------------
Init ==
  /\ source \in Sources /\ path \in {"local", "peer"}
  /\ talk = 0 /\ pid = 0 /\ seq = 0 /\ heard = {} /\ missing = {}
  /\ junk = Undefined
  /\ cache = [mode \in Grouped |-> [slot \in 0..(Size[mode] - 1) |-> Nothing]]

\* A transmission starts: CPacketStream::OpenPacketStream, and each thread
\* takes its header.  The slots keep what they hold.  A packet at a peer lies
\* where the one before it lay, so the junk is chosen for a transmission; all
\* above 3 but 255 is alike.
Start ==
  /\ talk < Talks /\ (talk = 0 \/ pid = Frames)
  /\ talk' = talk + 1 /\ pid' = 0 /\ seq' = 0
  /\ junk' \in IF path = "peer" THEN {0, 3, 9, Undefined} ELSE {Undefined}
  /\ UNCHANGED <<source, path, cache, heard, missing>>

\* The numbers a packet has when the threads get it.  At a peer they are those
\* of the reflector it came from, which UpdatePids there leaves as they are.
Ids(n) ==
  LET first == UpdatePids(Numbered(n), n)
  IN IF path = "local" THEN first ELSE UpdatePids(Carried(first), n)

\* A voice packet is numbered (CPacketStream::Push) and comes to the threads.
Voice ==
  /\ talk > 0 /\ pid < Frames
  /\ pid' = pid + 1
  /\ Deliver(Ids(pid), <<talk, pid>>, pid = Frames - 1)
  /\ UNCHANGED <<source, path, talk, junk>>

\* It is numbered and lost.
Lose ==
  /\ talk > 0 /\ pid < Frames /\ Cardinality(missing) < MaxLost
  /\ pid' = pid + 1
  /\ missing' = missing \cup {<<talk, pid>>}
  /\ UNCHANGED <<source, path, talk, seq, cache, heard, junk>>

Next ==
  \/ Start
  \/ Voice
  \/ Lose

Spec == Init /\ [][Next]_vars

-----------------------------------------------------------------------------
\* The modes that can make groups of this talker's packets.
Fed == Grouped \ (IF source = "p25" \/ path = "peer" THEN {"nxdn"} ELSE {})

\* A frame is heard in its own place, and only in the place of a lost one is an
\* earlier frame heard again: the threads do not clear m_dvFrames.
OnlyLostReplaced ==
  \A h \in heard : h.mode \in Fed => h.is = h.at \/ h.at \in missing

\* The groups whose last packet came are all sent (a lost last packet takes its
\* group with it).
InPlace(mode, n) == IF mode = source THEN InGroup(mode, n) ELSE n % Size[mode]
WholeGroupsSent ==
  \A mode \in Fed, t \in 1..talk, n \in 0..(Frames - 2) :
    /\ t < talk \/ n < pid
    /\ InPlace(mode, n) = Size[mode] - 1
    /\ <<t, n>> \notin missing
    => \E h \in heard : h.mode = mode /\ h.at = <<t, n>>

\* M17 is sent each pair once, as long as no packet is lost.
PairsWhole ==
  missing = {} =>
    \A h \in heard : h.mode = "m17" => h.is[2] % 2 = 1 \/ h.is[2] = Frames - 1

\* The three together: a talker is heard in the other modes.
HeardInAllModes == OnlyLostReplaced /\ WholeGroupsSent /\ PairsWhole

(***************************************************************************)
(* The inductive invariant behind HeardInAllModes: a frame that came is in *)
(* its slot until another comes whose place in the group is the same; and  *)
(* M17's count is the packet's number, as long as none is lost.            *)
(***************************************************************************)
Kept ==
  \A mode \in Fed, n \in 0..(Frames - 2) :
    /\ talk > 0 /\ n < pid /\ <<talk, n>> \notin missing
    /\ \A k \in n + 1..pid - 1 : InPlace(mode, k) # InPlace(mode, n)
    => cache[mode][InPlace(mode, n)] = <<talk, n>>

Inv ==
  /\ TypeOK
  /\ DOMAIN cache = Grouped
  /\ \A mode \in Grouped : DOMAIN cache[mode] = 0..(Size[mode] - 1)
  /\ seq <= pid /\ (missing = {} => seq = pid)
  /\ Kept
  /\ HeardInAllModes
=============================================================================
