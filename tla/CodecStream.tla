---------------------------- MODULE CodecStream ----------------------------
(***************************************************************************)
(* The codec stream of a transcoded module (reflector/CodecStream.cpp).    *)
(*                                                                         *)
(* The protocol thread of the talker pushes voice frames on m_Queue.  The  *)
(* codec thread sends each to the transcoder and keeps it in m_LocalQueue; *)
(* an answer is matched to the frame it belongs to by stream id and        *)
(* sequence number, and the frame goes to the queue of the packet stream.  *)
(* ResetStats and ReportStats, called by the protocol thread when the      *)
(* stream opens and closes, write the fields that the codec thread reads.  *)
(***************************************************************************)
EXTENDS Naturals, SequencesExt

CONSTANTS
  StreamIds,   \* the stream ids of transmissions
  MaxTalks,    \* bound of the model: transmissions
  MaxFrames,   \* bound of the model: frames said in all of them
  Lossy        \* answers may be lost

ASSUME CodecAssumption ==
  /\ MaxTalks \in Nat \ {0}
  /\ MaxFrames \in Nat \ {0}
  /\ Lossy \in BOOLEAN

VARIABLES
  phase,     \* what the protocol thread is doing: see Phases
  ids,       \* the stream ids of the transmissions opened, in order
  said,      \* how many frames were pushed
  timely,    \* every stream that was closed was answered by then
  isOpen,    \* m_IsOpen
  sid,       \* m_uiStreamId
  total,     \* m_uiTotalPackets
  queue,     \* m_Queue
  local,     \* m_LocalQueue
  tc,        \* frames sent to the transcoder and not answered yet
  pc,        \* where the codec thread is in Task: see Points
  frame,     \* Frame
  pack,      \* pack
  returned,  \* what ReturnPacket was given, with the answer it carries
  lost       \* frames whose answer was lost

talkVars  == <<phase, ids, said, timely>>
stateVars == <<isOpen, sid, total>>
taskVars  == <<pc, frame, pack, local>>
vars == <<talkVars, stateVars, taskVars, queue, tc, returned, lost>>

\* The stream is closed, ResetStats is between two assignments, or it is open.
Phases == {"closed", "flagged", "named", "open"}

\* "match" and "sequence" are before the two loops that look for the frame of
\* an answer, "take" before m_Queue.Pop, "send" before the frame is sent.
Points == {"receive", "match", "sequence", "take", "send"}

\* A frame, and the sequence number it gets when it is sent.  Frames are told
\* apart by nr, which no code reads.
Frames == [nr : 1..MaxFrames, id : StreamIds, seq : 0..MaxFrames - 1]

TypeOK ==
  /\ phase \in Phases
  /\ ids \in Seq(StreamIds)
  /\ phase = "closed" \/ ids # <<>>
  /\ said \in 0..MaxFrames
  /\ timely \in BOOLEAN
  /\ isOpen \in BOOLEAN
  /\ sid \in StreamIds
  /\ total \in 0..MaxFrames
  /\ queue \in Seq(Frames)
  /\ local \in Seq(Frames)
  /\ tc \in Seq(Frames)
  /\ pc \in Points
  /\ frame \in Frames
  /\ pack \in Frames
  /\ returned \in Seq([frame : Frames, answer : Frames])
  /\ lost \subseteq Frames

\* m_uiStreamId and the packets of Task are not initialized: they are written
\* before they are read.
Init ==
  /\ phase = "closed"
  /\ ids = <<>>
  /\ said = 0
  /\ timely = TRUE
  /\ isOpen = FALSE
  /\ sid \in StreamIds
  /\ total = 0
  /\ queue = <<>>
  /\ local = <<>>
  /\ tc = <<>>
  /\ pc = "receive"
  /\ frame = [nr |-> 1, id |-> sid, seq |-> 0]
  /\ pack = frame
  /\ returned = <<>>
  /\ lost = {}

\* Every frame that was said is answered, dropped or lost.
AllAnswered == queue = <<>> /\ tc = <<>> /\ pc = "receive"

-----------------------------------------------------------------------------
(***************************************************************************)
(* The protocol thread: OpenPacketStream and ResetStats, one assignment at *)
(* a time, Push and ClosePacketStream.                                     *)
(***************************************************************************)

\* Mutant: the stream is not opened again after the first transmission.
NeverOpen ==
  /\ phase = "closed"
  /\ Len(ids) < MaxTalks
  /\ \E new \in StreamIds : ids' = Append(ids, new)
  /\ isOpen' = (ids = <<>>)
  /\ phase' = "flagged"
  /\ UNCHANGED <<said, timely, sid, total, taskVars, queue, tc, returned, lost>>

Flag ==
  /\ phase = "closed"
  /\ Len(ids) < MaxTalks
  /\ \E new \in StreamIds : ids' = Append(ids, new)
  /\ isOpen' = TRUE
  /\ phase' = "flagged"
  /\ UNCHANGED <<said, timely, sid, total, taskVars, queue, tc, returned, lost>>

\* Mutant: ResetStats leaves the stream id.
KeepId ==
  /\ phase = "flagged"
  /\ phase' = "named"
  /\ UNCHANGED <<ids, said, timely, isOpen, sid, total, taskVars, queue, tc, returned, lost>>

Name ==
  /\ phase = "flagged"
  /\ sid' = ids[Len(ids)]
  /\ phase' = "named"
  /\ UNCHANGED <<ids, said, timely, isOpen, total, taskVars, queue, tc, returned, lost>>

ResetCount ==
  /\ phase = "named"
  /\ total' = 0
  /\ phase' = "open"
  /\ UNCHANGED <<ids, said, timely, isOpen, sid, taskVars, queue, tc, returned, lost>>

Push ==
  /\ phase = "open"
  /\ said < MaxFrames
  /\ said' = said + 1
  /\ queue' = Append(queue, [nr |-> said + 1, id |-> ids[Len(ids)], seq |-> 0])
  /\ UNCHANGED <<phase, ids, timely, stateVars, taskVars, tc, returned, lost>>

\* The stream closes STREAM_TIMEOUT after the last push.
ReportStats ==
  /\ phase = "open"
  /\ isOpen' = FALSE
  /\ timely' = (timely /\ AllAnswered)
  /\ phase' = "closed"
  /\ UNCHANGED <<ids, said, sid, total, taskVars, queue, tc, returned, lost>>

-----------------------------------------------------------------------------
(***************************************************************************)
(* The codec thread: Task.                                                 *)
(***************************************************************************)

\* The transcoder answers what has one stream id, which one talker says in one
\* codec, in its order; a transmission may overtake another.
Read(i) ==
  /\ i \in DOMAIN tc
  /\ \A j \in 1..i - 1 : tc[j].id # tc[i].id
  /\ tc' = RemoveAt(tc, i)

\* No answer within 5 ms.
NoAnswer ==
  /\ pc = "receive"
  /\ pc' = "take"
  /\ UNCHANGED <<talkVars, stateVars, frame, pack, local, queue, tc, returned, lost>>

\* An answer that nothing waits for, or that comes while the stream is closed.
Ignore ==
  /\ pc = "receive"
  /\ local = <<>> \/ ~isOpen
  /\ \E i \in DOMAIN tc : Read(i)
  /\ pc' = "take"
  /\ UNCHANGED <<talkVars, stateVars, frame, pack, local, queue, returned, lost>>

\* Mutant: the stream id of the frame is not looked at.
MatchAny ==
  /\ pc = "receive"
  /\ local # <<>> /\ isOpen
  /\ \E i \in DOMAIN tc : Read(i) /\ pack' = tc[i]
  /\ frame' = Head(local)
  /\ local' = Tail(local)
  /\ pc' = "sequence"
  /\ UNCHANGED <<talkVars, stateVars, queue, returned, lost>>

Answer ==
  /\ pc = "receive"
  /\ local # <<>> /\ isOpen
  /\ \E i \in DOMAIN tc : Read(i) /\ pack' = tc[i]
  /\ frame' = Head(local)
  /\ local' = Tail(local)
  /\ pc' = "match"
  /\ UNCHANGED <<talkVars, stateVars, queue, returned, lost>>

\* m_LocalQueue.PopWait: the frame in hand is given up for the next one, if
\* there ever is one.
PopLocal ==
  /\ local # <<>>
  /\ frame' = Head(local)
  /\ local' = Tail(local)
  /\ UNCHANGED <<talkVars, stateVars, pc, pack, queue, tc, returned, lost>>

OtherStream ==
  /\ pc = "match"
  /\ frame.id # sid
  /\ PopLocal

SameStream ==
  /\ pc = "match"
  /\ frame.id = sid
  /\ pc' = "sequence"
  /\ UNCHANGED <<talkVars, stateVars, frame, pack, local, queue, tc, returned, lost>>

\* Mutant: the loop skips no frame.
SkipNone ==
  /\ pc = "sequence"
  /\ pack.seq > frame.seq
  /\ pc' = "take"
  /\ UNCHANGED <<talkVars, stateVars, frame, pack, local, queue, tc, returned, lost>>

Earlier ==
  /\ pc = "sequence"
  /\ pack.seq > frame.seq
  /\ PopLocal

\* ReturnPacket.
Return ==
  /\ pc = "sequence"
  /\ pack.seq = frame.seq
  /\ returned' = Append(returned, [frame |-> frame, answer |-> pack])
  /\ pc' = "take"
  /\ UNCHANGED <<talkVars, stateVars, frame, pack, local, queue, tc, lost>>

\* The frame comes after the one answered: both are given up.
Later ==
  /\ pc = "sequence"
  /\ pack.seq < frame.seq
  /\ pc' = "take"
  /\ UNCHANGED <<talkVars, stateVars, frame, pack, local, queue, tc, returned, lost>>

\* The queue is empty: Task returns and Thread calls it again.
NothingQueued ==
  /\ pc = "take"
  /\ queue = <<>>
  /\ pc' = "receive"
  /\ UNCHANGED <<talkVars, stateVars, frame, pack, local, queue, tc, returned, lost>>

\* Mutant: the newest frame is taken.
TakeNewest ==
  /\ pc = "take"
  /\ queue # <<>>
  /\ frame' = Last(queue)
  /\ queue' = Front(queue)
  /\ pc' = IF isOpen THEN "send" ELSE "take"
  /\ UNCHANGED <<talkVars, stateVars, pack, local, tc, returned, lost>>

Take ==
  /\ pc = "take"
  /\ queue # <<>>
  /\ frame' = Head(queue)
  /\ queue' = Tail(queue)
  /\ pc' = IF isOpen THEN "send" ELSE "take"
  /\ UNCHANGED <<talkVars, stateVars, pack, local, tc, returned, lost>>

\* SetTCParams, and the frame goes to the transcoder and to m_LocalQueue.
Send ==
  LET numbered == [frame EXCEPT !.seq = total]
  IN  /\ pc = "send"
      /\ total' = total + 1
      /\ tc' = Append(tc, numbered)
      /\ local' = Append(local, numbered)
      /\ pc' = "take"
      /\ UNCHANGED <<talkVars, isOpen, sid, frame, pack, queue, returned, lost>>

-----------------------------------------------------------------------------
\* The transcoder is restarted, or is not there: what was sent is not answered.
Lose ==
  /\ Lossy
  /\ \E i \in DOMAIN tc :
       /\ lost' = lost \cup {tc[i]}
       /\ tc' = RemoveAt(tc, i)
  /\ UNCHANGED <<talkVars, stateVars, taskVars, queue, returned>>

Talk == Flag \/ Name \/ ResetCount \/ Push \/ ReportStats

Task ==
  \/ NoAnswer \/ Ignore \/ Answer
  \/ OtherStream \/ SameStream \/ Earlier \/ Return \/ Later
  \/ NothingQueued \/ Take \/ Send

Next == Talk \/ Task \/ Lose

Spec == Init /\ [][Next]_vars

\* The codec thread runs, and the transcoder answers what is not lost.
FairSpec == Spec /\ WF_vars(Task) /\ SF_vars(Ignore \/ Answer)
=============================================================================
