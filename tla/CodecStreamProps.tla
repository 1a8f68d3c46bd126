-------------------------- MODULE CodecStreamProps --------------------------
(***************************************************************************)
(* What the codec stream guarantees, and when.                             *)
(***************************************************************************)
EXTENDS CodecStream

\* The number of the last frame given back to the packet stream.
LastReturned ==
  IF returned = <<>> THEN 0 ELSE returned[Len(returned)].frame.nr

\* Voice comes back from the transcoder in the order in which it was said and
\* at most once, whatever the transcoder does.
V == INSTANCE VoicePath WITH heard <- [i \in DOMAIN returned |-> returned[i].frame.nr]
VoiceInOrder == V!Spec

\* "make sure this is the correct packet": a frame given back carries the
\* answer to itself, not that to a frame of another transmission.
RightVoice ==
  \A i \in DOMAIN returned : returned[i].answer = returned[i].frame

\* Task never waits for m_LocalQueue when it is empty: only Task fills it.
NeverWaits ==
  local = <<>> =>
    /\ ~(pc = "match" /\ frame.id # sid)
    /\ ~(pc = "sequence" /\ pack.seq > frame.seq)

Returned(n) == \E i \in DOMAIN returned : returned[i].frame.nr = n
Lost(n)     == \E f \in lost : f.nr = n

\* What the code relies on: a stream is closed when its frames are answered
\* (STREAM_TIMEOUT after the last), and no stream has the id of an earlier one.
NewIds == \A i, j \in DOMAIN ids : i # j => ids[i] # ids[j]
Relied == timely /\ NewIds

\* As long as that is so, Task does not wait for itself.
NeverWaitsThen == Relied => NeverWaits

\* As long as that is so, a frame given back carries its own answer.
RightVoiceThen == Relied => RightVoice

\* One lost answer costs one frame: when the stream is closed, every frame that
\* was said and did not come back is one whose answer was lost.
OnlyLostMissing ==
  Relied /\ phase = "closed" =>
    \A n \in 1..said : Returned(n) \/ Lost(n)

\* The codec thread does not lag behind for ever: a frame comes back unless
\* the answer to it is lost, or what the code relies on is not so.
FramesComeBack ==
  \A n \in 1..MaxFrames :
    said >= n ~> Returned(n) \/ Lost(n) \/ ~Relied

-----------------------------------------------------------------------------
(***************************************************************************)
(* The inductive invariants behind these properties.                       *)
(***************************************************************************)

\* The frames numbered since the count was reset, with those still to be.
CountInv == total + Len(queue) + (IF pc = "send" THEN 1 ELSE 0) <= said

\* The frames of s are in the order in which they were said, all of them after
\* the one numbered n.
Ordered(s) == \A i, j \in DOMAIN s : i < j => s[i].nr < s[j].nr
After(s, n) == \A i \in DOMAIN s : n < s[i].nr

\* What was given back, what waits for an answer and what waits to be sent
\* follow each other, with the frame in the hand of the thread between them.
OrderInv ==
  /\ LastReturned <= said
  /\ Ordered(local) /\ Ordered(queue)
  /\ \A i \in DOMAIN local : After(queue, local[i].nr)
  /\ \A i \in DOMAIN local : local[i].nr <= said
  /\ \A i \in DOMAIN queue : queue[i].nr <= said
  /\ After(local, LastReturned) /\ After(queue, LastReturned)
  /\ pc \in {"match", "sequence", "send"} =>
       /\ LastReturned < frame.nr /\ frame.nr <= said
       /\ After(queue, frame.nr)
  /\ pc \in {"match", "sequence"} => After(local, frame.nr)
  /\ pc = "send" => \A i \in DOMAIN local : local[i].nr < frame.nr

\* The stream id of the latest transmission, the number of its frames and of those
\* of all transmissions that were sent, and of all frames said in earlier ones.
Current == ids[Len(ids)]
Sent    == said - Len(queue) - (IF pc = "send" THEN 1 ELSE 0)
Before  == IF phase = "open" THEN Sent - total ELSE said

\* A frame of the latest transmission has the number it should have; any other
\* has another stream id.
Own(f)   == f.id = Current /\ f.nr = Before + 1 + f.seq
Older(f) == f.id # Current /\ f.nr <= Before

\* A frame is in hand while its answer is matched.
Matching == pc \in {"match", "sequence"}

OpenInv ==
  /\ isOpen <=> phase # "closed"
  /\ phase \in {"named", "open"} => sid = Current

\* Between two transmissions nothing is under way but frames whose answers were lost.
IdleInv == phase # "open" => queue = <<>> /\ tc = <<>> /\ pc \in {"receive", "take"}

\* What waits for an answer was said in this transmission or is left over from
\* one before; so is the frame in hand.
LocalInv ==
  /\ \A i \in DOMAIN local : \E k \in DOMAIN ids : local[i].id = ids[k]
  /\ phase # "closed" => \A i \in DOMAIN local : Own(local[i]) \/ Older(local[i])
  /\ Matching => Own(frame) \/ Older(frame)
  /\ pc = "sequence" => frame.id = Current

\* What waits to be sent is what was said last.
QueueInv ==
  /\ \A i \in DOMAIN queue : queue[i].id = Current /\ queue[i].nr = said - Len(queue) + i
  /\ pc = "send" => frame.id = Current /\ frame.nr = Sent + 1

\* The frame of every answer to come waits for it, as does that of the answer in hand.
AnswerInv ==
  /\ Ordered(tc)
  /\ \A i \in DOMAIN tc : tc[i].id = Current /\ \E j \in DOMAIN local : local[j] = tc[i]
  /\ Matching =>
       /\ pack.id = Current
       /\ pack = frame \/ \E j \in DOMAIN local : local[j] = pack
       /\ After(tc, pack.nr)

\* No frame that was sent is forgotten.
AccountInv ==
  \A n \in 1..Sent :
    \/ Returned(n)
    \/ Lost(n)
    \/ \E i \in DOMAIN tc : tc[i].nr = n
    \/ Matching /\ pack.nr = n

ReliedInv ==
  Relied => IdleInv /\ LocalInv /\ QueueInv /\ AnswerInv /\ AccountInv /\ RightVoice
=============================================================================
