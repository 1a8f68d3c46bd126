-------------------------- MODULE CodecStreamProofs --------------------------
(***************************************************************************)
(* The codec stream keeps voice in order, for any number of transmissions  *)
(* and frames and whatever the transcoder answers.                         *)
(***************************************************************************)
EXTENDS CodecStreamProps, TLAPS

Inv == TypeOK /\ CountInv /\ OrderInv

-----------------------------------------------------------------------------

\* The frames of a queue are frames, numbered from 1.
LEMMA FramesOf ==
  ASSUME NEW s \in Seq(Frames)
  PROVE  /\ Len(s) \in Nat
         /\ DOMAIN s = 1..Len(s)
         /\ \A i \in DOMAIN s : s[i] \in Frames /\ s[i].nr \in Nat
<1>1. Len(s) \in Nat /\ DOMAIN s = 1..Len(s) /\ \A i \in DOMAIN s : s[i] \in Frames
  OBVIOUS
<1>2. \A f \in Frames : f.nr \in Nat
  BY DEF Frames
<1>. QED
  BY <1>1, <1>2

\* The numbers the invariant compares are numbers.
LEMMA Numbers ==
  TypeOK => /\ frame.nr \in Nat
            /\ \A i \in DOMAIN local : local[i].nr \in Nat
            /\ \A i \in DOMAIN queue : queue[i].nr \in Nat
            /\ said \in Nat
<1>1. \A f \in Frames : f.nr \in Nat
  BY DEF Frames
<1>2. TypeOK => frame \in Frames /\ local \in Seq(Frames) /\ queue \in Seq(Frames) /\ said \in Nat
  BY DEF TypeOK
<1>. QED
  BY <1>1, <1>2, FramesOf

\* Taking the first frame of an ordered queue leaves it ordered, and all that
\* is left comes after the frame taken.
LEMMA HeadFirst ==
  ASSUME NEW s \in Seq(Frames), s # <<>>, Ordered(s)
  PROVE  /\ Head(s) \in Frames
         /\ Tail(s) \in Seq(Frames)
         /\ Len(s) \in Nat /\ Len(s) > 0
         /\ Len(Tail(s)) = Len(s) - 1
         /\ Head(s) = s[1] /\ 1 \in DOMAIN s
         /\ \A i \in DOMAIN Tail(s) : i + 1 \in DOMAIN s /\ Tail(s)[i] = s[i + 1]
         /\ Ordered(Tail(s))
         /\ After(Tail(s), Head(s).nr)
<1>1. /\ Head(s) \in Frames
      /\ Tail(s) \in Seq(Frames)
      /\ Len(s) \in Nat /\ Len(s) > 0
      /\ Len(Tail(s)) = Len(s) - 1
      /\ Head(s) = s[1] /\ 1 \in DOMAIN s
      /\ \A i \in DOMAIN Tail(s) : i + 1 \in DOMAIN s /\ Tail(s)[i] = s[i + 1]
  OBVIOUS
<1>2. Ordered(Tail(s))
  BY <1>1 DEF Ordered
<1>3. After(Tail(s), Head(s).nr)
  BY <1>1 DEF Ordered, After
<1>. QED
  BY <1>1, <1>2, <1>3

\* A frame that comes after all the others may be appended.
LEMMA AppendLast ==
  ASSUME NEW s \in Seq(Frames), NEW f \in Frames,
         Ordered(s), \A i \in DOMAIN s : s[i].nr < f.nr
  PROVE  /\ Append(s, f) \in Seq(Frames)
         /\ Len(s) \in Nat
         /\ Len(Append(s, f)) = Len(s) + 1
         /\ \A i \in DOMAIN Append(s, f) :
              IF i \in DOMAIN s THEN Append(s, f)[i] = s[i] ELSE Append(s, f)[i] = f
         /\ Ordered(Append(s, f))
<1>1. /\ Append(s, f) \in Seq(Frames)
      /\ Len(s) \in Nat
      /\ Len(Append(s, f)) = Len(s) + 1
      /\ \A i \in DOMAIN Append(s, f) :
           IF i \in DOMAIN s THEN Append(s, f)[i] = s[i] ELSE Append(s, f)[i] = f
      /\ \A i, j \in DOMAIN Append(s, f) : i < j => i \in DOMAIN s
  OBVIOUS
<1>2. Ordered(Append(s, f))
  BY <1>1 DEF Ordered
<1>. QED
  BY <1>1, <1>2

-----------------------------------------------------------------------------

LEMMA Initially == Init => Inv
<1>. SUFFICES ASSUME Init PROVE Inv
  OBVIOUS
<1>0. frame \in Frames
  BY CodecAssumption DEF Init, Frames
<1>1. TypeOK
  <2>1. /\ phase \in Phases /\ phase = "closed" /\ pc \in Points
        /\ said \in 0..MaxFrames /\ total \in 0..MaxFrames
    BY CodecAssumption DEF Init, Phases, Points
  <2>2. /\ ids \in Seq(StreamIds) /\ queue \in Seq(Frames)
        /\ local \in Seq(Frames) /\ tc \in Seq(Frames)
    BY DEF Init
  <2>3. returned \in Seq([frame : Frames, answer : Frames])
    BY DEF Init
  <2>4. /\ pack \in Frames /\ lost \subseteq Frames
        /\ isOpen \in BOOLEAN /\ timely \in BOOLEAN /\ sid \in StreamIds
    BY <1>0 DEF Init
  <2>. QED
    BY <1>0, <2>1, <2>2, <2>3, <2>4 DEF TypeOK
<1>2. CountInv
  BY DEF Init, CountInv
<1>3. OrderInv
  BY DEF Init, OrderInv, LastReturned, Ordered, After
<1>. QED
  BY <1>1, <1>2, <1>3 DEF Inv

\* The last frame returned, when the next one is returned.
LEMMA NewLast ==
  ASSUME TypeOK, frame \in Frames, pack \in Frames,
         returned' = Append(returned, [frame |-> frame, answer |-> pack])
  PROVE  /\ returned' \in Seq([frame : Frames, answer : Frames])
         /\ LastReturned' = frame.nr
<1>. DEFINE last == [frame |-> frame, answer |-> pack]
<1>1. last \in [frame : Frames, answer : Frames] /\ last.frame = frame
  OBVIOUS
<1>2. returned \in Seq([frame : Frames, answer : Frames]) /\ returned' = Append(returned, last)
  BY DEF TypeOK
<1>. HIDE DEF last
<1>3. /\ returned' \in Seq([frame : Frames, answer : Frames])
      /\ returned' # <<>> /\ returned'[Len(returned')] = last
  BY <1>1, <1>2
<1>. QED
  BY <1>1, <1>3 DEF LastReturned

\* The frames returned, by their numbers.
LEMMA HeardAppend ==
  ASSUME TypeOK, frame \in Frames, pack \in Frames,
         returned' = Append(returned, [frame |-> frame, answer |-> pack])
  PROVE  [i \in DOMAIN returned' |-> returned'[i].frame.nr]
           = Append([i \in DOMAIN returned |-> returned[i].frame.nr], frame.nr)
<1>. DEFINE Pairs == [frame : Frames, answer : Frames]
            last == [frame |-> frame, answer |-> pack]
            heard == [i \in DOMAIN returned |-> returned[i].frame.nr]
<1>1. /\ returned \in Seq(Pairs) /\ last \in Pairs /\ last.frame.nr = frame.nr
      /\ \A r \in Pairs : r.frame.nr \in Nat
  BY DEF TypeOK, Frames
<1>2. returned' = Append(returned, last)
  OBVIOUS
<1>. HIDE DEF Pairs, last
<1>3. heard \in Seq(Nat) /\ Len(heard) = Len(returned)
  BY <1>1
<1>4. /\ Len(returned') = Len(returned) + 1 /\ DOMAIN returned' = 1..Len(returned) + 1
      /\ \A i \in 1..Len(returned) : returned'[i] = returned[i]
      /\ returned'[Len(returned) + 1] = last
  BY <1>1, <1>2
<1>. QED
  BY <1>1, <1>3, <1>4

LEMMA HeardLast ==
  ASSUME TypeOK, returned # <<>>,
         NEW heard, heard = [i \in DOMAIN returned |-> returned[i].frame.nr]
  PROVE  heard[Len(heard)] = returned[Len(returned)].frame.nr
<1>. DEFINE Pairs == [frame : Frames, answer : Frames]
<1>1. returned \in Seq(Pairs) /\ (\A r \in Pairs : r.frame.nr \in Nat)
  BY DEF TypeOK, Frames
<1>. HIDE DEF Pairs
<1>2. heard \in Seq(Nat) /\ Len(heard) = Len(returned)
  BY <1>1
<1>. QED
  BY <1>1, <1>2

\* Answers come in any order.
LEMMA Removed ==
  ASSUME TypeOK, NEW i \in DOMAIN tc
  PROVE  tc[i] \in Frames /\ RemoveAt(tc, i) \in Seq(Frames)
<1>1. tc \in Seq(Frames) /\ i \in 1..Len(tc)
  BY DEF TypeOK
<1>. QED
  BY <1>1 DEF RemoveAt

LEMMA LastNat == TypeOK => LastReturned \in Nat
<1>. SUFFICES ASSUME TypeOK, returned # <<>> PROVE LastReturned \in Nat
  BY DEF LastReturned
<1>. DEFINE Pairs == [frame : Frames, answer : Frames]
<1>1. returned \in Seq(Pairs) /\ LastReturned = returned[Len(returned)].frame.nr
  BY DEF TypeOK, LastReturned
<1>2. \A r \in Pairs : r.frame.nr \in Nat
  BY DEF Frames
<1>. HIDE DEF Pairs
<1>3. returned[Len(returned)] \in Pairs
  BY <1>1
<1>. QED
  BY <1>1, <1>2, <1>3

LEMMA Stuttering == Inv /\ UNCHANGED vars => Inv'
BY DEF Inv, vars, talkVars, stateVars, taskVars, TypeOK, CountInv, OrderInv,
       LastReturned, Ordered, After

\* The actions of the protocol thread.
LEMMA TalkKeeps == Inv /\ Talk => Inv'
<1>. SUFFICES ASSUME Inv, Talk PROVE Inv'
  OBVIOUS
<1>. USE CodecAssumption DEF CodecAssumption, Inv
<1>1. CASE Flag
  <2>1. TypeOK'
    <3>1. PICK new \in StreamIds : ids' = Append(ids, new)
      BY <1>1 DEF Flag
    <3>2. ids \in Seq(StreamIds)
      BY DEF TypeOK
    <3>3. ids' \in Seq(StreamIds) /\ ids' # <<>>
      BY <3>1, <3>2
    <3>. QED
      BY <1>1, <3>3 DEF Flag, TypeOK, taskVars, Phases
  <2>. QED
    BY <1>1, <2>1 DEF Flag, CountInv, OrderInv, taskVars, LastReturned, Ordered, After
<1>2. CASE Name
  <2>1. TypeOK'
    BY <1>2 DEF Name, TypeOK, taskVars, Phases
  <2>. QED
    BY <1>2, <2>1 DEF Name, CountInv, OrderInv, taskVars, LastReturned, Ordered, After
<1>3. CASE ResetCount
  <2>1. TypeOK'
    BY <1>3 DEF ResetCount, TypeOK, taskVars, Phases
  <2>2. CountInv'
    BY <1>3 DEF ResetCount, TypeOK, taskVars, CountInv
  <2>. QED
    BY <1>3, <2>1, <2>2 DEF ResetCount, OrderInv, taskVars, LastReturned, Ordered, After
<1>4. CASE Push
  <2>. DEFINE f == [nr |-> said + 1, id |-> ids[Len(ids)], seq |-> 0]
  <2>1. f \in Frames /\ f.nr = said + 1 /\ said \in Nat
    BY <1>4 DEF Push, TypeOK, Frames
  <2>2. queue' = Append(queue, f) /\ said' = said + 1 /\ said' \in 0..MaxFrames
    BY <1>4 DEF Push, TypeOK
  <2>. HIDE DEF f
  <2>3. \A i \in DOMAIN queue : queue[i] \in Frames /\ queue[i].nr < f.nr
    BY <2>1, FramesOf DEF TypeOK, OrderInv
  <2>4. /\ queue' \in Seq(Frames)
        /\ Len(queue) \in Nat
        /\ Len(queue') = Len(queue) + 1
        /\ \A i \in DOMAIN queue' :
             IF i \in DOMAIN queue THEN queue'[i] = queue[i] ELSE queue'[i] = f
        /\ Ordered(queue')
    BY <2>1, <2>2, <2>3, AppendLast DEF TypeOK, OrderInv
  <2>5. TypeOK'
    BY <1>4, <2>2, <2>4 DEF Push, TypeOK, stateVars, taskVars
  <2>6. CountInv'
    BY <1>4, <2>2, <2>4 DEF Push, TypeOK, CountInv, stateVars, taskVars
  <2>7. OrderInv'
    <3>1. UNCHANGED <<local, frame, pc, LastReturned>> /\ LastReturned \in Nat
      BY <1>4, LastNat DEF Push, taskVars, LastReturned
    <3>2. /\ frame.nr \in Nat
          /\ \A i \in DOMAIN local : local[i].nr \in Nat
          /\ \A i \in DOMAIN queue : queue[i].nr \in Nat
      BY Numbers
    <3>3. \A n \in Nat : n <= said /\ After(queue, n) => After(queue', n)
      <4>. SUFFICES ASSUME NEW n \in Nat, n <= said, After(queue, n), NEW i \in DOMAIN queue'
                    PROVE  n < queue'[i].nr
        BY DEF After
      <4>1. CASE i \in DOMAIN queue
        BY <2>4, <4>1 DEF After
      <4>2. CASE i \notin DOMAIN queue
        <5>1. queue'[i] = f
          BY <2>4, <4>2
        <5>. QED
          BY <2>1, <5>1
      <4>. QED
        BY <4>1, <4>2
    <3>4. Ordered(local') /\ After(local', LastReturned') /\ \A i \in DOMAIN local' : local'[i].nr <= said'
      BY <2>1, <2>2, <3>1, <3>2 DEF OrderInv, Ordered, After
    <3>5. /\ After(queue', LastReturned')
          /\ \A i \in DOMAIN local' : After(queue', local'[i].nr)
      BY <3>1, <3>2, <3>3 DEF OrderInv
    <3>6. LastReturned' <= said' /\ \A i \in DOMAIN queue' : queue'[i].nr <= said'
      BY <2>1, <2>2, <2>4, <3>1, <3>2 DEF OrderInv
    <3>7. pc' \in {"match", "sequence", "send"} =>
            LastReturned' < frame'.nr /\ frame'.nr <= said' /\ After(queue', frame'.nr)
      BY <2>1, <2>2, <3>1, <3>2, <3>3 DEF OrderInv
    <3>8. /\ pc' \in {"match", "sequence"} => After(local', frame'.nr)
          /\ pc' = "send" => \A i \in DOMAIN local' : local'[i].nr < frame'.nr
      BY <3>1 DEF OrderInv, After
    <3>. QED
      BY <2>4, <3>4, <3>5, <3>6, <3>7, <3>8 DEF OrderInv
  <2>. QED
    BY <2>5, <2>6, <2>7
<1>5. CASE ReportStats
  <2>0. timely' \in BOOLEAN
    BY <1>5 DEF ReportStats
  <2>1. TypeOK'
    BY <1>5, <2>0 DEF ReportStats, TypeOK, taskVars, Phases
  <2>. QED
    BY <1>5, <2>1 DEF ReportStats, CountInv, OrderInv, taskVars, LastReturned, Ordered, After
<1>. QED
  BY <1>1, <1>2, <1>3, <1>4, <1>5 DEF Talk

\* What the codec thread does when it takes the first frame of m_LocalQueue:
\* the order is kept, whatever it gives up.
LEMMA LocalPopped ==
  ASSUME TypeOK, OrderInv, local # <<>>,
         frame' = Head(local), local' = Tail(local), UNCHANGED <<said, queue, returned>>
  PROVE  /\ local' \in Seq(Frames) /\ frame' \in Frames
         /\ pc' \in {"match", "sequence"} => OrderInv'
<1>1. /\ frame' \in Frames /\ local' \in Seq(Frames)
      /\ frame' = local[1] /\ 1 \in DOMAIN local
      /\ \A i \in DOMAIN local' : i + 1 \in DOMAIN local /\ local'[i] = local[i + 1]
      /\ Ordered(local') /\ After(local', frame'.nr)
  BY HeadFirst DEF TypeOK, OrderInv
<1>2. LastReturned' = LastReturned
  BY DEF LastReturned
<1>3. ASSUME pc' \in {"match", "sequence"}
      PROVE  OrderInv'
  <2>1. /\ LastReturned' < frame'.nr /\ frame'.nr <= said' /\ After(queue', frame'.nr)
    BY <1>1, <1>2 DEF OrderInv, After
  <2>2. \A i \in DOMAIN local' :
          After(queue', local'[i].nr) /\ local'[i].nr <= said' /\ LastReturned' < local'[i].nr
    BY <1>1, <1>2 DEF OrderInv, After
  <2>. QED
    BY <1>1, <1>2, <1>3, <2>1, <2>2 DEF OrderInv, After
<1>. QED
  BY <1>1, <1>3

\* The actions of the codec thread, and of the transcoder.
LEMMA TaskKeeps == Inv /\ (Task \/ Lose) => Inv'
<1>. SUFFICES ASSUME Inv, Task \/ Lose PROVE Inv'
  OBVIOUS
<1>. USE CodecAssumption DEF CodecAssumption, Inv
<1>1. CASE NoAnswer
  <2>1. TypeOK'
    BY <1>1 DEF NoAnswer, TypeOK, talkVars, stateVars, taskVars, Points
  <2>2. CountInv'
    BY <1>1 DEF NoAnswer, CountInv, talkVars, stateVars, taskVars
  <2>3. OrderInv'
    BY <1>1 DEF NoAnswer, OrderInv, talkVars, stateVars, taskVars, LastReturned, Ordered, After
  <2>. QED
    BY <2>1, <2>2, <2>3
<1>2. CASE Ignore
  <2>0. tc' \in Seq(Frames)
    BY <1>2, Removed DEF Ignore, Read, TypeOK
  <2>1. TypeOK'
    BY <1>2, <2>0 DEF Ignore, TypeOK, talkVars, stateVars, taskVars, Points
  <2>2. CountInv'
    BY <1>2 DEF Ignore, CountInv, talkVars, stateVars, taskVars
  <2>3. OrderInv'
    BY <1>2 DEF Ignore, OrderInv, talkVars, stateVars, taskVars, LastReturned, Ordered, After
  <2>. QED
    BY <2>1, <2>2, <2>3
<1>3. CASE Answer
  <2>1. /\ LastReturned' = LastReturned /\ UNCHANGED <<said, queue>>
        /\ local # <<>> /\ frame' = Head(local) /\ local' = Tail(local)
        /\ pc' = "match"
    BY <1>3 DEF Answer, LastReturned, talkVars
  <2>2. frame' \in Frames /\ local' \in Seq(Frames) /\ OrderInv'
    BY <1>3, <2>1, LocalPopped DEF Answer
  <2>3. tc' \in Seq(Frames) /\ pack' \in Frames
    BY <1>3, Removed DEF Answer, Read, TypeOK
  <2>. QED
    BY <1>3, <2>1, <2>2, <2>3 DEF Answer, TypeOK, CountInv, talkVars, stateVars, Points
<1>4. CASE OtherStream
  <2>1. LastReturned' = LastReturned /\ UNCHANGED <<said, queue>>
    BY <1>4 DEF OtherStream, LastReturned, talkVars, PopLocal
  <2>. QED
    BY <1>4, <2>1, LocalPopped DEF OtherStream, TypeOK, CountInv, PopLocal, talkVars, stateVars, Points
<1>5. CASE SameStream
  <2>1. TypeOK'
    BY <1>5 DEF SameStream, TypeOK, talkVars, stateVars, taskVars, Points
  <2>2. CountInv'
    BY <1>5 DEF SameStream, CountInv, talkVars, stateVars, taskVars
  <2>3. OrderInv'
    BY <1>5 DEF SameStream, OrderInv, talkVars, stateVars, taskVars, LastReturned, Ordered, After
  <2>. QED
    BY <2>1, <2>2, <2>3
<1>6. CASE Earlier
  <2>1. LastReturned' = LastReturned /\ UNCHANGED <<said, queue>>
    BY <1>6 DEF Earlier, LastReturned, talkVars, PopLocal
  <2>. QED
    BY <1>6, <2>1, LocalPopped DEF Earlier, TypeOK, CountInv, PopLocal, talkVars, stateVars, Points
<1>7. CASE Return
  <2>1. /\ returned' \in Seq([frame : Frames, answer : Frames])
        /\ LastReturned' = frame.nr
    BY <1>7, NewLast DEF Return, TypeOK
  <2>2. TypeOK'
    BY <1>7, <2>1 DEF Return, TypeOK, talkVars, stateVars, Points
  <2>3. OrderInv'
    BY <1>7, <2>1 DEF Return, OrderInv, talkVars, After, Ordered
  <2>. QED
    BY <1>7, <2>2, <2>3 DEF Return, CountInv, talkVars, stateVars
<1>8. CASE Later
  <2>1. TypeOK'
    BY <1>8 DEF Later, TypeOK, talkVars, stateVars, taskVars, Points
  <2>2. CountInv'
    BY <1>8 DEF Later, CountInv, talkVars, stateVars, taskVars
  <2>3. OrderInv'
    BY <1>8 DEF Later, OrderInv, talkVars, stateVars, taskVars, LastReturned, Ordered, After
  <2>. QED
    BY <2>1, <2>2, <2>3
<1>9. CASE NothingQueued
  <2>1. TypeOK'
    BY <1>9 DEF NothingQueued, TypeOK, talkVars, stateVars, taskVars, Points
  <2>2. CountInv'
    BY <1>9 DEF NothingQueued, CountInv, talkVars, stateVars, taskVars
  <2>3. OrderInv'
    BY <1>9 DEF NothingQueued, OrderInv, talkVars, stateVars, taskVars, LastReturned, Ordered, After
  <2>. QED
    BY <2>1, <2>2, <2>3
<1>10. CASE Take
  <2>1. /\ frame' \in Frames /\ queue' \in Seq(Frames)
        /\ Len(queue) \in Nat /\ Len(queue') = Len(queue) - 1
        /\ frame' = queue[1] /\ 1 \in DOMAIN queue
        /\ \A i \in DOMAIN queue' : i + 1 \in DOMAIN queue /\ queue'[i] = queue[i + 1]
        /\ Ordered(queue') /\ After(queue', frame'.nr)
    BY <1>10, HeadFirst DEF Take, TypeOK, OrderInv
  <2>2. pc' \in {"send", "take"} /\ UNCHANGED <<said, local, LastReturned, total>>
    BY <1>10 DEF Take, LastReturned, talkVars, stateVars
  <2>3. TypeOK'
    BY <1>10, <2>1, <2>2 DEF Take, TypeOK, talkVars, stateVars, Points
  <2>4. CountInv'
    BY <1>10, <2>1, <2>2 DEF Take, CountInv, TypeOK
  <2>5. OrderInv'
    <3>1. /\ LastReturned' < frame'.nr /\ frame'.nr <= said'
          /\ \A i \in DOMAIN local' : local'[i].nr < frame'.nr
      BY <2>1, <2>2 DEF OrderInv, After
    <3>2. \A i \in DOMAIN queue' : queue'[i].nr <= said' /\ LastReturned' < queue'[i].nr
      BY <2>1, <2>2 DEF OrderInv, After
    <3>3. \A i \in DOMAIN local' : After(queue', local'[i].nr)
      BY <2>1, <2>2 DEF OrderInv, After
    <3>4. /\ LastReturned' <= said' /\ Ordered(local')
          /\ \A i \in DOMAIN local' : local'[i].nr <= said' /\ LastReturned' < local'[i].nr
      BY <2>2 DEF OrderInv, Ordered, After
    <3>. QED
      BY <2>1, <2>2, <3>1, <3>2, <3>3, <3>4 DEF OrderInv, After
  <2>. QED
    BY <2>3, <2>4, <2>5
<1>11. CASE Send
  <2>. DEFINE f == [frame EXCEPT !.seq = total]
  <2>1. total + 1 <= MaxFrames /\ total \in Nat
    BY <1>11, FramesOf DEF Send, CountInv, TypeOK
  <2>2. f \in Frames /\ f.nr = frame.nr
    <3>1. frame \in Frames /\ total \in 0..MaxFrames - 1
      BY <2>1 DEF TypeOK
    <3>. QED
      BY <3>1 DEF Frames
  <2>3. /\ local' = Append(local, f) /\ tc' = Append(tc, f)
        /\ pc' = "take" /\ total' = total + 1
        /\ UNCHANGED <<said, queue, returned>>
    BY <1>11 DEF Send, talkVars
  <2>. HIDE DEF f
  <2>4. \A i \in DOMAIN local : local[i].nr < f.nr
    BY <1>11, <2>2 DEF Send, OrderInv
  <2>5. /\ local' \in Seq(Frames)
        /\ \A i \in DOMAIN local' :
             IF i \in DOMAIN local THEN local'[i] = local[i] ELSE local'[i] = f
        /\ Ordered(local')
    BY <2>2, <2>3, <2>4, AppendLast DEF TypeOK, OrderInv
  <2>6. tc' \in Seq(Frames)
    BY <2>2, <2>3 DEF TypeOK
  <2>7. TypeOK'
    BY <1>11, <2>1, <2>3, <2>5, <2>6 DEF Send, TypeOK, talkVars, Points
  <2>8. CountInv'
    BY <1>11, <2>1, <2>3, FramesOf DEF Send, CountInv, TypeOK
  <2>9. OrderInv'
    <3>1. LastReturned < f.nr /\ f.nr <= said /\ After(queue, f.nr)
      BY <1>11, <2>2 DEF Send, OrderInv
    <3>2. \A i \in DOMAIN local' :
            After(queue, local'[i].nr) /\ local'[i].nr <= said /\ LastReturned < local'[i].nr
      <4>. SUFFICES ASSUME NEW i \in DOMAIN local'
                    PROVE  After(queue, local'[i].nr) /\ local'[i].nr <= said /\ LastReturned < local'[i].nr
        OBVIOUS
      <4>1. CASE i \in DOMAIN local
        BY <2>5, <4>1 DEF OrderInv, After
      <4>2. CASE i \notin DOMAIN local
        BY <2>5, <3>1, <4>2
      <4>. QED
        BY <4>1, <4>2
    <3>3. LastReturned' = LastReturned
      BY <2>3 DEF LastReturned
    <3>. QED
      BY <2>3, <2>5, <3>2, <3>3 DEF OrderInv, After, Ordered
  <2>. QED
    BY <2>7, <2>8, <2>9
<1>12. CASE Lose
  <2>0. tc' \in Seq(Frames) /\ lost' \subseteq Frames
    BY <1>12, Removed DEF Lose, TypeOK
  <2>1. TypeOK'
    BY <1>12, <2>0 DEF Lose, TypeOK, talkVars, stateVars, taskVars, Points
  <2>2. CountInv'
    BY <1>12 DEF Lose, CountInv, talkVars, stateVars, taskVars
  <2>3. OrderInv'
    BY <1>12 DEF Lose, OrderInv, talkVars, stateVars, taskVars, LastReturned, Ordered, After
  <2>. QED
    BY <2>1, <2>2, <2>3
<1>. QED
  BY <1>1, <1>2, <1>3, <1>4, <1>5, <1>6, <1>7, <1>8, <1>9, <1>10, <1>11, <1>12 DEF Task

LEMMA Invariance == Spec => []Inv
<1>1. Inv /\ [Next]_vars => Inv'
  BY TalkKeeps, TaskKeeps, Stuttering DEF Next
<1>. QED
  BY <1>1, Initially, PTL DEF Spec

-----------------------------------------------------------------------------

\* Every reachable state of the codec stream is well typed: the sequence
\* numbers of CCodecStream::Task stay below the number of frames said.
THEOREM CodecTypeCorrect == Spec => []TypeOK
<1>1. Inv => TypeOK
  BY DEF Inv
<1>. QED
  BY <1>1, Invariance, PTL

\* CCodecStream gives voice back in the order in which it was said, and none
\* of it twice, whatever the transcoder answers, and however the opens and
\* closes of the protocol threads fall between the steps of Task.
THEOREM VoiceKeepsOrder == Spec => VoiceInOrder
<1>. DEFINE heard == [i \in DOMAIN returned |-> returned[i].frame.nr]
<1>1. Init => V!Init
  BY DEF Init, V!Init
<1>2. ASSUME Inv, [Next]_vars
      PROVE  [V!Next]_(V!pathVars)
  <2>1. CASE Push
    BY <2>1 DEF Push, V!Next, V!Say
  <2>2. CASE Return
    <3>0. TypeOK /\ frame \in Frames /\ pack \in Frames
      BY <1>2 DEF Inv, TypeOK
    <3>1. LastReturned' = frame.nr
      BY <2>2, <3>0, NewLast DEF Return
    <3>2. LastReturned < frame.nr /\ frame.nr <= said
      BY <1>2, <2>2 DEF Inv, OrderInv, Return
    <3>3. LastReturned \in Nat /\ frame.nr \in Nat /\ said \in Nat
      BY <1>2, LastNat, Numbers DEF Inv
    <3>4. frame.nr \in 1..said /\ (returned = <<>> \/ returned[Len(returned)].frame.nr < frame.nr)
      BY <3>2, <3>3 DEF LastReturned
    <3>5. returned' = Append(returned, [frame |-> frame, answer |-> pack])
      BY <2>2 DEF Return
    <3>6. heard' = Append(heard, frame.nr)
      BY <3>0, <3>5, HeardAppend
    <3>7. heard = <<>> \/ heard[Len(heard)] < frame.nr
      BY <3>0, <3>4, HeardLast
    <3>. QED
      BY <2>2, <3>4, <3>6, <3>7 DEF Return, talkVars, V!Next, V!Hear
  <2>3. CASE UNCHANGED <<said, returned>>
    BY <2>3 DEF V!pathVars
  <2>4. Push \/ Return \/ UNCHANGED <<said, returned>>
    BY <1>2 DEF Next, Talk, Task, Lose, vars, talkVars,
                Flag, Name, ResetCount, ReportStats, NoAnswer, Ignore, Answer, OtherStream,
                SameStream, Earlier, Later, PopLocal, NothingQueued, Take, Send
  <2>. QED
    BY <2>1, <2>2, <2>3, <2>4
<1>. QED
  BY <1>1, <1>2, Invariance, PTL DEF Spec, VoiceInOrder, V!Spec

-----------------------------------------------------------------------------
(***************************************************************************)
(* What holds as long as streams are answered before they close and ids    *)
(* are new: every answer finds its frame.                                  *)
(***************************************************************************)

Parts == IdleInv /\ LocalInv /\ QueueInv /\ AnswerInv /\ AccountInv /\ RightVoice

\* All that is known of a state the code may rely on.
Sound == Inv /\ OpenInv /\ Parts

\* Once broken, what the code relies on stays broken.
LEMMA RelianceEnds == ASSUME TypeOK, [Next]_vars, Relied' PROVE Relied
<1>1. timely' => timely
  BY DEF Next, Talk, Task, Lose, vars, talkVars, Flag, Name, ResetCount, Push, ReportStats,
         NoAnswer, Ignore, Answer, OtherStream, SameStream, Earlier, Return, Later, PopLocal,
         NothingQueued, Take, Send
<1>2. UNCHANGED ids \/ \E new \in StreamIds : ids' = Append(ids, new)
  BY DEF Next, Talk, Task, Lose, vars, talkVars, Flag, Name, ResetCount, Push, ReportStats,
         NoAnswer, Ignore, Answer, OtherStream, SameStream, Earlier, Return, Later, PopLocal,
         NothingQueued, Take, Send
<1>3. ASSUME NEW new \in StreamIds, ids' = Append(ids, new), NewIds'
      PROVE  NewIds
  <2>1. \A i \in DOMAIN ids : i \in DOMAIN ids' /\ ids'[i] = ids[i]
    BY <1>3 DEF TypeOK
  <2>. QED
    BY <1>3, <2>1 DEF NewIds
<1>4. NewIds' => NewIds
  BY <1>2, <1>3 DEF NewIds
<1>. QED
  BY <1>1, <1>4 DEF Relied

\* Numbers that are compared and added.
LEMMA MoreNumbers ==
  TypeOK => /\ frame.nr \in Nat /\ frame.seq \in Nat /\ pack.nr \in Nat /\ pack.seq \in Nat
            /\ \A i \in DOMAIN tc : tc[i].nr \in Nat /\ tc[i].seq \in Nat
            /\ \A i \in DOMAIN local : local[i].nr \in Nat /\ local[i].seq \in Nat
            /\ \A i \in DOMAIN queue : queue[i].nr \in Nat
            /\ said \in Nat /\ total \in Nat /\ Len(queue) \in Nat
            /\ DOMAIN queue = 1..Len(queue)
<1>1. \A f \in Frames : f.nr \in Nat /\ f.seq \in Nat
  BY CodecAssumption DEF Frames, CodecAssumption
<1>2. TypeOK => /\ frame \in Frames /\ pack \in Frames
                /\ tc \in Seq(Frames) /\ local \in Seq(Frames) /\ queue \in Seq(Frames)
                /\ said \in Nat /\ total \in Nat
  BY DEF TypeOK
<1>. QED
  BY <1>1, <1>2, FramesOf

\* Frames of one transmission with the same sequence number are the same.
LEMMA SameNumber ==
  ASSUME TypeOK, NEW f \in Frames, NEW g \in Frames, f.id = Current, g.id = Current,
         Own(f) \/ Older(f), Own(g) \/ Older(g)
  PROVE  /\ f.seq = g.seq <=> f.nr = g.nr
         /\ f.seq < g.seq <=> f.nr < g.nr
<1>1. f.nr = Before + 1 + f.seq /\ g.nr = Before + 1 + g.seq
  BY DEF Own, Older
<1>2. Before \in Int /\ f.seq \in Nat /\ g.seq \in Nat
  BY MoreNumbers, CodecAssumption DEF Before, Sent, Frames, CodecAssumption
<1>. QED
  BY <1>1, <1>2

\* To remove the first frame is to take the head.
LEMMA FirstRemoved ==
  ASSUME NEW s \in Seq(Frames), s # <<>>
  PROVE  RemoveAt(s, 1) = Tail(s)
<1>1. RemoveAt(s, 1) = SubSeq(s, 1, 0) \o SubSeq(s, 2, Len(s))
  <2>1. 1 - 1 = 0 /\ 1 + 1 = 2
    OBVIOUS
  <2>. QED
    BY <2>1, Zenon DEF RemoveAt
<1>2. SubSeq(s, 1, 0) = <<>>
  OBVIOUS
<1>3. SubSeq(s, 2, Len(s)) = Tail(s) /\ Tail(s) \in Seq(Frames)
  OBVIOUS
<1>4. <<>> \o Tail(s) = Tail(s)
  BY <1>3
<1>. QED
  BY <1>1, <1>2, <1>3, <1>4

\* The first answer of the transcoder, as only one transmission is under way.
LEMMA FirstAnswer ==
  ASSUME Sound, NEW i \in DOMAIN tc, Read(i)
  PROVE  /\ i = 1
         /\ tc' \in Seq(Frames) /\ Ordered(tc')
         /\ \A k \in DOMAIN tc' : k + 1 \in DOMAIN tc /\ tc'[k] = tc[k + 1] /\ tc[1].nr < tc'[k].nr
         /\ \A k \in DOMAIN tc : k = 1 \/ \E l \in DOMAIN tc' : tc'[l] = tc[k]
<1>. USE DEF Sound, Inv, Parts
<1>1. tc \in Seq(Frames) /\ i \in 1..Len(tc) /\ 1 \in DOMAIN tc /\ tc # <<>> /\ Ordered(tc)
  BY DEF TypeOK, AnswerInv
<1>2. i = 1
  BY <1>1 DEF Read, AnswerInv
<1>3. tc' = Tail(tc)
  BY <1>1, <1>2, FirstRemoved DEF Read
<1>4. /\ Tail(tc) \in Seq(Frames) /\ Ordered(Tail(tc)) /\ After(Tail(tc), tc[1].nr)
      /\ \A k \in DOMAIN Tail(tc) : k + 1 \in DOMAIN tc /\ Tail(tc)[k] = tc[k + 1]
  BY <1>1, HeadFirst
<1>5. \A k \in DOMAIN tc : k = 1 \/ (k - 1 \in DOMAIN Tail(tc) /\ Tail(tc)[k - 1] = tc[k])
  BY <1>1
<1>. QED
  BY <1>2, <1>3, <1>4, <1>5 DEF After

\* The thread waits, and takes nothing.
LEMMA WaitingSound == ASSUME Sound, NoAnswer \/ NothingQueued PROVE Parts'
<1>. USE DEF Sound, Parts
<1>1. /\ UNCHANGED <<phase, ids, said, timely, sid, total, queue, tc, local, frame, pack, returned, lost>>
      /\ pc \in {"receive", "take"} /\ pc' \in {"receive", "take"}
  BY DEF NoAnswer, NothingQueued, talkVars, stateVars
<1>2. Sent' = Sent /\ Before' = Before /\ Current' = Current /\ ~Matching /\ ~Matching'
  BY <1>1 DEF Sent, Before, Current, Matching
<1>3. IdleInv'
  BY <1>1 DEF IdleInv
<1>4. LocalInv'
  BY <1>1, <1>2 DEF LocalInv, Own, Older
<1>5. QueueInv'
  BY <1>1, <1>2 DEF QueueInv
<1>6. AnswerInv'
  BY <1>1, <1>2 DEF AnswerInv, Ordered
<1>7. AccountInv'
  BY <1>1, <1>2 DEF AccountInv, Returned, Lost
<1>8. RightVoice'
  BY <1>1 DEF RightVoice
<1>. QED
  BY <1>3, <1>4, <1>5, <1>6, <1>7, <1>8

\* An answer is never ignored: the frame it belongs to waits, and the stream is open.
LEMMA NothingIgnored == ASSUME Sound, Ignore PROVE FALSE
<1>. USE DEF Sound, Parts
<1>1. PICK i \in DOMAIN tc : TRUE
  BY DEF Ignore, Read
<1>2. phase = "open" /\ isOpen
  <2>1. tc # <<>>
    BY <1>1
  <2>. QED
    BY <2>1 DEF IdleInv, OpenInv
<1>3. \E j \in DOMAIN local : local[j] = tc[i]
  BY <1>1 DEF AnswerInv
<1>. QED
  BY <1>2, <1>3 DEF Ignore

\* The answer that comes, and the frame that is taken up for it.
LEMMA AnswerSound == ASSUME Sound, Answer PROVE Parts'
<1>. USE DEF Sound, Inv, Parts
<1>1. PICK i \in DOMAIN tc : Read(i) /\ pack' = tc[i]
  BY DEF Answer
<1>2. /\ UNCHANGED <<phase, ids, said, timely, sid, total, queue, returned, lost>>
      /\ local # <<>> /\ frame' = Head(local) /\ local' = Tail(local)
      /\ pc = "receive" /\ pc' = "match"
  BY DEF Answer, talkVars, stateVars
<1>3. phase = "open"
  BY <1>1 DEF IdleInv
<1>4. Sent' = Sent /\ Before' = Before /\ Current' = Current /\ ~Matching /\ Matching'
  BY <1>2 DEF Sent, Before, Current, Matching
<1>5. /\ frame' = local[1] /\ 1 \in DOMAIN local
      /\ \A k \in DOMAIN local' : k + 1 \in DOMAIN local /\ local'[k] = local[k + 1]
      /\ \A k \in DOMAIN local : k = 1 \/ (k - 1 \in DOMAIN local' /\ local'[k - 1] = local[k])
  <2>1. local \in Seq(Frames)
    BY DEF TypeOK
  <2>. QED
    BY <1>2, <2>1
<1>6. /\ i = 1
      /\ tc' \in Seq(Frames) /\ Ordered(tc')
      /\ \A k \in DOMAIN tc' : k + 1 \in DOMAIN tc /\ tc'[k] = tc[k + 1] /\ tc[1].nr < tc'[k].nr
      /\ \A k \in DOMAIN tc : k = 1 \/ \E l \in DOMAIN tc' : tc'[l] = tc[k]
  BY <1>1, FirstAnswer
<1>7. IdleInv'
  BY <1>2, <1>3 DEF IdleInv
<1>8. LocalInv'
  BY <1>2, <1>3, <1>4, <1>5 DEF LocalInv, Own, Older
<1>9. QueueInv'
  BY <1>2, <1>4 DEF QueueInv
<1>10. AnswerInv'
  <2>1. pack'.id = Current' /\ (pack' = frame' \/ \E j \in DOMAIN local' : local'[j] = pack')
    BY <1>1, <1>4, <1>5 DEF AnswerInv
  <2>2. After(tc', pack'.nr)
    BY <1>1, <1>6 DEF After
  <2>3. ASSUME NEW k \in DOMAIN tc'
        PROVE  tc'[k].id = Current' /\ \E j \in DOMAIN local' : local'[j] = tc'[k]
    <3>1. tc'[k].id = Current' /\ \E j \in DOMAIN local : local[j] = tc'[k]
      BY <1>4, <1>6 DEF AnswerInv
    <3>2. PICK j \in DOMAIN local : local[j] = tc'[k]
      BY <3>1
    <3>3. PICK h \in DOMAIN local : local[h] = tc[1]
      BY <1>1, <1>6 DEF AnswerInv
    <3>4. local[h].nr < local[j].nr /\ local[h].nr \in Nat /\ local[j].nr \in Nat
      BY <1>6, <3>2, <3>3, Numbers
    <3>5. j # 1
      <4>. SUFFICES ASSUME j = 1 PROVE FALSE
        OBVIOUS
      <4>1. h = 1 \/ local[1].nr < local[h].nr
        BY <1>5, FramesOf DEF OrderInv, Ordered, TypeOK
      <4>. QED
        BY <3>4, <4>1
    <3>. QED
      BY <1>5, <3>1, <3>2, <3>5
  <2>. QED
    BY <1>6, <2>1, <2>2, <2>3 DEF AnswerInv
<1>11. AccountInv'
  BY <1>1, <1>2, <1>4, <1>6 DEF AccountInv, Returned, Lost
<1>12. RightVoice'
  BY <1>2 DEF RightVoice
<1>. QED
  BY <1>7, <1>8, <1>9, <1>10, <1>11, <1>12

\* The frame in hand is of the stream that is open.
LEMMA SameStreamSound == ASSUME Sound, SameStream PROVE Parts'
<1>. USE DEF Sound, Parts
<1>1. /\ UNCHANGED <<phase, ids, said, timely, sid, total, queue, tc, local, frame, pack, returned, lost>>
      /\ pc = "match" /\ pc' = "sequence" /\ frame.id = sid
  BY DEF SameStream, talkVars, stateVars
<1>2. phase = "open" /\ frame.id = Current
  BY <1>1 DEF IdleInv, OpenInv
<1>3. Sent' = Sent /\ Before' = Before /\ Current' = Current /\ Matching /\ Matching'
  BY <1>1 DEF Sent, Before, Current, Matching
<1>4. IdleInv'
  BY <1>1, <1>2 DEF IdleInv
<1>5. LocalInv'
  BY <1>1, <1>2, <1>3 DEF LocalInv, Own, Older
<1>6. QueueInv'
  BY <1>1, <1>3 DEF QueueInv
<1>7. AnswerInv'
  BY <1>1, <1>3 DEF AnswerInv, Ordered, After
<1>8. AccountInv'
  BY <1>1, <1>3 DEF AccountInv, Returned, Lost
<1>9. RightVoice'
  BY <1>1 DEF RightVoice
<1>. QED
  BY <1>4, <1>5, <1>6, <1>7, <1>8, <1>9

\* The frame in hand is not the one that is answered.
LEMMA NotYet ==
  ASSUME Sound, OtherStream \/ Earlier
  PROVE  phase = "open" /\ pack # frame /\ local # <<>>
<1>. USE DEF Sound, Inv, Parts
<1>1. /\ pc \in {"match", "sequence"} /\ Matching
      /\ pc = "match" => frame.id # sid
      /\ pc = "sequence" => pack.seq > frame.seq
  BY DEF OtherStream, Earlier, Matching
<1>2. phase = "open" /\ sid = Current
  BY <1>1 DEF IdleInv, OpenInv
<1>3. pack.id = Current
  BY <1>1 DEF AnswerInv
<1>4. frame.seq \in Nat
  BY MoreNumbers
<1>5. pack # frame
  BY <1>1, <1>2, <1>3, <1>4
<1>6. \E j \in DOMAIN local : local[j] = pack
  BY <1>1, <1>5 DEF AnswerInv
<1>. QED
  BY <1>2, <1>5, <1>6

\* A frame is given up for the next one: it was not the one that is answered.
LEMMA GiveUpSound == ASSUME Sound, OtherStream \/ Earlier PROVE Parts'
<1>. USE DEF Sound, Inv, Parts
<1>1. /\ UNCHANGED <<phase, ids, said, timely, sid, total, queue, tc, pack, pc, returned, lost>>
      /\ local # <<>> /\ frame' = Head(local) /\ local' = Tail(local)
      /\ pc \in {"match", "sequence"}
      /\ pc = "sequence" => pack.seq > frame.seq
  BY DEF OtherStream, Earlier, PopLocal, talkVars, stateVars
<1>2. Sent' = Sent /\ Before' = Before /\ Current' = Current /\ Matching /\ Matching'
  BY <1>1 DEF Sent, Before, Current, Matching
<1>3. phase = "open" /\ pack # frame
  BY NotYet
<1>4. /\ local \in Seq(Frames) /\ frame' = local[1] /\ 1 \in DOMAIN local
      /\ \A k \in DOMAIN local' : k + 1 \in DOMAIN local /\ local'[k] = local[k + 1]
      /\ \A k \in DOMAIN local : k = 1 \/ (k - 1 \in DOMAIN local' /\ local'[k - 1] = local[k])
  <2>1. local \in Seq(Frames)
    BY DEF TypeOK
  <2>. QED
    BY <1>1, <2>1
<1>5. PICK p \in DOMAIN local : local[p] = pack
  BY <1>2, <1>3 DEF AnswerInv
<1>6. frame' = pack \/ frame'.nr < pack.nr
  BY <1>4, <1>5 DEF OrderInv, Ordered
<1>7. IdleInv'
  BY <1>1 DEF IdleInv
<1>8. pc = "sequence" => frame'.id = Current
  <2>. SUFFICES ASSUME pc = "sequence" PROVE frame'.id = Current
    OBVIOUS
  <2>1. /\ frame.id = Current /\ frame.nr = Before + 1 + frame.seq
        /\ frame.nr < frame'.nr
    BY <1>2, <1>4 DEF LocalInv, Own, Older, OrderInv, After
  <2>2. frame.nr \in Nat /\ frame.seq \in Nat /\ frame'.nr \in Nat /\ Before \in Int
    BY <1>4, MoreNumbers DEF Before, Sent
  <2>3. ~(frame'.nr <= Before)
    BY <2>1, <2>2
  <2>. QED
    BY <1>3, <1>4, <2>3 DEF LocalInv, Own, Older
<1>9. LocalInv'
  <2>1. Own(frame)' \/ Older(frame)'
    BY <1>2, <1>3, <1>4 DEF LocalInv, Own, Older
  <2>. QED
    BY <1>1, <1>2, <1>3, <1>4, <1>8, <2>1 DEF LocalInv, Own, Older
<1>10. QueueInv'
  BY <1>1, <1>2 DEF QueueInv
<1>11. AnswerInv'
  <2>1. pack' = frame' \/ \E j \in DOMAIN local' : local'[j] = pack'
    BY <1>1, <1>4, <1>5
  <2>2. ASSUME NEW k \in DOMAIN tc'
        PROVE  tc'[k].id = Current' /\ \E j \in DOMAIN local' : local'[j] = tc'[k]
    <3>1. tc[k].id = Current /\ pack.nr < tc[k].nr
      BY <1>1, <1>2, <2>2 DEF AnswerInv, After
    <3>2. PICK j \in DOMAIN local : local[j] = tc[k]
      BY <1>1, <2>2 DEF AnswerInv
    <3>3. pack.nr \in Nat /\ tc[k].nr \in Nat /\ frame'.nr \in Nat
      BY <1>1, <1>4, <2>2, MoreNumbers
    <3>4. j # 1
      BY <1>4, <1>6, <3>1, <3>2, <3>3
    <3>5. tc' = tc /\ Current' = Current
      BY <1>1, <1>2
    <3>6. j - 1 \in DOMAIN local' /\ local'[j - 1] = tc[k]
      BY <1>4, <3>2, <3>4
    <3>. QED
      BY <3>1, <3>5, <3>6
  <2>3. Ordered(tc') /\ After(tc', pack'.nr) /\ pack'.id = Current'
    BY <1>1, <1>2 DEF AnswerInv, Ordered, After
  <2>. QED
    BY <2>1, <2>2, <2>3 DEF AnswerInv
<1>12. AccountInv'
  BY <1>1, <1>2 DEF AccountInv, Returned, Lost
<1>13. RightVoice'
  BY <1>1 DEF RightVoice
<1>. QED
  BY <1>7, <1>9, <1>10, <1>11, <1>12, <1>13

\* The frame in hand and that of the answer, when their numbers are compared.
LEMMA Compared ==
  ASSUME Sound, pc = "sequence"
  PROVE  /\ frame.nr = pack.nr <=> frame.seq = pack.seq
         /\ frame.nr < pack.nr <=> frame.seq < pack.seq
         /\ pack = frame \/ frame.nr < pack.nr
<1>. USE DEF Sound, Inv, Parts
<1>1. Matching /\ frame.id = Current /\ pack.id = Current /\ phase = "open"
  BY DEF Matching, LocalInv, AnswerInv, IdleInv
<1>2. frame \in Frames /\ pack \in Frames
  BY DEF TypeOK
<1>3. Own(pack) \/ Older(pack)
  BY <1>1 DEF LocalInv, AnswerInv
<1>4. pack = frame \/ frame.nr < pack.nr
  BY <1>1 DEF AnswerInv, OrderInv, After
<1>. QED
  BY <1>1, <1>2, <1>3, <1>4, SameNumber DEF LocalInv

\* A frame that comes after the one answered is never met.
LEMMA NeverLater == ASSUME Sound, Later PROVE FALSE
<1>1. pc = "sequence" /\ pack.seq < frame.seq
  BY DEF Later
<1>2. pack.seq \in Nat /\ frame.seq \in Nat /\ pack.nr \in Nat /\ frame.nr \in Nat
  BY MoreNumbers DEF Sound, Inv
<1>. QED
  BY <1>1, <1>2, Compared

\* What is given back stays given back.
LEMMA ReturnedGrows ==
  ASSUME TypeOK, NEW f \in Frames, NEW g \in Frames,
         returned' = Append(returned, [frame |-> f, answer |-> g])
  PROVE  /\ \A i \in DOMAIN returned : i \in DOMAIN returned' /\ returned'[i] = returned[i]
         /\ \A i \in DOMAIN returned' : i \in DOMAIN returned \/ returned'[i] = [frame |-> f, answer |-> g]
         /\ \E i \in DOMAIN returned' : returned'[i] = [frame |-> f, answer |-> g]
<1>. DEFINE Pairs == [frame : Frames, answer : Frames]
            last == [frame |-> f, answer |-> g]
<1>1. returned \in Seq(Pairs) /\ last \in Pairs /\ returned' = Append(returned, last)
  BY DEF TypeOK
<1>. HIDE DEF Pairs, last
<1>2. /\ \A i \in DOMAIN returned : i \in DOMAIN returned' /\ returned'[i] = returned[i]
      /\ \A i \in DOMAIN returned' : i \in DOMAIN returned \/ returned'[i] = last
      /\ Len(returned) + 1 \in DOMAIN returned' /\ returned'[Len(returned) + 1] = last
  BY <1>1
<1>. QED
  BY <1>2 DEF last

\* The frame is given back with the answer to itself.
LEMMA ReturnSound == ASSUME Sound, Return PROVE Parts'
<1>. USE DEF Sound, Inv, Parts
<1>1. /\ UNCHANGED <<phase, ids, said, timely, sid, total, queue, tc, local, frame, pack, lost>>
      /\ pc = "sequence" /\ pc' = "take" /\ pack.seq = frame.seq
      /\ returned' = Append(returned, [frame |-> frame, answer |-> pack])
  BY DEF Return, talkVars, stateVars
<1>2. Sent' = Sent /\ Before' = Before /\ Current' = Current /\ Matching /\ ~Matching'
  BY <1>1 DEF Sent, Before, Current, Matching
<1>3. frame \in Frames /\ pack \in Frames /\ frame.nr \in Nat /\ pack.nr \in Nat
  BY MoreNumbers DEF TypeOK
<1>4. pack = frame
  BY <1>1, <1>3, Compared
<1>5. /\ \A i \in DOMAIN returned : i \in DOMAIN returned' /\ returned'[i] = returned[i]
      /\ \A i \in DOMAIN returned' : i \in DOMAIN returned \/ returned'[i] = [frame |-> frame, answer |-> pack]
      /\ \E i \in DOMAIN returned' : returned'[i] = [frame |-> frame, answer |-> pack]
  BY <1>1, <1>3, ReturnedGrows
<1>6. IdleInv'
  BY <1>1 DEF IdleInv
<1>7. LocalInv'
  BY <1>1, <1>2 DEF LocalInv, Own, Older
<1>8. QueueInv'
  BY <1>1, <1>2 DEF QueueInv
<1>9. AnswerInv'
  BY <1>1, <1>2 DEF AnswerInv, Ordered
<1>10. AccountInv'
  <2>1. \A n : Returned(n) => Returned(n)'
    BY <1>5 DEF Returned
  <2>2. Returned(pack.nr)'
    BY <1>1, <1>4, <1>5 DEF Returned
  <2>. QED
    BY <1>1, <1>2, <2>1, <2>2 DEF AccountInv, Lost
<1>11. RightVoice'
  BY <1>4, <1>5 DEF RightVoice
<1>. QED
  BY <1>6, <1>7, <1>8, <1>9, <1>10, <1>11

\* No frame is dropped, as the stream is open when there is one.
LEMMA TakeSound == ASSUME Sound, Take PROVE Parts'
<1>. USE DEF Sound, Inv, Parts
<1>1. /\ UNCHANGED <<phase, ids, said, timely, sid, total, tc, local, pack, returned, lost>>
      /\ pc = "take" /\ queue # <<>> /\ frame' = Head(queue) /\ queue' = Tail(queue)
  BY DEF Take, talkVars, stateVars
<1>2. phase = "open" /\ pc' = "send"
  BY <1>1 DEF Take, IdleInv, OpenInv
<1>3. /\ queue \in Seq(Frames) /\ Len(queue) \in Nat /\ Len(queue') = Len(queue) - 1
      /\ frame' = queue[1] /\ 1 \in DOMAIN queue
      /\ \A i \in DOMAIN queue' : i + 1 \in DOMAIN queue /\ queue'[i] = queue[i + 1] /\ i \in Nat
  <2>1. queue \in Seq(Frames)
    BY DEF TypeOK
  <2>. QED
    BY <1>1, <2>1
<1>4. said \in Nat
  BY MoreNumbers
<1>5. Sent' = Sent /\ Sent = said - Len(queue) /\ Sent \in Int
  BY <1>1, <1>2, <1>3, <1>4 DEF Sent
<1>6. Before' = Before /\ Current' = Current /\ ~Matching /\ ~Matching'
  BY <1>1, <1>2, <1>5 DEF Before, Current, Matching
<1>7. IdleInv'
  BY <1>1, <1>2 DEF IdleInv
<1>8. LocalInv'
  BY <1>1, <1>2, <1>6 DEF LocalInv, Own, Older
<1>9. QueueInv'
  <2>1. ASSUME NEW i \in DOMAIN queue'
        PROVE  queue'[i].id = Current' /\ queue'[i].nr = said' - Len(queue') + i
    <3>1. queue[i + 1].id = Current /\ queue[i + 1].nr = said - Len(queue) + (i + 1)
      BY <1>3, <2>1 DEF QueueInv
    <3>2. said - Len(queue) + (i + 1) = said' - Len(queue') + i
      BY <1>1, <1>3, <1>4, <2>1
    <3>. QED
      BY <1>3, <1>6, <2>1, <3>1, <3>2
  <2>2. frame'.id = Current' /\ frame'.nr = Sent' + 1
    BY <1>3, <1>5, <1>6 DEF QueueInv
  <2>. QED
    BY <2>1, <2>2 DEF QueueInv
<1>10. AnswerInv'
  BY <1>1, <1>6 DEF AnswerInv, Ordered
<1>11. AccountInv'
  BY <1>1, <1>5, <1>6 DEF AccountInv, Returned, Lost
<1>12. RightVoice'
  BY <1>1 DEF RightVoice
<1>. QED
  BY <1>7, <1>8, <1>9, <1>10, <1>11, <1>12

\* The frame is numbered after those sent before, and waits for its answer.
LEMMA SendSound == ASSUME Sound, Send PROVE Parts'
<1>. USE DEF Sound, Inv, Parts
<1>0. /\ UNCHANGED <<phase, ids, said, timely, sid, queue, frame, pack, returned, lost>>
      /\ pc = "send" /\ pc' = "take" /\ total' = total + 1
  BY DEF Send, talkVars
<1>2. phase = "open"
  BY <1>0 DEF IdleInv
<1>3. said \in Nat /\ total \in Nat /\ Len(queue) \in Nat
  BY MoreNumbers
<1>4. total + 1 <= MaxFrames
  BY <1>0, <1>3, CodecAssumption DEF CountInv, TypeOK, CodecAssumption
<1>5. PICK f \in Frames :
        f = [frame EXCEPT !.seq = total] /\ f.nr = frame.nr /\ f.id = frame.id /\ f.seq = total
  <2>. DEFINE g == [frame EXCEPT !.seq = total]
  <2>1. frame \in Frames /\ total \in 0..MaxFrames - 1
    BY <1>3, <1>4, CodecAssumption DEF TypeOK, CodecAssumption
  <2>2. g \in Frames /\ g.nr = frame.nr /\ g.id = frame.id /\ g.seq = total
    BY <2>1 DEF Frames
  <2>. QED
    BY <2>2
<1>1. /\ UNCHANGED <<phase, ids, said, timely, sid, queue, frame, pack, returned, lost>>
      /\ pc = "send" /\ pc' = "take" /\ total' = total + 1
      /\ tc' = Append(tc, f) /\ local' = Append(local, f)
  BY <1>0, <1>5 DEF Send
<1>6. /\ Sent = said - Len(queue) - 1 /\ Sent' = Sent + 1 /\ Sent \in Int
      /\ Before = Sent - total /\ Before' = Before /\ Current' = Current
      /\ ~Matching /\ ~Matching'
  BY <1>1, <1>2, <1>3 DEF Sent, Before, Current, Matching
<1>7. f.id = Current /\ f.nr = Sent + 1
  BY <1>1, <1>5 DEF QueueInv
<1>8. /\ tc \in Seq(Frames) /\ local \in Seq(Frames)
  BY DEF TypeOK
<1>9. /\ \A i \in DOMAIN local : i \in DOMAIN local' /\ local'[i] = local[i]
      /\ \A i \in DOMAIN local' : i \in DOMAIN local \/ local'[i] = f
      /\ \E i \in DOMAIN local' : local'[i] = f
  <2>1. Len(local) + 1 \in DOMAIN local' /\ local'[Len(local) + 1] = f
    BY <1>1, <1>5, <1>8
  <2>. QED
    BY <1>1, <1>5, <1>8, <2>1
<1>10. \A i \in DOMAIN tc : tc[i].nr < f.nr
  BY <1>1, <1>5 DEF AnswerInv, OrderInv
<1>11. /\ Ordered(tc')
       /\ \A i \in DOMAIN tc' : IF i \in DOMAIN tc THEN tc'[i] = tc[i] ELSE tc'[i] = f
       /\ \A i \in DOMAIN tc : i \in DOMAIN tc' /\ tc'[i] = tc[i]
       /\ \E i \in DOMAIN tc' : tc'[i] = f
  <2>0. Ordered(tc)
    BY DEF AnswerInv
  <2>1. /\ Ordered(Append(tc, f))
        /\ \A i \in DOMAIN Append(tc, f) :
             IF i \in DOMAIN tc THEN Append(tc, f)[i] = tc[i] ELSE Append(tc, f)[i] = f
    BY <1>8, <1>10, <2>0, AppendLast
  <2>2. Len(tc) + 1 \in DOMAIN tc' /\ tc'[Len(tc) + 1] = f
    BY <1>1, <1>5, <1>8
  <2>3. \A i \in DOMAIN tc : i \in DOMAIN tc' /\ tc'[i] = tc[i]
    BY <1>1, <1>5, <1>8
  <2>. QED
    BY <1>1, <2>1, <2>2, <2>3
<1>12. IdleInv'
  BY <1>1, <1>2 DEF IdleInv
<1>13. LocalInv'
  <2>1. f.id = Current' /\ f.nr = Before' + 1 + f.seq
    BY <1>3, <1>5, <1>6, <1>7
  <2>2. \A g : Own(g) \/ Older(g) => (g.id = Current' /\ g.nr = Before' + 1 + g.seq) \/ (g.id # Current' /\ g.nr <= Before')
    BY <1>6 DEF Own, Older
  <2>3. \A i \in DOMAIN local' : \E k \in DOMAIN ids' : local'[i].id = ids'[k]
    <3>1. Len(ids) \in DOMAIN ids /\ ids[Len(ids)] = Current
      <4>1. ids \in Seq(StreamIds) /\ ids # <<>>
        BY <1>2 DEF TypeOK
      <4>. QED
        BY <4>1 DEF Current
    <3>. QED
      BY <1>1, <1>7, <1>9, <3>1 DEF LocalInv
  <2>4. ASSUME NEW i \in DOMAIN local'
        PROVE  \/ local'[i].id = Current' /\ local'[i].nr = Before' + 1 + local'[i].seq
               \/ local'[i].id # Current' /\ local'[i].nr <= Before'
    <3>1. CASE i \in DOMAIN local
      <4>1. Own(local[i]) \/ Older(local[i])
        BY <1>2, <3>1 DEF LocalInv
      <4>2. local'[i] = local[i]
        BY <1>9, <3>1
      <4>. QED
        BY <2>2, <4>1, <4>2
    <3>2. CASE i \notin DOMAIN local
      BY <1>9, <2>1, <2>4, <3>2
    <3>. QED
      BY <3>1, <3>2
  <2>. QED
    BY <1>1, <1>6, <2>3, <2>4 DEF LocalInv, Own, Older
<1>14. QueueInv'
  BY <1>1, <1>6 DEF QueueInv
<1>15. AnswerInv'
  BY <1>6, <1>7, <1>9, <1>11 DEF AnswerInv
<1>16. AccountInv'
  <2>1. ASSUME NEW n \in 1..Sent'
        PROVE  Returned(n)' \/ Lost(n)' \/ \E i \in DOMAIN tc' : tc'[i].nr = n
    <3>1. CASE n = Sent + 1
      BY <1>7, <1>11, <3>1
    <3>2. CASE n # Sent + 1
      <4>1. n \in 1..Sent
        BY <1>6, <2>1, <3>2
      <4>. QED
        BY <1>1, <1>6, <1>11, <4>1 DEF AccountInv, Returned, Lost
    <3>. QED
      BY <3>1, <3>2
  <2>. QED
    BY <2>1 DEF AccountInv
<1>17. RightVoice'
  BY <1>1 DEF RightVoice
<1>. QED
  BY <1>12, <1>13, <1>14, <1>15, <1>16, <1>17

\* A transmission begins: what is left over from earlier ones has other stream ids.
LEMMA FlagSound == ASSUME Sound, Flag, Relied' PROVE Parts'
<1>. USE DEF Sound, Inv, Parts
<1>1. PICK new \in StreamIds : ids' = Append(ids, new)
  BY DEF Flag
<1>2. /\ UNCHANGED <<said, total, queue, tc, local, frame, pack, pc, returned, lost>>
      /\ phase = "closed" /\ phase' = "flagged"
  BY DEF Flag, taskVars
<1>3. queue = <<>> /\ tc = <<>> /\ pc \in {"receive", "take"}
  BY <1>2 DEF IdleInv
<1>4. /\ ids \in Seq(StreamIds)
      /\ \A k \in DOMAIN ids : k \in DOMAIN ids' /\ ids'[k] = ids[k] /\ k # Len(ids')
      /\ Len(ids') \in DOMAIN ids' /\ ids'[Len(ids')] = new
  <2>1. ids \in Seq(StreamIds)
    BY DEF TypeOK
  <2>. QED
    BY <1>1, <2>1
<1>5. Current' = new /\ \A k \in DOMAIN ids : ids[k] # new
  BY <1>4 DEF Current, Relied, NewIds
<1>6. said \in Nat /\ Len(queue) = 0
  BY <1>3, MoreNumbers
<1>7. Sent' = Sent /\ Before' = said /\ ~Matching'
  BY <1>2, <1>3 DEF Sent, Before, Matching
<1>8. IdleInv'
  BY <1>2, <1>3 DEF IdleInv
<1>9. LocalInv'
  <2>1. ASSUME NEW i \in DOMAIN local'
        PROVE  /\ \E k \in DOMAIN ids' : local'[i].id = ids'[k]
               /\ local'[i].id # Current' /\ local'[i].nr <= Before'
    <3>1. PICK k \in DOMAIN ids : local[i].id = ids[k]
      BY <1>2, <2>1 DEF LocalInv
    <3>2. local[i].nr <= said
      BY <1>2, <2>1 DEF OrderInv
    <3>. QED
      BY <1>2, <1>4, <1>5, <1>7, <3>1, <3>2
  <2>. QED
    BY <1>2, <1>3, <1>7, <2>1 DEF LocalInv, Older
<1>10. QueueInv'
  BY <1>2, <1>3 DEF QueueInv
<1>11. AnswerInv'
  BY <1>2, <1>3, <1>7 DEF AnswerInv, Ordered
<1>12. AccountInv'
  BY <1>2, <1>3, <1>7 DEF AccountInv, Returned, Lost, Matching
<1>13. RightVoice'
  BY <1>2 DEF RightVoice
<1>. QED
  BY <1>8, <1>9, <1>10, <1>11, <1>12, <1>13

\* The rest of ResetStats: nothing is under way that its steps could disturb.
LEMMA ResetSound == ASSUME Sound, Name \/ ResetCount PROVE Parts'
<1>. USE DEF Sound, Inv, Parts
<1>1. /\ UNCHANGED <<ids, said, queue, tc, local, frame, pack, pc, returned, lost>>
      /\ phase \in {"flagged", "named"} /\ phase' \in {"named", "open"}
      /\ phase' = "open" => total' = 0
  BY DEF Name, ResetCount, taskVars
<1>2. queue = <<>> /\ tc = <<>> /\ pc \in {"receive", "take"}
  BY <1>1 DEF IdleInv
<1>3. said \in Nat /\ Len(queue) = 0
  BY <1>2, MoreNumbers
<1>4. /\ Sent' = Sent /\ Sent = said /\ Before = said /\ Before' = said
      /\ Current' = Current /\ ~Matching /\ ~Matching'
  BY <1>1, <1>2, <1>3 DEF Sent, Before, Current, Matching
<1>5. IdleInv'
  BY <1>1, <1>2 DEF IdleInv
<1>6. LocalInv'
  BY <1>1, <1>2, <1>4 DEF LocalInv, Own, Older
<1>7. QueueInv'
  BY <1>1, <1>2 DEF QueueInv
<1>8. AnswerInv'
  BY <1>1, <1>2, <1>4 DEF AnswerInv, Ordered
<1>9. AccountInv'
  BY <1>1, <1>4 DEF AccountInv, Returned, Lost
<1>10. RightVoice'
  BY <1>1 DEF RightVoice
<1>. QED
  BY <1>5, <1>6, <1>7, <1>8, <1>9, <1>10

LEMMA PushSound == ASSUME Sound, Push PROVE Parts'
<1>. USE DEF Sound, Inv, Parts
<1>1. /\ UNCHANGED <<phase, ids, total, tc, local, frame, pack, pc, returned, lost>>
      /\ phase = "open" /\ said' = said + 1
  BY DEF Push, stateVars, taskVars
<1>2. PICK f \in Frames : f.id = Current /\ f.nr = said + 1 /\ queue' = Append(queue, f)
  <2>. DEFINE g == [nr |-> said + 1, id |-> ids[Len(ids)], seq |-> 0]
  <2>1. g \in Frames /\ g.id = Current /\ g.nr = said + 1
    BY CodecAssumption DEF Push, TypeOK, Frames, Current, CodecAssumption
  <2>2. queue' = Append(queue, g)
    BY DEF Push
  <2>. HIDE DEF g
  <2>. QED
    BY <2>1, <2>2
<1>3. queue \in Seq(Frames) /\ Len(queue) \in Nat /\ said \in Nat
  BY MoreNumbers DEF TypeOK
<1>4. /\ Len(queue') = Len(queue) + 1
      /\ \A i \in DOMAIN queue' : (i \in DOMAIN queue /\ queue'[i] = queue[i])
                                    \/ (i = Len(queue) + 1 /\ queue'[i] = f)
      /\ DOMAIN queue' \subseteq Nat
  BY <1>2, <1>3
<1>5. Sent' = Sent /\ Before' = Before /\ Current' = Current /\ (Matching' <=> Matching)
  <2>1. Sent' = Sent
    BY <1>1, <1>3, <1>4 DEF Sent
  <2>. QED
    BY <1>1, <2>1 DEF Before, Current, Matching
<1>6. IdleInv'
  BY <1>1 DEF IdleInv
<1>7. LocalInv'
  BY <1>1, <1>5 DEF LocalInv, Own, Older
<1>8. QueueInv'
  <2>1. ASSUME NEW i \in DOMAIN queue'
        PROVE  queue'[i].id = Current' /\ queue'[i].nr = said' - Len(queue') + i
    <3>1. said' - Len(queue') + i = said - Len(queue) + i
      BY <1>1, <1>3, <1>4, <2>1
    <3>2. CASE i \in DOMAIN queue /\ queue'[i] = queue[i]
      BY <1>5, <3>1, <3>2 DEF QueueInv
    <3>3. CASE i = Len(queue) + 1 /\ queue'[i] = f
      BY <1>2, <1>3, <1>5, <3>1, <3>3
    <3>. QED
      BY <1>4, <2>1, <3>2, <3>3
  <2>2. pc' = "send" => frame'.id = Current' /\ frame'.nr = Sent' + 1
    BY <1>1, <1>5 DEF QueueInv
  <2>. QED
    BY <2>1, <2>2 DEF QueueInv
<1>9. AnswerInv'
  BY <1>1, <1>5 DEF AnswerInv, Ordered, After
<1>10. AccountInv'
  BY <1>1, <1>5 DEF AccountInv, Returned, Lost
<1>11. RightVoice'
  BY <1>1 DEF RightVoice
<1>. QED
  BY <1>6, <1>7, <1>8, <1>9, <1>10, <1>11

\* The stream is closed when all its frames are answered.
LEMMA ReportSound == ASSUME Sound, ReportStats, Relied' PROVE Parts'
<1>. USE DEF Sound, Inv, Parts
<1>1. /\ UNCHANGED <<ids, said, total, queue, tc, local, frame, pack, pc, returned, lost>>
      /\ phase' = "closed"
      /\ queue = <<>> /\ tc = <<>> /\ pc = "receive"
  BY DEF ReportStats, taskVars, Relied, AllAnswered
<1>2. Sent' = Sent /\ ~Matching /\ ~Matching'
  BY <1>1 DEF Sent, Matching
<1>3. IdleInv'
  BY <1>1 DEF IdleInv
<1>4. LocalInv'
  BY <1>1, <1>2 DEF LocalInv
<1>5. QueueInv'
  BY <1>1 DEF QueueInv
<1>6. AnswerInv'
  BY <1>1, <1>2 DEF AnswerInv, Ordered
<1>7. AccountInv'
  BY <1>1, <1>2 DEF AccountInv, Returned, Lost
<1>8. RightVoice'
  BY <1>1 DEF RightVoice
<1>. QED
  BY <1>3, <1>4, <1>5, <1>6, <1>7, <1>8

\* Any one element is removed.
LEMMA OneRemoved ==
  ASSUME NEW s \in Seq(Frames), NEW i \in DOMAIN s
  PROVE  /\ \A k \in DOMAIN RemoveAt(s, i) :
              LET o == IF k < i THEN k ELSE k + 1
              IN  k \in Nat /\ o \in DOMAIN s /\ RemoveAt(s, i)[k] = s[o]
         /\ \A k \in DOMAIN s : k = i \/ \E l \in DOMAIN RemoveAt(s, i) : RemoveAt(s, i)[l] = s[k]
<1>. DEFINE a == SubSeq(s, 1, i - 1)
            b == SubSeq(s, i + 1, Len(s))
<1>1. i \in 1..Len(s) /\ Len(s) \in Nat
  OBVIOUS
<1>2. /\ a \in Seq(Frames) /\ Len(a) = i - 1
      /\ \A k \in 1..i - 1 : a[k] = s[k]
  BY <1>1
<1>3. /\ b \in Seq(Frames) /\ Len(b) = Len(s) - i
      /\ \A k \in 1..Len(s) - i : b[k] = s[i + k]
  BY <1>1
<1>. HIDE DEF a, b
<1>4. /\ Len(a \o b) = Len(s) - 1 /\ DOMAIN (a \o b) = 1..Len(s) - 1
      /\ \A k \in 1..Len(s) - 1 : (a \o b)[k] = IF k < i THEN a[k] ELSE b[k - (i - 1)]
  BY <1>1, <1>2, <1>3
<1>5. \A k \in 1..Len(s) - 1 : (a \o b)[k] = IF k < i THEN s[k] ELSE s[k + 1]
  <2>. SUFFICES ASSUME NEW k \in 1..Len(s) - 1
                PROVE  (a \o b)[k] = IF k < i THEN s[k] ELSE s[k + 1]
    OBVIOUS
  <2>1. CASE k < i
    BY <1>1, <1>2, <1>4, <2>1
  <2>2. CASE ~(k < i)
    <3>1. k - (i - 1) \in 1..Len(s) - i /\ i + (k - (i - 1)) = k + 1
      BY <1>1, <2>2
    <3>. QED
      BY <1>3, <1>4, <2>2, <3>1
  <2>. QED
    BY <2>1, <2>2
<1>6. RemoveAt(s, i) = a \o b
  BY DEF RemoveAt, a, b
<1>7. \A k \in DOMAIN s : k = i \/ \E l \in 1..Len(s) - 1 : (a \o b)[l] = s[k]
  <2>. SUFFICES ASSUME NEW k \in DOMAIN s, k # i
                PROVE  \E l \in 1..Len(s) - 1 : (a \o b)[l] = s[k]
    OBVIOUS
  <2>0. k \in 1..Len(s)
    OBVIOUS
  <2>1. CASE k < i
    <3>1. k \in 1..Len(s) - 1
      BY <1>1, <2>0, <2>1
    <3>. QED
      BY <1>5, <2>1, <3>1
  <2>2. CASE k > i
    <3>1. k - 1 \in 1..Len(s) - 1 /\ ~(k - 1 < i) /\ (k - 1) + 1 = k
      BY <1>1, <2>0, <2>2
    <3>. QED
      BY <1>5, <3>1
  <2>3. k < i \/ k > i
    BY <1>1, <2>0
  <2>. QED
    BY <2>1, <2>2, <2>3
<1>8. ASSUME NEW k \in 1..Len(s) - 1
      PROVE  LET o == IF k < i THEN k ELSE k + 1
             IN  k \in Nat /\ o \in DOMAIN s /\ (a \o b)[k] = s[o]
  <2>1. k \in Nat /\ k \in 1..Len(s) /\ k + 1 \in 1..Len(s)
    BY <1>1
  <2>2. k \in DOMAIN s /\ k + 1 \in DOMAIN s
    BY <2>1
  <2>. QED
    BY <1>5, <2>1, <2>2
<1>. QED
  BY <1>4, <1>6, <1>7, <1>8, Zenon

LEMMA LoseSound == ASSUME Sound, Lose PROVE Parts'
<1>. USE DEF Sound, Inv, Parts
<1>1. PICK i \in DOMAIN tc : lost' = lost \cup {tc[i]} /\ tc' = RemoveAt(tc, i)
  BY DEF Lose
<1>2. UNCHANGED <<phase, ids, said, total, queue, local, frame, pack, pc, returned>>
  BY DEF Lose, talkVars, stateVars, taskVars
<1>3. Sent' = Sent /\ Before' = Before /\ Current' = Current /\ (Matching' <=> Matching)
  BY <1>2 DEF Sent, Before, Current, Matching
<1>4. tc \in Seq(Frames) /\ i \in Nat /\ phase = "open"
  <2>1. tc \in Seq(Frames) /\ tc # <<>> /\ i \in Nat
    BY <1>1 DEF TypeOK
  <2>. QED
    BY <2>1 DEF IdleInv
<1>5. /\ \A k \in DOMAIN tc' :
           LET o == IF k < i THEN k ELSE k + 1
           IN  k \in Nat /\ o \in DOMAIN tc /\ tc'[k] = tc[o]
      /\ \A k \in DOMAIN tc : k = i \/ \E l \in DOMAIN tc' : tc'[l] = tc[k]
  BY <1>1, <1>4, OneRemoved
<1>6. \A k, l \in DOMAIN tc' : k < l => tc'[k].nr < tc'[l].nr
  <2>. SUFFICES ASSUME NEW k \in DOMAIN tc', NEW l \in DOMAIN tc', k < l
                PROVE  tc'[k].nr < tc'[l].nr
    OBVIOUS
  <2>. DEFINE o(n) == IF n < i THEN n ELSE n + 1
  <2>1. /\ o(k) \in DOMAIN tc /\ tc'[k] = tc[o(k)] /\ k \in Nat
        /\ o(l) \in DOMAIN tc /\ tc'[l] = tc[o(l)] /\ l \in Nat
    BY <1>5
  <2>2. o(k) < o(l)
    BY <1>4, <2>1
  <2>. HIDE DEF o
  <2>. QED
    BY <2>1, <2>2 DEF AnswerInv, Ordered
<1>7. IdleInv'
  BY <1>2, <1>4 DEF IdleInv
<1>8. LocalInv'
  BY <1>2, <1>3 DEF LocalInv, Own, Older
<1>9. QueueInv'
  BY <1>2, <1>3 DEF QueueInv
<1>10. AnswerInv'
  <2>1. \A k \in DOMAIN tc' : \E o \in DOMAIN tc : tc'[k] = tc[o]
    BY <1>5
  <2>. QED
    BY <1>2, <1>3, <1>6, <2>1 DEF AnswerInv, Ordered, After
<1>11. AccountInv'
  <2>1. \A n : Lost(n) \/ n = tc[i].nr => Lost(n)'
    BY <1>1 DEF Lost
  <2>. QED
    BY <1>2, <1>3, <1>5, <2>1 DEF AccountInv, Returned
<1>12. RightVoice'
  BY <1>2 DEF RightVoice
<1>. QED
  BY <1>7, <1>8, <1>9, <1>10, <1>11, <1>12

LEMMA StutterSound == ASSUME Sound, UNCHANGED vars PROVE Parts'
BY DEF Sound, Parts, vars, talkVars, stateVars, taskVars, IdleInv, LocalInv, QueueInv, AnswerInv,
       AccountInv, RightVoice, Own, Older, Sent, Before, Current, Matching, Ordered, After,
       Returned, Lost

\* The flag and the stream id are those of the phase ResetStats is in.
LEMMA OpenKept == ASSUME TypeOK, OpenInv, [Next]_vars PROVE OpenInv'
<1>1. CASE Flag
  BY <1>1 DEF Flag, OpenInv
<1>2. CASE Name
  BY <1>2 DEF Name, OpenInv, Current
<1>3. CASE ResetCount \/ ReportStats
  BY <1>3 DEF ResetCount, ReportStats, OpenInv, Current
<1>4. CASE UNCHANGED <<phase, ids, isOpen, sid>>
  BY <1>4 DEF OpenInv, Current
<1>5. Push \/ Task \/ Lose \/ UNCHANGED vars => UNCHANGED <<phase, ids, isOpen, sid>>
  BY DEF Task, Lose, vars, talkVars, stateVars, Push, NoAnswer, Ignore, Answer, OtherStream,
         SameStream, Earlier, Return, Later, PopLocal, NothingQueued, Take, Send
<1>. QED
  BY <1>1, <1>2, <1>3, <1>4, <1>5 DEF Next, Talk

\* The invariant, with what holds only while the code can rely on its assumptions.
LEMMA RelianceInvariance == Spec => [](Inv /\ OpenInv /\ ReliedInv)
<1>1. Init => OpenInv /\ ReliedInv
  <2>. SUFFICES ASSUME Init PROVE OpenInv /\ ReliedInv
    OBVIOUS
  <2>1. OpenInv
    BY DEF Init, OpenInv
  <2>2. IdleInv /\ LocalInv /\ QueueInv /\ RightVoice
    BY DEF Init, IdleInv, LocalInv, QueueInv, RightVoice, Matching
  <2>3. AnswerInv /\ AccountInv
    BY DEF Init, AnswerInv, AccountInv, Matching, Sent, Ordered
  <2>. QED
    BY <2>1, <2>2, <2>3 DEF ReliedInv
<1>2. Inv /\ OpenInv /\ ReliedInv /\ [Next]_vars => OpenInv' /\ ReliedInv'
  <2>. SUFFICES ASSUME Inv, OpenInv, ReliedInv, [Next]_vars PROVE OpenInv' /\ ReliedInv'
    OBVIOUS
  <2>1. OpenInv'
    BY OpenKept DEF Inv
  <2>2. ASSUME Relied' PROVE Parts'
    <3>1. Sound
      BY <2>2, RelianceEnds DEF Sound, Inv, Parts, ReliedInv
    <3>2. CASE Talk
      BY <2>2, <3>1, <3>2, FlagSound, ResetSound, PushSound, ReportSound DEF Talk
    <3>3. CASE Task
      BY <3>1, <3>3, WaitingSound, NothingIgnored, AnswerSound, SameStreamSound, GiveUpSound,
         ReturnSound, NeverLater, TakeSound, SendSound DEF Task
    <3>. QED
      BY <3>1, <3>2, <3>3, LoseSound, StutterSound DEF Next
  <2>. QED
    BY <2>1, <2>2 DEF ReliedInv, Parts
<1>. QED
  BY <1>1, <1>2, Invariance, PTL DEF Spec

-----------------------------------------------------------------------------

\* As long as streams are answered before they close and stream ids are new,
\* CCodecStream::Task never waits on m_LocalQueue for a frame that cannot come.
THEOREM NeverWaitsThenCorrect == Spec => []NeverWaitsThen
<1>1. Inv /\ OpenInv /\ ReliedInv => NeverWaitsThen
  <2>. SUFFICES ASSUME Inv, OpenInv, ReliedInv, Relied, local = <<>>
                PROVE  /\ ~(pc = "match" /\ frame.id # sid)
                       /\ ~(pc = "sequence" /\ pack.seq > frame.seq)
    BY DEF NeverWaitsThen, NeverWaits
  <2>. USE DEF ReliedInv
  <2>1. Matching => pack = frame
    BY DEF AnswerInv
  <2>2. pc = "match" => frame.id = sid
    BY <2>1 DEF AnswerInv, IdleInv, OpenInv, Matching
  <2>3. pc = "sequence" => pack.seq = frame.seq /\ frame.seq \in Nat
    BY <2>1, MoreNumbers DEF Matching, Inv
  <2>. QED
    BY <2>2, <2>3
<1>. QED
  BY <1>1, RelianceInvariance, PTL

\* As long as that is so, the frame given back by CCodecStream::Task carries the
\* transcoder's answer to itself.
THEOREM RightVoiceThenCorrect == Spec => []RightVoiceThen
<1>1. ReliedInv => RightVoiceThen
  BY DEF ReliedInv, RightVoiceThen
<1>. QED
  BY <1>1, RelianceInvariance, PTL

\* As long as that is so, a frame that was said is missing when the stream is
\* closed only if its own answer was lost: one lost answer costs one frame.
THEOREM OnlyLostMissingCorrect == Spec => []OnlyLostMissing
<1>1. Inv /\ OpenInv /\ ReliedInv => OnlyLostMissing
  <2>. SUFFICES ASSUME Inv, ReliedInv, Relied, phase = "closed", NEW n \in 1..said
                PROVE  Returned(n) \/ Lost(n)
    BY DEF OnlyLostMissing
  <2>. USE DEF ReliedInv
  <2>1. queue = <<>> /\ tc = <<>> /\ pc \in {"receive", "take"}
    BY DEF IdleInv
  <2>2. Sent = said
    <3>1. said \in Nat /\ Len(queue) = 0
      BY <2>1, MoreNumbers DEF Inv
    <3>. QED
      BY <2>1, <3>1 DEF Sent
  <2>. QED
    BY <2>1, <2>2 DEF AccountInv, Matching
<1>. QED
  BY <1>1, RelianceInvariance, PTL
=============================================================================
