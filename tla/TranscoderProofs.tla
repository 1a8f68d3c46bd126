-------------------------- MODULE TranscoderProofs --------------------------
(***************************************************************************)
(* Theorems about Transcoder, for any modules, codecs and packets, and     *)
(* whatever the hardware answers.                                          *)
(***************************************************************************)
EXTENDS TranscoderProps, TLAPS

Inv == TypeOK /\ DepthInv

-----------------------------------------------------------------------------
(***************************************************************************)
(* Sequences, packets and jobs.                                            *)
(***************************************************************************)

LEMMA Removed ==
  ASSUME NEW S, NEW s \in Seq(S), NEW i \in DOMAIN s
  PROVE  /\ s[i] \in S
         /\ RemoveAt(s, i) \in Seq(S)
         /\ Len(RemoveAt(s, i)) = Len(s) - 1
<1>1. i \in 1..Len(s)
  OBVIOUS
<1>. QED
  BY <1>1 DEF RemoveAt

LEMMA Grows ==
  ASSUME NEW n \in Nat, NEW s \in Seq(1..n)
  PROVE  s \in Seq(1..n + 1)
OBVIOUS

LEMMA JobTyped ==
  ASSUME NEW w \in Codecs, NEW p \in DOMAIN packets
  PROVE  Job(w, p) \in Jobs /\ Job(w, p).steps # <<>>
<1>. DEFINE Steps == Codecs \cup {"reflector"}
<1>1. Others[w] \in Seq(Steps) /\ Others[w] # <<>>
  <2>1. \A a, b, c \in Steps : <<a, b, c>> \in Seq(Steps) /\ <<a, b, c>> # <<>>
    OBVIOUS
  <2>2. {"dstar", "dmr", "m17", "p25"} \subseteq Steps
    BY DEF Codecs, Devices
  <2>3. w \in {"dstar", "dmr", "m17", "p25"}
    BY DEF Codecs, Devices
  <2>4. \E a, b, c \in {"dstar", "dmr", "m17", "p25"} : Others[w] = <<a, b, c>>
    BY <2>3 DEF Others
  <2>. HIDE DEF Steps
  <2>. QED
    BY <2>1, <2>2, <2>4
<1>2. <<"reflector">> \in Seq(Steps) /\ <<"reflector">> # <<>>
  OBVIOUS
<1>. HIDE DEF Steps
<1>. QED
  BY <1>1, <1>2 DEF Job, Jobs, Steps

\* A packet is changed in one field; its number, module and codec stay.
LEMMA PacketChanged ==
  ASSUME TypeOK, NEW p \in DOMAIN packets, NEW new \in Packets,
         packets' = [packets EXCEPT ![p] = new]
  PROVE  /\ packets' \in Seq(Packets)
         /\ Len(packets') = Len(packets)
         /\ DOMAIN packets' = DOMAIN packets
BY DEF TypeOK

LEMMA PacketTyped ==
  ASSUME TypeOK, NEW p \in DOMAIN packets
  PROVE  /\ packets[p] \in Packets
         /\ packets[p].mod \in Modules
         /\ packets[p].codec \in CodecIns
         /\ packets[p].audio \in Seq(Voices)
         /\ packets[p].data \in [Codecs -> Seq(Voices)]
         /\ Voice(p) \in Voices
<1>1. packets[p] \in Packets
  BY DEF TypeOK
<1>. QED
  BY <1>1 DEF Packets, Voice, Voices

LEMMA AudioSet ==
  ASSUME TypeOK, NEW p \in DOMAIN packets, NEW a \in Seq(Voices),
         packets' = [packets EXCEPT ![p].audio = a]
  PROVE  /\ packets' \in Seq(Packets)
         /\ Len(packets') = Len(packets)
         /\ DOMAIN packets' = DOMAIN packets
<1>. DEFINE new == [packets[p] EXCEPT !.audio = a]
<1>1. new \in Packets
  BY PacketTyped DEF Packets
<1>2. packets' = [packets EXCEPT ![p] = new]
  OBVIOUS
<1>. HIDE DEF new
<1>. QED
  BY <1>1, <1>2, PacketChanged

LEMMA DataSet ==
  ASSUME TypeOK, NEW p \in DOMAIN packets, NEW c \in Codecs, NEW a \in Seq(Voices),
         packets' = [packets EXCEPT ![p].data[c] = a]
  PROVE  /\ packets' \in Seq(Packets)
         /\ Len(packets') = Len(packets)
         /\ DOMAIN packets' = DOMAIN packets
<1>. DEFINE new == [packets[p] EXCEPT !.data[c] = a]
<1>1. new \in Packets
  BY PacketTyped DEF Packets
<1>2. packets' = [packets EXCEPT ![p] = new]
  OBVIOUS
<1>. HIDE DEF new
<1>. QED
  BY <1>1, <1>2, PacketChanged

LEMMA SentSet ==
  ASSUME TypeOK, NEW p \in DOMAIN packets,
         packets' = [packets EXCEPT ![p].sent = TRUE]
  PROVE  /\ packets' \in Seq(Packets)
         /\ Len(packets') = Len(packets)
         /\ DOMAIN packets' = DOMAIN packets
<1>. DEFINE new == [packets[p] EXCEPT !.sent = TRUE]
<1>1. new \in Packets
  BY PacketTyped DEF Packets
<1>2. packets' = [packets EXCEPT ![p] = new]
  OBVIOUS
<1>. HIDE DEF new
<1>. QED
  BY <1>1, <1>2, PacketChanged

\* What is left of a vocoder's work when it has done a step.
LEMMA StepTyped ==
  ASSUME TypeOK, NEW w \in Codecs, ~IsIdle(w)
  PROVE  /\ todo[w].packet \in DOMAIN packets
         /\ Head(todo[w].steps) \in Codecs \cup {"reflector"}
         /\ Rest(todo[w]) \in Jobs
<1>. DEFINE Steps == Codecs \cup {"reflector"}
<1>1. todo[w] \in Jobs
  BY DEF TypeOK
<1>2. todo[w] # Idle
  BY DEF IsIdle, Idle
<1>3. todo[w] \in [packet : DOMAIN packets, steps : Seq(Steps) \ {<<>>}]
  BY <1>1, <1>2 DEF Jobs
<1>. DEFINE s == todo[w].steps
<1>4. s \in Seq(Steps) /\ s # <<>>
  BY <1>3
<1>. HIDE DEF s, Steps
<1>5. Head(s) \in Steps /\ Tail(s) \in Seq(Steps)
  BY <1>4
<1>6. Len(s) # 1 => Tail(s) # <<>>
  <2>1. Len(s) \in Nat /\ Len(s) # 0 /\ Len(Tail(s)) = Len(s) - 1
    BY <1>4
  <2>2. Len(<<>>) = 0
    OBVIOUS
  <2>. QED
    BY <2>1, <2>2
<1>7. CASE Len(s) = 1
  BY <1>3, <1>5, <1>7 DEF Rest, Jobs, s, Steps
<1>8. CASE Len(s) # 1
  <2>1. [todo[w] EXCEPT !.steps = Tail(@)] \in [packet : DOMAIN packets, steps : Seq(Steps) \ {<<>>}]
    BY <1>3, <1>5, <1>6, <1>8 DEF s
  <2>. QED
    BY <1>3, <1>5, <1>8, <2>1 DEF Rest, Jobs, s, Steps
<1>. QED
  BY <1>7, <1>8

LEMMA StepKept ==
  ASSUME TypeOK, NEW w \in Codecs, ~IsIdle(w), StepDone(w)
  PROVE  todo' \in [Codecs -> Jobs]
BY StepTyped DEF StepDone, TypeOK

-----------------------------------------------------------------------------
LEMMA Initially == Init => Inv
<1>. SUFFICES ASSUME Init PROVE Inv
  OBVIOUS
<1>1. packets = <<>> /\ packets \in Seq(Packets) /\ Len(packets) = 0
  BY DEF Init
<1>2. \A S : <<>> \in Seq(S)
  OBVIOUS
<1>3. TypeOK
  BY <1>1, <1>2, TranscoderAssumption DEF TranscoderAssumption, Init, TypeOK, Jobs
<1>4. DepthInv
  <2>1. \A d \in Devices : Len(chip[d]) <= 0 /\ depth[d] = 0 /\ d \notin busy
    BY DEF Init
  <2>. QED
    BY <2>1 DEF DepthInv
<1>. QED
  BY <1>3, <1>4 DEF Inv

LEMMA Stuttering == Inv /\ UNCHANGED vars => Inv'
BY DEF Inv, vars, deviceVars, TypeOK, Jobs, DepthInv

\* A device with the count n takes one more, or has one less.
LEMMA Counting ==
  /\ \A n \in 0..2 : CountDown(n) = IF n = 0 THEN DepthRange - 1 ELSE n - 1
  /\ \A n \in 0..2 : (CountDown(n) + 1) % DepthRange = n
  /\ \A n \in 1..2 : CountDown(CountDown(n)) = CountDown(n - 1)
  /\ \A n \in 0..DepthRange - 1 : CountDown(n) \in 0..DepthRange - 1
BY TranscoderAssumption DEF TranscoderAssumption, CountDown

\* What the reflector sends.
LEMMA ReadTyped ==
  ASSUME Inv, NEW m \in Modules, NEW codec \in CodecIns, NEW stream \in Nat, NEW seq \in Nat,
         ReadReflector(m, codec, stream, seq)
  PROVE  Inv'
<1>. USE DEF Inv
<1>. DEFINE voice == [mod |-> m, stream |-> stream, seq |-> seq]
            data == [c \in Codecs |-> IF c = Home(codec) THEN <<voice>> ELSE <<>>]
            new == [mod |-> m, codec |-> codec, stream |-> stream, seq |-> seq,
                    data |-> data, audio |-> <<>>, sent |-> FALSE]
            p == Len(packets) + 1
<1>1. new \in Packets
  <2>1. voice \in Voices
    BY DEF Voices
  <2>2. <<voice>> \in Seq(Voices) /\ <<>> \in Seq(Voices)
    BY <2>1
  <2>. HIDE DEF voice
  <2>3. data \in [Codecs -> Seq(Voices)]
    BY <2>2
  <2>. HIDE DEF data
  <2>. QED
    BY <2>2, <2>3 DEF Packets
<1>2. packets' = Append(packets, new) /\ Len(packets) < MaxPackets
  BY DEF ReadReflector
<1>. HIDE DEF new
<1>3. /\ packets \in Seq(Packets) /\ Len(packets) \in Nat
      /\ packets' \in Seq(Packets) /\ Len(packets') = Len(packets) + 1
      /\ DOMAIN packets = 1..Len(packets) /\ DOMAIN packets' = 1..Len(packets) + 1
  BY <1>1, <1>2 DEF TypeOK
<1>4. \A s : s \in Seq(DOMAIN packets) => s \in Seq(DOMAIN packets')
  BY <1>3, Grows
<1>5. Home(codec) \in Codecs
  BY TranscoderAssumption DEF TranscoderAssumption, Home, Codecs, Devices
<1>6. p \in DOMAIN packets'
  BY <1>3
<1>7. queue' \in [Codecs -> Seq(DOMAIN packets')]
  <2>1. queue' = [queue EXCEPT ![Home(codec)] = Append(@, p)]
    BY DEF ReadReflector, Push
  <2>2. \A c \in Codecs : queue[c] \in Seq(DOMAIN packets')
    BY <1>4 DEF TypeOK
  <2>3. Append(queue[Home(codec)], p) \in Seq(DOMAIN packets')
    BY <1>5, <1>6, <2>2
  <2>. HIDE DEF p
  <2>. QED
    BY <1>5, <2>1, <2>2, <2>3 DEF TypeOK
<1>8. latest' \in [Modules -> 0..Len(packets')]
  BY <1>3 DEF ReadReflector, TypeOK
<1>9. todo' \in [Codecs -> Jobs']
  <2>1. Jobs \subseteq Jobs'
    BY <1>3 DEF Jobs
  <2>. QED
    BY <2>1 DEF ReadReflector, TypeOK
<1>10. waiting' \in [Devices -> [Modules -> Seq(DOMAIN packets')]]
  <2>1. \A d \in Devices : waiting[d] \in [Modules -> Seq(DOMAIN packets')]
    BY <1>4 DEF TypeOK
  <2>. QED
    BY <2>1 DEF ReadReflector, deviceVars, TypeOK
<1>11. replies' \in [Modules -> Seq([nr : DOMAIN packets', data : [Codecs -> Seq(Voices)]])]
  <2>. DEFINE Replies(D) == [nr : D, data : [Codecs -> Seq(Voices)]]
  <2>1. Replies(DOMAIN packets) \subseteq Replies(DOMAIN packets')
    BY <1>3
  <2>2. \A k \in Modules : replies[k] \in Seq(Replies(DOMAIN packets))
    BY DEF TypeOK
  <2>. HIDE DEF Replies
  <2>3. \A k \in Modules : replies[k] \in Seq(Replies(DOMAIN packets'))
    BY <2>1, <2>2
  <2>. QED
    BY <2>3 DEF ReadReflector, TypeOK, Replies
<1>12. TypeOK'
  <2>1. Len(packets') <= MaxPackets
    BY <1>2, <1>3, TranscoderAssumption DEF TranscoderAssumption
  <2>2. UNCHANGED <<busy, depth, chip, store>>
    BY DEF ReadReflector, deviceVars
  <2>3. /\ busy' \subseteq Devices
        /\ depth' \in [Devices -> 0..DepthRange - 1]
        /\ chip' \in [Devices -> Seq(Requests)]
        /\ store' \in [{"data", "audio"} -> [Modules -> Seq(Voices)]]
    BY <2>2 DEF TypeOK
  <2>. QED
    BY <2>1, <2>3, <1>3, <1>7, <1>8, <1>9, <1>10, <1>11 DEF TypeOK
<1>13. DepthInv'
  BY DEF ReadReflector, deviceVars, DepthInv
<1>. QED
  BY <1>12, <1>13

LEMMA ReaderKeeps == Inv /\ (NextPacket \/ FirstPacket) => Inv'
<1>. SUFFICES ASSUME Inv, NextPacket \/ FirstPacket PROVE Inv'
  OBVIOUS
<1>1. CASE NextPacket
  <2>1. PICK m \in Modules :
          /\ latest[m] # 0
          /\ ReadReflector(m, packets[latest[m]].codec, packets[latest[m]].stream,
                           packets[latest[m]].seq + 1)
    BY <1>1 DEF NextPacket
  <2>2. latest[m] \in DOMAIN packets
    BY <2>1 DEF Inv, TypeOK
  <2>3. packets[latest[m]] \in Packets
    BY <2>2, PacketTyped DEF Inv
  <2>. QED
    BY <2>1, <2>3, ReadTyped DEF Packets
<1>2. CASE FirstPacket
  <2>. DEFINE next(m) == IF latest[m] = 0 THEN 1 ELSE packets[latest[m]].stream + 1
  <2>1. PICK m \in Modules, codec \in CodecIns : ReadReflector(m, codec, next(m), 0)
    BY <1>2 DEF FirstPacket
  <2>2. latest[m] # 0 => latest[m] \in DOMAIN packets
    BY DEF Inv, TypeOK
  <2>3. latest[m] # 0 => packets[latest[m]] \in Packets
    BY <2>2, PacketTyped DEF Inv
  <2>4. next(m) \in Nat
    BY <2>3 DEF Packets
  <2>. HIDE DEF next
  <2>. QED
    BY <2>1, <2>4, ReadTyped
<1>. QED
  BY <1>1, <1>2

-----------------------------------------------------------------------------
(***************************************************************************)
(* The devices.                                                            *)
(***************************************************************************)

LEMMA RequestTyped ==
  ASSUME TypeOK, NEW d \in Devices, NEW p \in DOMAIN packets
  PROVE  Request(d, p) \in Requests
<1>1. packets[p].data[d] \in Seq(Voices)
  BY PacketTyped DEF Codecs
<1>. QED
  BY <1>1, PacketTyped DEF Request, Requests

LEMMA FeedKeeps == ASSUME Inv, NEW d \in Devices, Feed(d) PROVE Inv'
<1>. USE DEF Inv
<1>. DEFINE p == Head(queue[d])
            m == packets[p].mod
            r == Request(d, p)
<1>1. /\ d \in Codecs
      /\ queue[d] \in Seq(DOMAIN packets) /\ queue[d] # <<>>
      /\ chip[d] \in Seq(Requests)
      /\ waiting[d] \in [Modules -> Seq(DOMAIN packets)]
  BY DEF Feed, TypeOK, Codecs
<1>2. p \in DOMAIN packets /\ Tail(queue[d]) \in Seq(DOMAIN packets)
  <2>. DEFINE D == DOMAIN packets
  <2>1. queue[d] \in Seq(D) /\ queue[d] # <<>>
    BY <1>1
  <2>. HIDE DEF D
  <2>2. Head(queue[d]) \in D /\ Tail(queue[d]) \in Seq(D)
    BY <2>1
  <2>. QED
    BY <2>2 DEF D
<1>3. m \in Modules /\ r \in Requests
  BY <1>2, RequestTyped, PacketTyped
<1>4. /\ queue' = [queue EXCEPT ![d] = Tail(@)]
      /\ waiting' = [waiting EXCEPT ![d][m] = Append(@, p)]
      /\ chip' = [chip EXCEPT ![d] = Append(@, r)]
      /\ busy' = busy \cup {d} /\ d \notin busy /\ depth[d] < 2
      /\ UNCHANGED <<latest, packets, todo, depth, store, replies>>
  BY DEF Feed
<1>. HIDE DEF p, m, r
<1>5. queue' \in [Codecs -> Seq(DOMAIN packets)]
  BY <1>1, <1>2, <1>4 DEF TypeOK
<1>6. waiting' \in [Devices -> [Modules -> Seq(DOMAIN packets)]]
  <2>1. Append(waiting[d][m], p) \in Seq(DOMAIN packets)
    BY <1>1, <1>2, <1>3
  <2>2. [waiting[d] EXCEPT ![m] = Append(@, p)] \in [Modules -> Seq(DOMAIN packets)]
    BY <1>1, <2>1
  <2>. QED
    BY <1>4, <2>2 DEF TypeOK
<1>7. /\ chip' \in [Devices -> Seq(Requests)]
      /\ chip'[d] = Append(chip[d], r) /\ Len(chip'[d]) = Len(chip[d]) + 1
      /\ \A e \in Devices : e # d => chip'[e] = chip[e]
  BY <1>1, <1>3, <1>4 DEF TypeOK
<1>8. TypeOK'
  BY <1>4, <1>5, <1>6, <1>7 DEF TypeOK, Jobs
<1>9. DepthInv'
  <2>. SUFFICES ASSUME NEW e \in Devices
                PROVE  \E n \in 0..2 :
                         /\ Len(chip'[e]) <= n
                         /\ depth'[e] = IF e \in busy' THEN CountDown(n) ELSE n
    BY DEF DepthInv, CountDown
  <2>1. CASE e # d
    BY <1>4, <1>7, <2>1 DEF DepthInv, CountDown
  <2>2. CASE e = d
    <3>1. PICK n \in 0..2 : Len(chip[d]) <= n /\ depth[d] = n
      BY <1>4 DEF DepthInv
    <3>2. n + 1 \in 1..2 /\ CountDown(n + 1) = n
      BY <1>4, <3>1, Counting
    <3>3. Len(chip'[d]) <= n + 1
      BY <1>1, <1>7, <3>1
    <3>. QED
      BY <1>4, <2>2, <3>1, <3>2, <3>3
  <2>. QED
    BY <2>1, <2>2
<1>. QED
  BY <1>8, <1>9

LEMMA CountKeeps == ASSUME Inv, NEW d \in Devices, Count(d) PROVE Inv'
<1>. USE DEF Inv
<1>1. /\ d \in busy /\ busy' = busy \ {d}
      /\ depth' = [depth EXCEPT ![d] = (@ + 1) % DepthRange]
      /\ UNCHANGED <<latest, packets, queue, todo, waiting, chip, store, replies>>
  BY DEF Count
<1>2. PICK n \in 0..2 : Len(chip[d]) <= n /\ depth[d] = CountDown(n)
  BY <1>1 DEF DepthInv
<1>3. depth'[d] = n /\ n \in 0..DepthRange - 1
  <2>1. depth'[d] = (depth[d] + 1) % DepthRange
    BY <1>1 DEF TypeOK
  <2>2. (CountDown(n) + 1) % DepthRange = n
    BY Counting
  <2>3. n \in 0..DepthRange - 1
    BY TranscoderAssumption DEF TranscoderAssumption
  <2>. QED
    BY <1>2, <2>1, <2>2, <2>3
<1>4. depth' \in [Devices -> 0..DepthRange - 1]
  BY <1>1, <1>3 DEF TypeOK
<1>5. TypeOK'
  BY <1>1, <1>4 DEF TypeOK, Jobs
<1>6. \A e \in Devices : e # d => depth'[e] = depth[e] /\ (e \in busy' <=> e \in busy)
  BY <1>1 DEF TypeOK
<1>7. DepthInv'
  BY <1>1, <1>2, <1>3, <1>6 DEF DepthInv, CountDown
<1>. QED
  BY <1>5, <1>7

\* A device has one request less, and what is counted falls by by, 0 or 1.
LEMMA DeviceAnswers ==
  ASSUME Inv, NEW d \in Devices, NEW i \in DOMAIN chip[d],
         chip' = [chip EXCEPT ![d] = RemoveAt(@, i)],
         UNCHANGED busy,
         depth' = depth \/ depth' = [depth EXCEPT ![d] = CountDown(@)]
  PROVE  /\ chip[d][i] \in Requests
         /\ chip' \in [Devices -> Seq(Requests)]
         /\ depth' \in [Devices -> 0..DepthRange - 1]
         /\ DepthInv'
<1>. USE DEF Inv
<1>1. chip[d] \in Seq(Requests) /\ Len(chip[d]) \in Nat /\ Len(chip[d]) # 0
  BY DEF TypeOK
<1>2. /\ chip[d][i] \in Requests
      /\ RemoveAt(chip[d], i) \in Seq(Requests)
      /\ Len(RemoveAt(chip[d], i)) = Len(chip[d]) - 1
  BY <1>1, Removed
<1>3. /\ chip' \in [Devices -> Seq(Requests)]
      /\ Len(chip'[d]) = Len(chip[d]) - 1
      /\ \A e \in Devices : e # d => chip'[e] = chip[e]
  BY <1>2 DEF TypeOK
<1>4. depth' \in [Devices -> 0..DepthRange - 1]
  <2>1. depth[d] \in 0..DepthRange - 1
    BY DEF TypeOK
  <2>2. CountDown(depth[d]) \in 0..DepthRange - 1
    BY <2>1, Counting
  <2>. QED
    BY <2>2 DEF TypeOK
<1>5. \A e \in Devices : e # d => depth'[e] = depth[e]
  BY DEF TypeOK
<1>6. PICK n \in 0..2 :
        Len(chip[d]) <= n /\ depth[d] = IF d \in busy THEN CountDown(n) ELSE n
  BY DEF DepthInv, CountDown
<1>7. n \in 1..2
  BY <1>1, <1>6
<1>8. \E k \in 0..2 :
        Len(chip'[d]) <= k /\ depth'[d] = IF d \in busy' THEN CountDown(k) ELSE k
  <2>1. CASE depth' = depth
    BY <1>1, <1>3, <1>6, <2>1
  <2>2. CASE depth' = [depth EXCEPT ![d] = CountDown(@)]
    <3>1. depth'[d] = CountDown(depth[d])
      BY <2>2 DEF TypeOK
    <3>2. CountDown(n) = n - 1 /\ CountDown(CountDown(n)) = CountDown(n - 1)
      BY <1>7, Counting
    <3>3. n - 1 \in 0..2 /\ Len(chip'[d]) <= n - 1
      BY <1>1, <1>3, <1>6, <1>7
    <3>. QED
      BY <1>6, <3>1, <3>2, <3>3
  <2>. QED
    BY <2>1, <2>2
<1>9. DepthInv'
  BY <1>3, <1>5, <1>8 DEF DepthInv, CountDown
<1>. QED
  BY <1>2, <1>3, <1>4, <1>9

\* The packet that an answer goes to.
LEMMA WaitingPopped ==
  ASSUME TypeOK, NEW d \in Devices, NEW m \in Modules, PopWaiting(d, m)
  PROVE  /\ Head(waiting[d][m]) \in DOMAIN packets
         /\ waiting' \in [Devices -> [Modules -> Seq(DOMAIN packets)]]
<1>. DEFINE D == DOMAIN packets
<1>1. /\ waiting \in [Devices -> [Modules -> Seq(D)]]
      /\ waiting[d] \in [Modules -> Seq(D)]
      /\ waiting[d][m] \in Seq(D) /\ waiting[d][m] # <<>>
  BY DEF TypeOK, PopWaiting
<1>2. waiting' = [waiting EXCEPT ![d][m] = Tail(@)]
  BY DEF PopWaiting
<1>. HIDE DEF D
<1>3. Head(waiting[d][m]) \in D /\ Tail(waiting[d][m]) \in Seq(D)
  BY <1>1
<1>4. [waiting[d] EXCEPT ![m] = Tail(@)] \in [Modules -> Seq(D)]
  BY <1>1, <1>3
<1>. QED
  BY <1>1, <1>2, <1>3, <1>4 DEF D

LEMMA ReadDeviceKeeps == ASSUME Inv, NEW d \in Devices, ReadDevice(d) PROVE Inv'
<1>. USE DEF Inv
<1>1. PICK i \in DOMAIN chip[d] :
        /\ Answers(d, i)
        /\ PopWaiting(d, chip[d][i].mod)
        /\ depth' = [depth EXCEPT ![d] = CountDown(@)]
        /\ packets' = IF chip[d][i].kind = "speech"
                      THEN [packets EXCEPT ![Head(waiting[d][chip[d][i].mod])].audio = chip[d][i].voice]
                      ELSE [packets EXCEPT ![Head(waiting[d][chip[d][i].mod])].data[d] = chip[d][i].voice]
        /\ todo' = [todo EXCEPT ![d] = Job(d, Head(waiting[d][chip[d][i].mod]))]
        /\ UNCHANGED <<latest, queue, busy, store, replies>>
  BY DEF ReadDevice
<1>. DEFINE answer == chip[d][i]
            p == Head(waiting[d][answer.mod])
<1>2. /\ answer \in Requests
      /\ chip' \in [Devices -> Seq(Requests)]
      /\ depth' \in [Devices -> 0..DepthRange - 1]
      /\ DepthInv'
  BY <1>1, DeviceAnswers DEF Answers
<1>3. answer.mod \in Modules /\ answer.voice \in Seq(Voices)
  BY <1>2 DEF Requests
<1>4. /\ p \in DOMAIN packets
      /\ waiting' \in [Devices -> [Modules -> Seq(DOMAIN packets)]]
  BY <1>1, <1>3, WaitingPopped
<1>5. /\ packets' = IF answer.kind = "speech"
                    THEN [packets EXCEPT ![p].audio = answer.voice]
                    ELSE [packets EXCEPT ![p].data[d] = answer.voice]
      /\ todo' = [todo EXCEPT ![d] = Job(d, p)]
  BY <1>1
<1>. HIDE DEF answer, p
<1>6. d \in Codecs
  BY DEF Codecs
<1>7. /\ packets' \in Seq(Packets)
      /\ Len(packets') = Len(packets) /\ DOMAIN packets' = DOMAIN packets
  BY <1>3, <1>4, <1>5, <1>6, AudioSet, DataSet
<1>8. todo' \in [Codecs -> Jobs']
  BY <1>4, <1>5, <1>6, <1>7, JobTyped DEF TypeOK, Jobs
<1>9. TypeOK'
  BY <1>1, <1>2, <1>4, <1>7, <1>8 DEF TypeOK
<1>. QED
  BY <1>2, <1>9

LEMMA BadResponseKeeps ==
  ASSUME Inv, NEW d \in Devices, UnexpectedResponse(d) \/ NoResponse(d)
  PROVE  Inv'
<1>. USE DEF Inv
<1>1. PICK i \in DOMAIN chip[d] :
        /\ Answers(d, i)
        /\ PopWaiting(d, chip[d][i].mod) \/ UNCHANGED waiting
        /\ UNCHANGED <<latest, packets, queue, todo, busy, depth, store, replies>>
  BY DEF UnexpectedResponse, NoResponse
<1>2. /\ chip[d][i] \in Requests
      /\ chip' \in [Devices -> Seq(Requests)]
      /\ DepthInv'
  BY <1>1, DeviceAnswers DEF Answers
<1>3. chip[d][i].mod \in Modules
  BY <1>2 DEF Requests
<1>4. waiting' \in [Devices -> [Modules -> Seq(DOMAIN packets)]]
  BY <1>1, <1>3, WaitingPopped DEF TypeOK
<1>5. TypeOK'
  BY <1>1, <1>2, <1>4 DEF TypeOK, Jobs
<1>. QED
  BY <1>2, <1>5

-----------------------------------------------------------------------------
(***************************************************************************)
(* The threads of the vocoders.                                            *)
(***************************************************************************)

LEMMA SoftKeeps == Inv /\ Soft => Inv'
<1>. SUFFICES ASSUME Inv, Soft PROVE Inv'
  OBVIOUS
<1>. USE DEF Inv
<1>1. PICK w \in {"m17", "p25"}, p \in DOMAIN packets, v \in Seq(Voices) :
        /\ Pop(w, p)
        /\ SetAudio(p, v) \/ SetData(w, p, v)
        /\ \/ UNCHANGED store
           \/ \E s \in {"data", "audio"}, k \in Seq(Voices) : Keep(s, packets[p].mod, k)
        /\ UNCHANGED <<latest, deviceVars, replies>>
  <2>0. \A m \in Modules : store["audio"][m] \in Seq(Voices) /\ store["data"][m] \in Seq(Voices)
    BY DEF TypeOK
  <2>1. CASE Codec2toAudio
    <3>1. PICK p \in DOMAIN packets :
            /\ Pop("m17", p)
            /\ \/ SetAudio(p, store["audio"][packets[p].mod]) /\ UNCHANGED store
               \/ /\ SetAudio(p, packets[p].data["m17"])
                  /\ Keep("audio", packets[p].mod, <<[Voice(p) EXCEPT !.seq = @ + 1]>>)
               \/ SetAudio(p, packets[p].data["m17"]) /\ UNCHANGED store
            /\ UNCHANGED <<latest, deviceVars, replies>>
      BY <2>1 DEF Codec2toAudio
    <3>2. packets[p].mod \in Modules /\ packets[p].data["m17"] \in Seq(Voices)
      BY PacketTyped DEF Codecs
    <3>3. [Voice(p) EXCEPT !.seq = @ + 1] \in Voices
      BY PacketTyped DEF Voices
    <3>4. <<[Voice(p) EXCEPT !.seq = @ + 1]>> \in Seq(Voices)
      BY <3>3
    <3>. QED
      BY <2>0, <3>1, <3>2, <3>4
  <2>2. CASE AudiotoCodec2
    <3>1. PICK p \in DOMAIN packets :
            /\ Pop("m17", p)
            /\ \/ SetData("m17", p, store["data"][packets[p].mod] \o packets[p].audio) /\ UNCHANGED store
               \/ /\ SetData("m17", p, packets[p].audio)
                  /\ Keep("data", packets[p].mod, packets[p].audio)
            /\ UNCHANGED <<latest, deviceVars, replies>>
      BY <2>2 DEF AudiotoCodec2
    <3>2. packets[p].mod \in Modules /\ packets[p].audio \in Seq(Voices)
      BY PacketTyped
    <3>3. store["data"][packets[p].mod] \o packets[p].audio \in Seq(Voices)
      BY <2>0, <3>2
    <3>. QED
      BY <3>1, <3>2, <3>3
  <2>3. CASE IMBEtoAudio
    <3>1. PICK p \in DOMAIN packets :
            /\ Pop("p25", p) /\ SetAudio(p, packets[p].data["p25"])
            /\ UNCHANGED <<latest, store, deviceVars, replies>>
      BY <2>3 DEF IMBEtoAudio
    <3>2. packets[p].data["p25"] \in Seq(Voices)
      BY PacketTyped DEF Codecs
    <3>. QED
      BY <3>1, <3>2
  <2>4. CASE AudiotoIMBE
    <3>1. PICK p \in DOMAIN packets :
            /\ Pop("p25", p) /\ SetData("p25", p, packets[p].audio)
            /\ UNCHANGED <<latest, store, deviceVars, replies>>
      BY <2>4 DEF AudiotoIMBE
    <3>2. packets[p].audio \in Seq(Voices)
      BY PacketTyped
    <3>. QED
      BY <3>1, <3>2
  <2>. QED
    BY <2>1, <2>2, <2>3, <2>4 DEF Soft
<1>2. w \in Codecs
  BY DEF Codecs
<1>3. /\ packets' \in Seq(Packets)
      /\ Len(packets') = Len(packets) /\ DOMAIN packets' = DOMAIN packets
  BY <1>1, <1>2, AudioSet, DataSet DEF SetAudio, SetData
<1>4. queue' \in [Codecs -> Seq(DOMAIN packets)]
  <2>. DEFINE D == DOMAIN packets
  <2>1. queue \in [Codecs -> Seq(D)] /\ queue[w] \in Seq(D) /\ queue[w] # <<>>
    BY <1>1, <1>2 DEF TypeOK, Pop
  <2>2. queue' = [queue EXCEPT ![w] = Tail(@)]
    BY <1>1 DEF Pop
  <2>. HIDE DEF D
  <2>3. Tail(queue[w]) \in Seq(D)
    BY <2>1
  <2>4. queue' \in [Codecs -> Seq(D)]
    BY <2>1, <2>2, <2>3
  <2>. QED
    BY <2>4 DEF D
<1>5. todo' \in [Codecs -> Jobs']
  BY <1>1, <1>2, <1>3, JobTyped DEF TypeOK, Jobs, Pop
<1>6. store' \in [{"data", "audio"} -> [Modules -> Seq(Voices)]]
  <2>1. CASE UNCHANGED store
    BY <2>1 DEF TypeOK
  <2>2. ASSUME NEW s \in {"data", "audio"}, NEW k \in Seq(Voices), Keep(s, packets[p].mod, k)
        PROVE  store' \in [{"data", "audio"} -> [Modules -> Seq(Voices)]]
    <3>1. [store[s] EXCEPT ![packets[p].mod] = k] \in [Modules -> Seq(Voices)]
      BY DEF TypeOK
    <3>. QED
      BY <2>2, <3>1 DEF TypeOK, Keep
  <2>. QED
    BY <1>1, <2>1, <2>2
<1>7. TypeOK'
  BY <1>1, <1>3, <1>4, <1>5, <1>6 DEF TypeOK, deviceVars
<1>8. DepthInv'
  BY <1>1 DEF DepthInv, deviceVars
<1>. QED
  BY <1>7, <1>8

LEMMA PassOnKeeps == ASSUME Inv, NEW w \in Codecs, PassOn(w) PROVE Inv'
<1>. USE DEF Inv
<1>. DEFINE p == todo[w].packet
            c == Head(todo[w].steps)
<1>1. p \in DOMAIN packets /\ c \in Codecs
  BY StepTyped DEF PassOn
<1>2. /\ queue' = [queue EXCEPT ![c] = Append(@, p)]
      /\ UNCHANGED <<latest, packets, deviceVars, store, replies>>
  BY DEF PassOn, Push
<1>. HIDE DEF p, c
<1>3. queue' \in [Codecs -> Seq(DOMAIN packets)]
  <2>1. Append(queue[c], p) \in Seq(DOMAIN packets)
    BY <1>1 DEF TypeOK
  <2>. QED
    BY <1>2, <2>1 DEF TypeOK
<1>4. todo' \in [Codecs -> Jobs]
  BY StepKept DEF PassOn
<1>5. TypeOK'
  BY <1>2, <1>3, <1>4 DEF TypeOK, Jobs, deviceVars
<1>6. DepthInv'
  BY <1>2 DEF DepthInv, deviceVars
<1>. QED
  BY <1>5, <1>6

LEMMA FinishKeeps == ASSUME Inv, NEW w \in Codecs, Finish(w) PROVE Inv'
<1>. USE DEF Inv
<1>. DEFINE p == todo[w].packet
<1>1. p \in DOMAIN packets
  BY StepTyped DEF Finish
<1>2. /\ SendToReflector(p) \/ UNCHANGED <<packets, replies>>
      /\ UNCHANGED <<latest, queue, deviceVars, store>>
  BY DEF Finish
<1>3. todo' \in [Codecs -> Jobs]
  BY StepKept DEF Finish
<1>. HIDE DEF p
<1>4. /\ packets' \in Seq(Packets)
      /\ Len(packets') = Len(packets) /\ DOMAIN packets' = DOMAIN packets
  BY <1>1, <1>2, SentSet DEF SendToReflector, TypeOK
<1>5. replies' \in [Modules -> Seq([nr : DOMAIN packets, data : [Codecs -> Seq(Voices)]])]
  <2>. DEFINE R == [nr : DOMAIN packets, data : [Codecs -> Seq(Voices)]]
              r == [nr |-> p, data |-> packets[p].data]
              m == packets[p].mod
  <2>1. r \in R /\ m \in Modules
    BY <1>1, PacketTyped
  <2>2. replies \in [Modules -> Seq(R)]
    BY DEF TypeOK
  <2>3. UNCHANGED replies \/ replies' = [replies EXCEPT ![m] = Append(@, r)]
    BY <1>2 DEF SendToReflector
  <2>. HIDE DEF R, r, m
  <2>4. Append(replies[m], r) \in Seq(R)
    BY <2>1, <2>2
  <2>5. replies' \in [Modules -> Seq(R)]
    BY <2>2, <2>3, <2>4
  <2>. QED
    BY <2>5 DEF R
<1>6. TypeOK'
  BY <1>2, <1>3, <1>4, <1>5 DEF TypeOK, Jobs, deviceVars
<1>7. DepthInv'
  BY <1>2 DEF DepthInv, deviceVars
<1>. QED
  BY <1>6, <1>7

LEMMA Invariance == Spec => []Inv
<1>1. Inv /\ [Next]_vars => Inv'
  BY Stuttering, ReaderKeeps, SoftKeeps, FeedKeeps, CountKeeps, ReadDeviceKeeps,
     BadResponseKeeps, PassOnKeeps, FinishKeeps DEF Next, Device
<1>. QED
  BY <1>1, Initially, PTL DEF Spec

-----------------------------------------------------------------------------

\* Every reachable state of tcd is well typed: whatever the devices answer,
\* queues, waiting packets and replies refer to packets that were read.
THEOREM TranscoderTypeCorrect == Spec => []TypeOK
<1>1. Inv => TypeOK
  BY DEF Inv
<1>. QED
  BY <1>1, Invariance, PTL

\* CDVDevice::FeedDevice never gives a device more than the two requests it
\* has room for, although buffer_depth is counted up after a request was sent
\* and may wrap below 0 before that.
THEOREM RoomIsKept == Spec => []RoomKept
<1>1. Inv => RoomKept
  <2>. SUFFICES ASSUME Inv, NEW d \in Devices PROVE Len(chip[d]) <= 2
    BY DEF RoomKept
  <2>1. PICK n \in 0..2 : Len(chip[d]) <= n
    BY DEF Inv, DepthInv
  <2>2. Len(chip[d]) \in Nat
    BY DEF Inv, TypeOK
  <2>. QED
    BY <2>1, <2>2
<1>. QED
  BY <1>1, Invariance, PTL
=============================================================================
