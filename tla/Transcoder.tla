----------------------------- MODULE Transcoder -----------------------------
(***************************************************************************)
(* The transcoder daemon tcd (transcoder/Controller.cpp, DVSIDevice.cpp,   *)
(* DV3003.cpp).  A packet comes from the reflector with its voice in one   *)
(* codec; the vocoder of that codec decodes it and passes it to the three  *)
(* others; whoever finds all four codecs set sends it back.  D-Star and    *)
(* DMR are vocoded by hardware, each fed by one thread and read by         *)
(* another; M17 and P25 by one thread each.  All modules share them.       *)
(***************************************************************************)
EXTENDS Naturals, SequencesExt

CONSTANTS
  Modules,     \* the transcoded modules
  CodecIns,    \* the codecs talkers use
  MaxPackets,  \* bound of the model: packets from the reflector
  DepthRange,  \* 2^32, the range of buffer_depth
  Timely,      \* a module's next transmission begins when all is sent back
  Faulty       \* responses of the hardware may be bad

\* AddPacket raises SIGINT, which ends tcd, when 200 packets wait for a device.
ASSUME TranscoderAssumption ==
  /\ CodecIns \subseteq {"dstar", "dmr", "p25", "c2_1600", "c2_3200"}
  /\ MaxPackets \in 1..200
  /\ DepthRange \in Nat /\ DepthRange > 3
  /\ Timely \in BOOLEAN
  /\ Faulty \in BOOLEAN

VARIABLES
  latest,    \* the last packet the reflector sent for each module, or 0
  packets,   \* the CTranscoderPackets, in the order in which they were read
  queue,     \* codec2_queue, imbe_queue, and input_queue of the devices
  todo,      \* what each vocoder's thread has to do with its packet
  busy,      \* feed threads that have not counted what they sent
  depth,     \* buffer_depth
  waiting,   \* waiting_packet of each channel of the devices
  chip,      \* what the hardware has to answer
  store,     \* data_store and audio_store
  replies    \* what was sent to the reflector on each module's socket

deviceVars == <<busy, depth, waiting, chip>>
vars == <<latest, packets, queue, todo, deviceVars, store, replies>>

-----------------------------------------------------------------------------
Devices == {"dstar", "dmr"}
Codecs  == Devices \cup {"m17", "p25"}

\* The vocoder that decodes what came in as codec c.
Home(c) == IF c \in {"c2_1600", "c2_3200"} THEN "m17" ELSE c

\* Where a vocoder pushes what it has decoded.
Others ==
  [dstar |-> <<"m17", "p25", "dmr">>,
   dmr   |-> <<"m17", "p25", "dstar">>,
   m17   |-> <<"dstar", "dmr", "p25">>,
   p25   |-> <<"dstar", "dmr", "m17">>]

\* 20 ms of voice.  The data of a codec and the audio of a packet are sequences
\* of voices: empty before they are set, and two in an M17 packet.
Voices == [mod : Modules, stream : Nat, seq : Nat]
Voice(p) == [mod |-> packets[p].mod, stream |-> packets[p].stream, seq |-> packets[p].seq]

Packets ==
  [mod : Modules, codec : CodecIns, stream : Nat, seq : Nat,
   data : [Codecs -> Seq(Voices)], audio : Seq(Voices), sent : BOOLEAN]

IsSecond(p) == packets[p].seq % 2 = 1
IsSource(w, p) == w = Home(packets[p].codec)
AllCodecsAreSet(p) == \A c \in Codecs : packets[p].data[c] # <<>>

\* What a vocoder does next with a packet it has decoded or encoded.
Idle == [packet |-> 0, steps |-> <<>>]
Jobs ==
  {Idle} \cup
    [packet : DOMAIN packets, steps : Seq(Codecs \cup {"reflector"}) \ {<<>>}]
\* Mutant: the P25 thread does not look whether its codec was the last.
JobLooksNot(w, p) ==
  [packet |-> p, steps |-> IF IsSource(w, p) THEN Others[w]
                           ELSE IF w = "p25" THEN <<>> ELSE <<"reflector">>]
Job(w, p) ==
  [packet |-> p, steps |-> IF IsSource(w, p) THEN Others[w] ELSE <<"reflector">>]
IsIdle(w) == todo[w].steps = <<>>

Requests == [mod : Modules, kind : {"speech", "channel"}, voice : Seq(Voices)]

TypeOK ==
  /\ latest \in [Modules -> 0..Len(packets)]
  /\ packets \in Seq(Packets)
  /\ Len(packets) <= MaxPackets
  /\ queue \in [Codecs -> Seq(DOMAIN packets)]
  /\ todo \in [Codecs -> Jobs]
  /\ busy \subseteq Devices
  /\ depth \in [Devices -> 0..DepthRange - 1]
  /\ waiting \in [Devices -> [Modules -> Seq(DOMAIN packets)]]
  /\ chip \in [Devices -> Seq(Requests)]
  /\ store \in [{"data", "audio"} -> [Modules -> Seq(Voices)]]
  /\ replies \in [Modules -> Seq([nr : DOMAIN packets, data : [Codecs -> Seq(Voices)]])]

Init ==
  /\ latest = [m \in Modules |-> 0]
  /\ packets = <<>>
  /\ queue = [c \in Codecs |-> <<>>]
  /\ todo = [c \in Codecs |-> Idle]
  /\ busy = {}
  /\ depth = [d \in Devices |-> 0]
  /\ waiting = [d \in Devices |-> [m \in Modules |-> <<>>]]
  /\ chip = [d \in Devices |-> <<>>]
  /\ store = [s \in {"data", "audio"} |-> [m \in Modules |-> <<>>]]
  /\ replies = [m \in Modules |-> <<>>]

-----------------------------------------------------------------------------
(***************************************************************************)
(* ReadReflectorThread.                                                    *)
(***************************************************************************)
Push(c, p) == queue' = [queue EXCEPT ![c] = Append(@, p)]

ReadReflector(m, codec, stream, seq) ==
  LET voice == [mod |-> m, stream |-> stream, seq |-> seq]
      p == Len(packets) + 1
  IN  /\ Len(packets) < MaxPackets
      /\ packets' = Append(packets,
           [mod |-> m, codec |-> codec, stream |-> stream, seq |-> seq,
            data |-> [c \in Codecs |-> IF c = Home(codec) THEN <<voice>> ELSE <<>>],
            audio |-> <<>>, sent |-> FALSE])
      /\ latest' = [latest EXCEPT ![m] = p]
      /\ Push(Home(codec), p)
      /\ UNCHANGED <<todo, deviceVars, store, replies>>

\* The reflector sends the next packet of a transmission.
NextPacket ==
  \E m \in Modules :
    /\ latest[m] # 0
    /\ LET last == packets[latest[m]]
       IN  ReadReflector(m, last.codec, last.stream, last.seq + 1)

\* The reflector sends the first packet of another transmission.
FirstPacket ==
  \E m \in Modules, codec \in CodecIns :
    /\ Timely => \A p \in DOMAIN packets : packets[p].mod = m => packets[p].sent
    /\ ReadReflector(m, codec, IF latest[m] = 0 THEN 1 ELSE packets[latest[m]].stream + 1, 0)

-----------------------------------------------------------------------------
(***************************************************************************)
(* The feed and read threads of a device.                                  *)
(***************************************************************************)
\* Mutant: every request goes to the first channel.
RequestOnFirst(d, p) ==
  [mod   |-> CHOOSE m \in Modules : TRUE,
   kind  |-> IF packets[p].data[d] # <<>> THEN "speech" ELSE "channel",
   voice |-> IF packets[p].data[d] # <<>> THEN packets[p].data[d] ELSE packets[p].audio]

Request(d, p) ==
  [mod   |-> packets[p].mod,
   kind  |-> IF packets[p].data[d] # <<>> THEN "speech" ELSE "channel",
   voice |-> IF packets[p].data[d] # <<>> THEN packets[p].data[d] ELSE packets[p].audio]

Feed(d) ==
  /\ d \notin busy
  /\ queue[d] # <<>>
  /\ depth[d] < 2
  /\ LET p == Head(queue[d])
         m == packets[p].mod
     IN  /\ waiting' = [waiting EXCEPT ![d][m] = Append(@, p)]
         /\ chip' = [chip EXCEPT ![d] = Append(@, Request(d, p))]
  /\ queue' = [queue EXCEPT ![d] = Tail(@)]
  /\ busy' = busy \cup {d}
  /\ UNCHANGED <<latest, packets, todo, depth, store, replies>>

\* buffer_depth++, after the request was sent.
Count(d) ==
  /\ d \in busy
  /\ depth' = [depth EXCEPT ![d] = (@ + 1) % DepthRange]
  /\ busy' = busy \ {d}
  /\ UNCHANGED <<latest, packets, queue, todo, waiting, chip, store, replies>>

\* The hardware answers the channels in any order, each channel in its order.
Answers(d, i) ==
  /\ i \in DOMAIN chip[d]
  /\ \A j \in 1..i - 1 : chip[d][j].mod # chip[d][i].mod
  /\ chip' = [chip EXCEPT ![d] = RemoveAt(@, i)]

\* PopWaitingPacket.
PopWaiting(d, m) ==
  /\ waiting[d][m] # <<>>
  /\ waiting' = [waiting EXCEPT ![d][m] = Tail(@)]

\* buffer_depth--, of an unsigned number.
CountDown(n) == (n + DepthRange - 1) % DepthRange

\* ReadDevice and ProcessPacket: an answer goes to the packet that has waited
\* longest on its channel.
ReadDevice(d) ==
  \E i \in DOMAIN chip[d] :
    LET answer == chip[d][i]
        p == Head(waiting[d][answer.mod])
    IN  /\ IsIdle(d)
        /\ Answers(d, i)
        /\ PopWaiting(d, answer.mod)
        /\ depth' = [depth EXCEPT ![d] = CountDown(@)]
        /\ packets' = IF answer.kind = "speech"
                      THEN [packets EXCEPT ![p].audio = answer.voice]
                      ELSE [packets EXCEPT ![p].data[d] = answer.voice]
        /\ todo' = [todo EXCEPT ![d] = Job(d, p)]
        /\ UNCHANGED <<latest, queue, busy, store, replies>>

\* A response that is neither speech nor data: the packet is dropped, and
\* buffer_depth keeps counting it.
UnexpectedResponse(d) ==
  /\ Faulty
  /\ IsIdle(d)
  /\ \E i \in DOMAIN chip[d] :
       Answers(d, i) /\ PopWaiting(d, chip[d][i].mod)
  /\ UNCHANGED <<latest, packets, queue, todo, busy, depth, store, replies>>

\* GetResponse fails, or the request was not written: the packet stays where it
\* waits, and the next answer on its channel goes to it.
NoResponse(d) ==
  /\ Faulty
  /\ \E i \in DOMAIN chip[d] : Answers(d, i)
  /\ UNCHANGED <<latest, packets, queue, todo, busy, depth, waiting, store, replies>>

-----------------------------------------------------------------------------
(***************************************************************************)
(* ProcessC2Thread and ProcessIMBEThread.                                  *)
(***************************************************************************)
Pop(w, p) ==
  /\ IsIdle(w)
  /\ queue[w] # <<>>
  /\ p = Head(queue[w])
  /\ queue' = [queue EXCEPT ![w] = Tail(@)]
  /\ todo' = [todo EXCEPT ![w] = Job(w, p)]

SetAudio(p, audio) == packets' = [packets EXCEPT ![p].audio = audio]
SetData(c, p, data) == packets' = [packets EXCEPT ![p].data[c] = data]
Keep(s, m, voice) == store' = [store EXCEPT ![s][m] = voice]

\* c2_1600 holds 40 ms of voice: the next 20 ms are kept for the next packet.
Codec2toAudio ==
  \E p \in DOMAIN packets :
    LET m == packets[p].mod
    IN  /\ Pop("m17", p)
        /\ IsSource("m17", p)
        /\ \/ /\ packets[p].codec = "c2_1600" /\ IsSecond(p)
              /\ SetAudio(p, store["audio"][m])
              /\ UNCHANGED store
           \/ /\ packets[p].codec = "c2_1600" /\ ~IsSecond(p)
              /\ SetAudio(p, packets[p].data["m17"])
              /\ Keep("audio", m, <<[Voice(p) EXCEPT !.seq = @ + 1]>>)
           \/ /\ packets[p].codec = "c2_3200"
              /\ SetAudio(p, packets[p].data["m17"])
              /\ UNCHANGED store
        /\ UNCHANGED <<latest, deviceVars, replies>>

\* Mutant: the first half is not kept.
AudiotoCodec2Forgets ==
  \E p \in DOMAIN packets :
    LET m == packets[p].mod
    IN  /\ Pop("m17", p)
        /\ ~IsSource("m17", p)
        /\ SetData("m17", p, IF IsSecond(p) THEN store["data"][m] \o packets[p].audio
                             ELSE packets[p].audio)
        /\ UNCHANGED <<latest, store, deviceVars, replies>>

\* The first half of an M17 packet is kept for the second.
AudiotoCodec2 ==
  \E p \in DOMAIN packets :
    LET m == packets[p].mod
    IN  /\ Pop("m17", p)
        /\ ~IsSource("m17", p)
        /\ \/ /\ IsSecond(p)
              /\ SetData("m17", p, store["data"][m] \o packets[p].audio)
              /\ UNCHANGED store
           \/ /\ ~IsSecond(p)
              /\ SetData("m17", p, packets[p].audio)
              /\ Keep("data", m, packets[p].audio)
        /\ UNCHANGED <<latest, deviceVars, replies>>

IMBEtoAudio ==
  \E p \in DOMAIN packets :
    /\ Pop("p25", p)
    /\ IsSource("p25", p)
    /\ SetAudio(p, packets[p].data["p25"])
    /\ UNCHANGED <<latest, store, deviceVars, replies>>

AudiotoIMBE ==
  \E p \in DOMAIN packets :
    /\ Pop("p25", p)
    /\ ~IsSource("p25", p)
    /\ SetData("p25", p, packets[p].audio)
    /\ UNCHANGED <<latest, store, deviceVars, replies>>

-----------------------------------------------------------------------------
(***************************************************************************)
(* What every vocoder does with the packet it has finished: push it to the *)
(* others, one after the other, or send it back if it is complete.         *)
(***************************************************************************)
Rest(job) ==
  IF Len(job.steps) = 1 THEN Idle ELSE [job EXCEPT !.steps = Tail(job.steps)]
StepDone(w) == todo' = [todo EXCEPT ![w] = Rest(todo[w])]

PassOn(w) ==
  /\ ~IsIdle(w)
  /\ Head(todo[w].steps) # "reflector"
  /\ Push(Head(todo[w].steps), todo[w].packet)
  /\ StepDone(w)
  /\ UNCHANGED <<latest, packets, deviceVars, store, replies>>

\* Mutant: nobody looks whether the packet was sent.
CompleteAgain(p) == AllCodecsAreSet(p)

Complete(p) == AllCodecsAreSet(p) /\ ~packets[p].sent

SendToReflector(p) ==
  /\ packets' = [packets EXCEPT ![p].sent = TRUE]
  /\ replies' = [replies EXCEPT ![packets[p].mod] =
                   Append(@, [nr |-> p, data |-> packets[p].data])]

\* Under send_mux.
Finish(w) ==
  /\ ~IsIdle(w)
  /\ Head(todo[w].steps) = "reflector"
  /\ LET p == todo[w].packet
     IN  \/ Complete(p) /\ SendToReflector(p)
         \/ ~Complete(p) /\ UNCHANGED <<packets, replies>>
  /\ StepDone(w)
  /\ UNCHANGED <<latest, queue, deviceVars, store>>

-----------------------------------------------------------------------------
Device(d) == Feed(d) \/ Count(d) \/ ReadDevice(d)
Soft == Codec2toAudio \/ AudiotoCodec2 \/ IMBEtoAudio \/ AudiotoIMBE

Next ==
  \/ NextPacket \/ FirstPacket
  \/ Soft
  \/ \E d \in Devices : Device(d) \/ UnexpectedResponse(d) \/ NoResponse(d)
  \/ \E w \in Codecs : PassOn(w) \/ Finish(w)

Spec == Init /\ [][Next]_vars

\* Every thread runs, and the hardware answers.
FairSpec ==
  /\ Spec
  /\ \A d \in Devices : WF_vars(Feed(d)) /\ WF_vars(Count(d)) /\ WF_vars(ReadDevice(d))
  /\ WF_vars(Codec2toAudio \/ AudiotoCodec2) /\ WF_vars(IMBEtoAudio \/ AudiotoIMBE)
  /\ \A w \in Codecs : WF_vars(PassOn(w) \/ Finish(w))
=============================================================================
