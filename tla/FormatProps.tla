----------------------------- MODULE FormatProps -----------------------------
(***************************************************************************)
(* How packets go out and come in: each part is a module of its own, and   *)
(* their properties are here side by side.  The initial state chooses one  *)
(* part; the variables of the others stay 0.                               *)
(***************************************************************************)
EXTENDS Naturals, Sequences, FiniteSets

CONSTANTS
  Parts,  \* the parts that are looked at
  None    \* as in Fanout

VARIABLE part

-----------------------------------------------------------------------------
\* What the clients of one protocol get.
CONSTANTS Watched, Clients, Modules, Transcoded, Prompt, Period, MaxTalks, MaxFrames, MaxQueue
VARIABLES protocol, linked, talks, now, codec, stream, queue, cache, out

FanoutPart == INSTANCE FanoutProps

fanoutVars == <<protocol, linked, talks, now, codec, stream, queue, cache, out>>
NoFanout ==
  /\ protocol = 0 /\ linked = 0 /\ talks = 0 /\ now = 0 /\ codec = 0 /\ stream = 0
  /\ queue = 0 /\ cache = 0 /\ out = 0

-----------------------------------------------------------------------------
\* The numbers and groups of voice packets.
CONSTANTS Sources, Frames, Talks, MaxLost
VARIABLES source, path, talk, pid, seq, slots, heard, missing, junk

Groups == INSTANCE Superframes WITH cache <- slots

superframesVars == <<source, path, talk, pid, seq, slots, heard, missing, junk>>
NoSuperframes ==
  /\ source = 0 /\ path = 0 /\ talk = 0 /\ pid = 0 /\ seq = 0 /\ slots = 0 /\ heard = 0
  /\ missing = 0 /\ junk = 0

-----------------------------------------------------------------------------
\* What one reflector encodes, and what another takes it for.
CONSTANT Links
VARIABLES link, sent, meaning

WiresPart == INSTANCE Wires WITH Protocols <- Links, protocol <- link

wiresVars == <<link, sent, meaning>>
NoWires == link = 0 /\ sent = 0 /\ meaning = 0

-----------------------------------------------------------------------------
\* The codes.
CONSTANTS Kinds, Samples
VARIABLES code, data, word, flips, got, metrics, decisions, back

LinkPart == INSTANCE NoisyLink

noisyVars == <<code, data, word, flips, got, metrics, decisions, back>>
NoNoise ==
  /\ code = 0 /\ data = 0 /\ word = 0 /\ flips = 0 /\ got = 0 /\ metrics = 0 /\ decisions = 0
  /\ back = 0

-----------------------------------------------------------------------------

\* What the constants have to be.
ASSUME FormatsAssumption ==
  /\ FanoutPart!FanoutAssumption
  /\ Groups!SuperframesAssumption
  /\ WiresPart!WiresAssumption

vars == <<part, fanoutVars, superframesVars, wiresVars, noisyVars>>

Init ==
  /\ part \in Parts
  /\ IF part = "fanout" THEN FanoutPart!Init ELSE NoFanout
  /\ IF part = "superframes" THEN Groups!Init ELSE NoSuperframes
  /\ IF part = "wires" THEN WiresPart!Init ELSE NoWires
  /\ IF part = "codes" THEN LinkPart!Init ELSE NoNoise

InFanout ==
  /\ part = "fanout" /\ FanoutPart!Next
  /\ UNCHANGED <<part, superframesVars, wiresVars, noisyVars>>
InSuperframes ==
  /\ part = "superframes" /\ Groups!Next
  /\ UNCHANGED <<part, fanoutVars, wiresVars, noisyVars>>
InWires ==
  /\ part = "wires" /\ WiresPart!Next
  /\ UNCHANGED <<part, fanoutVars, superframesVars, noisyVars>>
InNoisyLink ==
  /\ part = "codes" /\ LinkPart!Next
  /\ UNCHANGED <<part, fanoutVars, superframesVars, wiresVars>>

Next == InFanout \/ InSuperframes \/ InWires \/ InNoisyLink

Spec == Init /\ [][Next]_vars

-----------------------------------------------------------------------------
\* The properties are those of the parts.

\* What goes out has the header of its own transmission and, where nothing gets
\* lost, frames that belong together: see FanoutProps.
WholeGroups == part = "fanout" => FanoutPart!RightHeader /\ FanoutPart!WholeGroups

\* Nobody hears himself, and peers only what comes from here: see FanoutProps.
NoEcho == part = "fanout" => FanoutPart!NoEcho

\* Where nothing gets lost the listeners hear the end of each transmission: see
\* FanoutProps.
EndsHeard == part = "fanout" => FanoutPart!EndsHeard

\* On each module things go out in the order they were said: see FanoutProps.
HeardInOrder == [][part = "fanout" => FanoutPart!InOrder]_vars

\* A transmission is heard in every mode, whatever the mode of the talker, but
\* for what the numbers and groups lose: see Superframes.
HeardInAllModes == part = "superframes" => Groups!HeardInAllModes

\* What one reflector encodes, another takes for what it is: see Wires.
DatagramsUnderstood == part = "wires" => WiresPart!DatagramsUnderstood

\* What was encoded is decoded in spite of the errors that the code repairs: see
\* NoisyLink.
ErrorsRepaired == part = "codes" => LinkPart!ErrorsRepaired
=============================================================================
