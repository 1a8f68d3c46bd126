------------------------------ MODULE SharedIds ------------------------------
(***************************************************************************)
(* Stream ids of the protocols whose packets have none                     *)
(* (reflector/NXDNProtocol.cpp, P25Protocol.cpp).  The thread draws an id  *)
(* for a transmission and keeps it in m_uiStreamId, one for all stations,  *)
(* until a terminator comes.                                               *)
(*                                                                         *)
(* Each station is linked to a module.  Its packets and terminators may    *)
(* get lost.  Streams close when nothing has come for STREAM_TIMEOUT.      *)
(***************************************************************************)
EXTENDS Naturals, FiniteSets

CONSTANTS
  Watched,  \* the protocols one of which is looked at
  Stations, \* clients of the protocol
  Modules,  \* the modules configured
  Linked,   \* m_ReflectorModule of each client
  Ids,      \* what rand() returns
  NoId,     \* 0
  ZeroId,   \* another whose 16 bits, which are all that packets carry, are 0
  None      \* no stream, nobody

\* What the constants have to be.
SharedIdsAssumption ==
  /\ Watched \subseteq {"nxdn", "p25"}
  /\ Linked \in [Stations -> Modules]
  /\ {NoId, ZeroId} \subseteq Ids
  /\ None \notin Stations \cup Modules \cup Ids

VARIABLES
  protocol,  \* the protocol that is looked at
  talking,   \* the stations that talk
  id,        \* m_uiStreamId of the protocol
  sid,       \* m_uiStreamId of each CPacketStream
  owner,     \* m_OwnerClient of each CPacketStream
  fresh,     \* no STREAM_TIMEOUT since the last packet
  handles,   \* m_Streams: stream id -> module
  voice,     \* what became of the last frames of each: "none", "heard", "dropped"
  noHeader   \* Task has used a header that was not made

stationVars == <<talking, voice>>
streamVars == <<sid, owner, fresh, handles>>
vars == <<protocol, stationVars, id, streamVars, noHeader>>

TypeOK ==
  /\ protocol \in Watched
  /\ talking \subseteq Stations
  /\ voice \in [Stations -> {"none", "heard", "dropped"}]
  /\ id \in Ids
  /\ sid \in [Modules -> Ids]
  /\ owner \in [Modules -> Stations \cup {None}]
  /\ fresh \in [Modules -> BOOLEAN]
  /\ handles \in [Ids -> Modules \cup {None}]
  /\ noHeader \in BOOLEAN

Init ==
  /\ protocol \in Watched
  /\ talking = {}
  /\ voice = [c \in Stations |-> "none"]
  /\ id = NoId
  /\ sid = [m \in Modules |-> NoId]
  /\ owner = [m \in Modules |-> None]
  /\ fresh = [m \in Modules |-> FALSE]
  /\ handles = [i \in Ids |-> None]
  /\ noHeader = FALSE

\* GetStream with the address of the station.
GetStream(i, c) == IF handles[i] # None /\ owner[handles[i]] = c THEN handles[i] ELSE None

-----------------------------------------------------------------------------

\* Mutant: the thread keeps the handle under the id of the header.
KeepHeader(handle, i) == i

\* The id under which the thread keeps the stream that OpenStream returned.
Keep(handle, i) == handle

\* OnDvHeaderPacketIn with a new id: OpenStream refuses id 0, a master, an id
\* that is open and a module that is not free, of which it yet returns the stream.
OnDvHeaderPacketIn(c, i) ==
  LET m == Linked[c]
      refused == \/ i \in {NoId, ZeroId}
                 \/ \E n \in Modules : owner[n] = c \/ sid[n] = i
      opened == ~refused /\ sid[m] = NoId
  IN  /\ sid' = IF opened THEN [sid EXCEPT ![m] = i] ELSE sid
      /\ owner' = IF opened THEN [owner EXCEPT ![m] = c] ELSE owner
      /\ handles' = IF refused THEN handles ELSE [handles EXCEPT ![Keep(sid'[m], i)] = m]

\* OnDvFramePacketIn, for frames with id i, after the header if there was one.
OnDvFramePacketIn(c, i) ==
  LET found == handles'[i] # None /\ owner'[handles'[i]] = c
  IN  /\ fresh' = IF found THEN [fresh EXCEPT ![handles'[i]] = TRUE]
                  ELSE IF sid' # sid THEN [fresh EXCEPT ![Linked[c]] = TRUE] ELSE fresh
      /\ voice' = [voice EXCEPT ![c] = IF found THEN "heard" ELSE "dropped"]

\* Mutant: any id there is will do.
KnowsOf(c) == id # NoId

\* Is there a stream for the id, and is it this station's?
Knows(c) == GetStream(id, c) # None

\* Do frames come with a header?  With NXDN any that find no stream do, with P25
\* only the first of a superframe, and only while there is no id.
Opens(c, first) == ~Knows(c) /\ (protocol = "p25" => first /\ id = NoId)

\* The id in the frames: P25 makes the frame of a packet before its header.
FrameId == IF protocol = "p25" THEN id ELSE id'

\* A packet with frames.
Frames(c, first) ==
  /\ c \in talking
  /\ IF Opens(c, first)
     THEN /\ id' \in Ids
          /\ OnDvHeaderPacketIn(c, id')
     ELSE UNCHANGED <<id, sid, owner, handles>>
  /\ OnDvFramePacketIn(c, FrameId)
  /\ UNCHANGED <<protocol, talking, noHeader>>

\* A station begins to talk.  NXDN stations announce it: the header is made
\* unless there is a stream, and used whether it was made or not.
Begin(c) ==
  /\ c \notin talking
  /\ talking' = talking \cup {c}
  /\ \/ UNCHANGED <<id, streamVars, noHeader>>
     \/ /\ protocol = "nxdn" /\ ~Knows(c)
        /\ id' \in Ids
        /\ OnDvHeaderPacketIn(c, id')
        /\ fresh' = IF sid' # sid THEN [fresh EXCEPT ![Linked[c]] = TRUE] ELSE fresh
        /\ UNCHANGED noHeader
     \/ /\ protocol = "nxdn" /\ Knows(c)
        /\ noHeader' = TRUE
        /\ UNCHANGED <<id, streamVars>>
  /\ UNCHANGED <<protocol, voice>>

\* A station stops.  Its terminator takes the id away, and has none itself.
Stop(c, lost) ==
  /\ c \in talking
  /\ talking' = talking \ {c}
  /\ voice' = [voice EXCEPT ![c] = "none"]
  /\ id' = IF lost THEN id ELSE NoId
  /\ UNCHANGED <<protocol, streamVars, noHeader>>

\* Time passes without a packet for the stream, and CheckStreamsTimeout closes it.
Silence(m) ==
  /\ fresh[m]
  /\ fresh' = [fresh EXCEPT ![m] = FALSE]
  /\ UNCHANGED <<protocol, stationVars, id, sid, owner, handles, noHeader>>

Close(i) ==
  /\ handles[i] # None /\ ~fresh[handles[i]]
  /\ sid' = [sid EXCEPT ![handles[i]] = NoId]
  /\ owner' = [owner EXCEPT ![handles[i]] = None]
  /\ handles' = [handles EXCEPT ![i] = None]
  /\ UNCHANGED <<protocol, stationVars, id, fresh, noHeader>>

Next ==
  \/ \E c \in Stations :
       \/ Begin(c)
       \/ \E first \in BOOLEAN : Frames(c, first)
       \/ \E lost \in BOOLEAN : Stop(c, lost)
  \/ \E m \in Modules : Silence(m)
  \/ \E i \in Ids : Close(i)

Spec == Init /\ [][Next]_vars

-----------------------------------------------------------------------------

(***************************************************************************)
(* Every open stream is one that the thread finds by its id, and so times  *)
(* out, and every handle leads to the stream with that id: a new id never  *)
(* leaves a stream behind.                                                 *)
(***************************************************************************)
HandlesLead ==
  /\ \A m \in Modules : sid[m] # NoId => handles[sid[m]] = m
  /\ \A i \in Ids : handles[i] # None => sid[handles[i]] = i

(***************************************************************************)
(* A station that has no stream and talks on a free module opens it, and   *)
(* its thread knows the stream by the id it now has, whatever id an        *)
(* earlier transmission left behind: always with NXDN, with P25 if a       *)
(* terminator took the id away.  (Unless the id drawn is 0 or in use.)     *)
(* With NXDN these frames are heard already.  P25 drops the frame of the   *)
(* packet that opens, as it dropped those before, and is heard from the    *)
(* next on: once a stream is known, what comes is heard.                   *)
(***************************************************************************)
FreeIsHeard ==
  \A c \in Stations :
    /\ /\ Frames(c, TRUE)
       /\ owner[Linked[c]] = None /\ \A m \in Modules : owner[m] # c
       /\ protocol = "p25" => id = NoId
       /\ id' \notin {NoId, ZeroId} /\ \A m \in Modules : sid[m] # id'
       => /\ GetStream(id, c)' = Linked[c]
          /\ voice'[c] = IF protocol = "nxdn" THEN "heard" ELSE "dropped"
    /\ \A first \in BOOLEAN :
         Frames(c, first) /\ GetStream(id, c) # None => voice'[c] = "heard"

(***************************************************************************)
(* The header that Task uses has been made (NXDNProtocol.cpp:106).         *)
(***************************************************************************)
HeaderMade == ~noHeader

-----------------------------------------------------------------------------
(***************************************************************************)
(* The inductive invariant behind both: no handle is kept under no id, and *)
(* a stream without id is one without owner, so that a free module opens.  *)
(***************************************************************************)
Inv ==
  /\ TypeOK
  /\ HandlesLead
  /\ handles[NoId] = None
  /\ \A m \in Modules : sid[m] = NoId <=> owner[m] = None
=============================================================================
