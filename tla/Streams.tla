------------------------------- MODULE Streams -------------------------------
(***************************************************************************)
(* The life of a voice stream in urfd (reflector/).                        *)
(*                                                                         *)
(* Every configured module owns one CPacketStream.  A talker's header      *)
(* packet makes the thread of its protocol open the stream of a module     *)
(* (CReflector::OpenStream), its voice frames are pushed on the queue of   *)
(* the stream, the router thread of the module empties that queue, and     *)
(* when the stream has been silent for STREAM_TIMEOUT every protocol       *)
(* thread that holds a handle on it closes it (CReflector::CloseStream).   *)
(*                                                                         *)
(* One program counter per protocol thread; a step is what the thread does *)
(* between two points where another thread can see it: the clients mutex   *)
(* is a variable, and the fields of a CPacketStream, which no mutex        *)
(* protects, are read and written in the order of the source.              *)
(***************************************************************************)
EXTENDS Naturals, FiniteSets

CONSTANTS
  Active,      \* the protocols whose threads run
  Clients,     \* client objects: each is listed at most once in its life
  ProtoOf,     \* the protocol of each client
  Modules,     \* the modules configured, one CPacketStream each
  StreamIds,   \* the stream ids talkers put in their headers
  Reach,       \* Reach[p]: the modules that packets received by p can name
  MaxQueue,    \* bound of the model: packets waiting in one stream queue
  NoClient,    \* nullptr
  NoModule,    \* ' ', or a letter that is not a configured module
  NoSid        \* stream id 0: "not open"

\* The order of CProtocols::Init.
Protocols == {"dextra", "dplus", "dcs", "mmdvm", "ysf", "m17", "p25", "nxdn", "urf"}

ASSUME ConstantsAssumption ==
  /\ Active \subseteq Protocols
  /\ ProtoOf \in [Clients -> Active]
  /\ Reach \in [Active -> SUBSET Modules]
  /\ MaxQueue \in Nat \ {0}
  /\ NoClient \notin Clients
  /\ NoModule \notin Modules
  /\ NoSid \notin StreamIds

\* CM17Protocol::OnDvHeaderPacketIn releases the clients before OpenStream.
OpensUnlocked == {"m17"}

\* The two callers of GetStream that pass the talker's address; the others
\* pass nullptr, for which GetStream finds nothing.
FindsByIp == {"m17", "p25"}

\* Voice packets that are their own header: those of M17 and DCS always, those
\* of P25 while it has no stream id, and for YSF, MMDVM and NXDN a "late entry".
WithVoice   == {"m17", "dcs", "p25", "ysf", "mmdvm", "nxdn"}
AlwaysVoice == {"m17", "dcs", "p25"}

\* Protocols whose clients may be listed without a module.
ConnectsUnlinked == {"dplus", "mmdvm", "ysf", "p25", "nxdn"}

VARIABLES
  listed,    \* m_Clients of CClients
  gone,      \* clients removed from it
  master,    \* m_ModuleMastered of each client
  linked,    \* m_ReflectorModule of each client
  sid,       \* m_uiStreamId of each CPacketStream
  owner,     \* m_OwnerClient of each CPacketStream
  fresh,     \* m_LastPacketTime is younger than STREAM_TIMEOUT
  queued,    \* length of m_Queue of each CPacketStream
  handles,   \* m_Streams of each CProtocol: stream id -> stream
  lock,      \* the thread that holds CClients::m_Mutex, if any
  pc,        \* where each protocol thread is
  todo,      \* handles CheckStreamsTimeout has still to look at
  op         \* the call to OpenStream or CloseStream in progress

streamVars == <<sid, owner, fresh, queued>>
clientVars == <<listed, gone, master, linked>>
threadVars == <<handles, lock, pc, todo, op>>
vars == <<clientVars, streamVars, threadVars>>

-----------------------------------------------------------------------------

\* Program points of a protocol thread.  "receive" is the head of Task; "check"
\* to "keep" are inside OpenStream, the last one back in OnDvHeaderPacketIn;
\* "voice" is before the frames of a packet whose header was handled; "scan" to
\* "disown" are CheckStreamsTimeout and the CloseStream it calls.
Opening == {"check", "test", "claim", "fill", "mark", "keep"}
Closing == {"drain", "unmaster", "zero", "disown"}
Points  == {"receive", "voice", "scan", "keepalive"} \cup Opening \cup Closing

\* Nobody holds the clients mutex.
Free == "free"

Sids  == StreamIds \cup {NoSid}
Calls == [client : Clients \cup {NoClient}, sid : Sids, module : Modules \cup {NoModule}]
NoCall == [client |-> NoClient, sid |-> NoSid, module |-> NoModule]

TypeOK ==
  /\ listed \subseteq Clients
  /\ gone \subseteq Clients
  /\ master \in [Clients -> Modules \cup {NoModule}]
  /\ linked \in [Clients -> Modules \cup {NoModule}]
  /\ sid \in [Modules -> Sids]
  /\ owner \in [Modules -> Clients \cup {NoClient}]
  /\ fresh \in [Modules -> BOOLEAN]
  /\ queued \in [Modules -> 0..MaxQueue]
  /\ handles \in [Active -> [Sids -> Modules \cup {NoModule}]]
  /\ lock \in Active \cup {Free}
  /\ pc \in [Active -> Points]
  /\ todo \in [Active -> SUBSET Sids]
  /\ op \in [Active -> Calls]

Init ==
  /\ listed = {}
  /\ gone = {}
  /\ master = [c \in Clients |-> NoModule]
  /\ linked = [c \in Clients |-> NoModule]
  /\ sid = [m \in Modules |-> NoSid]
  /\ owner = [m \in Modules |-> NoClient]
  /\ fresh = [m \in Modules |-> TRUE]
  /\ queued = [m \in Modules |-> 0]
  /\ handles = [p \in Active |-> [s \in Sids |-> NoModule]]
  /\ lock = Free
  /\ pc = [p \in Active |-> "receive"]
  /\ todo = [p \in Active |-> {}]
  /\ op = [p \in Active |-> NoCall]

IsAMaster(c) == master[c] # NoModule
ClientsOf(p) == {c \in listed : ProtoOf[c] = p}
Held(h)      == {s \in Sids : h[s] # NoModule}

Goto(p, point) == pc' = [pc EXCEPT ![p] = point]

\* CPacketStream::Push: the timer restarts and the packet is queued.
Push(m) ==
  /\ queued[m] < MaxQueue
  /\ queued' = [queued EXCEPT ![m] = @ + 1]
  /\ fresh' = [fresh EXCEPT ![m] = TRUE]

\* Mutant: CheckStreamsTimeout is not called.
NeverScan(p, h) ==
  /\ Goto(p, "scan")
  /\ todo' = [todo EXCEPT ![p] = {}]
  /\ op' = [op EXCEPT ![p] = NoCall]

\* The end of the packet handling of Task: CheckStreamsTimeout comes next.
Scan(p, h) ==
  /\ Goto(p, "scan")
  /\ todo' = [todo EXCEPT ![p] = Held(h)]
  /\ op' = [op EXCEPT ![p] = NoCall]

\* The header of a packet is handled: its frames come next, if it has any.
HeaderDone(p, call, h) ==
  \/ /\ p \in WithVoice
     /\ Goto(p, "voice")
     /\ op' = [op EXCEPT ![p] = [call EXCEPT !.module = NoModule]]
     /\ UNCHANGED todo
  \/ /\ p \notin AlwaysVoice
     /\ Scan(p, h)

-----------------------------------------------------------------------------
(***************************************************************************)
(* What Task does with the packet it receives, if any.                     *)
(***************************************************************************)

\* No packet in 20 ms, or one this component ignores: a frame of a stream
\* this thread does not know, a header the gatekeeper or a check refuses, a
\* keepalive.
Nothing(p) ==
  /\ pc[p] = "receive"
  /\ Scan(p, handles[p])
  /\ UNCHANGED <<clientVars, streamVars, handles, lock>>

\* A connect packet that the gatekeeper accepts: CClients::AddClient.
Connect(p) ==
  /\ pc[p] = "receive"
  /\ lock = Free
  /\ \E c \in Clients \ (listed \cup gone),
        m \in Reach[p] \cup (IF p \in ConnectsUnlinked THEN {NoModule} ELSE {}) :
       /\ ProtoOf[c] = p
       /\ listed' = listed \cup {c}
       /\ linked' = [linked EXCEPT ![c] = m]
  /\ Scan(p, handles[p])
  /\ UNCHANGED <<gone, master, streamVars, handles, lock>>

\* Mutant: masters are removed like other clients.
RemoveMasters(leaving) ==
  /\ listed' = listed \ leaving
  /\ gone' = gone \cup leaving

\* CClients::RemoveClient: a master stays.
Remove(leaving) ==
  LET removed == {c \in leaving : ~IsAMaster(c)}
  IN  /\ listed' = listed \ removed
      /\ gone' = gone \cup removed

Disconnect(p) ==
  /\ pc[p] = "receive"
  /\ lock = Free
  /\ \E c \in ClientsOf(p) : Remove({c})
  /\ Scan(p, handles[p])
  /\ UNCHANGED <<master, linked, streamVars, handles, lock>>

\* CProtocol::GetStream with an address: the stream kept under this id, if
\* the client that owns it now has that address.
GetStream(p, s, c) ==
  IF handles[p][s] # NoModule /\ owner[handles[p][s]] = c
  THEN handles[p][s] ELSE NoModule

\* CProtocol::OnDvFramePacketIn, for a packet without a header.  All the frames
\* of a packet are one element of the queue.
Frame(p) ==
  /\ pc[p] = "receive"
  /\ p \notin {"m17", "dcs"}
  /\ \E s \in Sids, c \in Clients :
       /\ ProtoOf[c] = p
       /\ GetStream(p, s, c) # NoModule
       /\ Push(GetStream(p, s, c))
  /\ Scan(p, handles[p])
  /\ UNCHANGED <<clientVars, sid, owner, handles, lock>>

\* A header on a stream that GetStream finds: Tickle.
Tickle(p) ==
  /\ pc[p] = "receive"
  /\ p \in FindsByIp
  /\ \E s \in Sids, c \in Clients :
       /\ ProtoOf[c] = p
       /\ GetStream(p, s, c) # NoModule
       /\ fresh' = [fresh EXCEPT ![GetStream(p, s, c)] = TRUE]
       /\ HeaderDone(p, [client |-> c, sid |-> s, module |-> NoModule], handles[p])
  /\ UNCHANGED <<clientVars, sid, owner, queued, handles, lock>>

\* The id in the frames of a packet whose header was handled.  P25 makes its frame
\* first, with the id there was before the header: none.
FrameId(p) == IF p = "p25" THEN NoSid ELSE op[p].sid

\* OnDvFramePacketIn, for those frames.
Voice(p) ==
  LET m == GetStream(p, FrameId(p), op[p].client)
  IN  /\ pc[p] = "voice"
      /\ IF m = NoModule THEN UNCHANGED <<queued, fresh>> ELSE Push(m)
      /\ Scan(p, handles[p])
      /\ UNCHANGED <<clientVars, sid, owner, handles, lock>>

\* A header on a stream that GetStream does not find, from a client that
\* FindClient finds: OpenStream is called for module m, with the clients
\* locked or, for M17, after they were.
CallOpenStream(p, c, s, m) ==
  /\ pc[p] = "receive"
  /\ lock = Free
  /\ c \in listed
  /\ p \in FindsByIp => GetStream(p, s, c) = NoModule
  /\ Goto(p, "check")
  /\ op' = [op EXCEPT ![p] = [client |-> c, sid |-> s, module |-> m]]
  /\ lock' = IF p \in OpensUnlocked THEN Free ELSE p
  /\ UNCHANGED <<listed, gone, master, streamVars, handles, todo>>

\* What RPT2 of a packet to p can be: a module, or one that is not configured.
Named(p) == Reach[p] \cup {NoModule}

\* DExtra: RPT2 is the talker's, for AMBE clients the module they linked.
DextraHeader(c, s) ==
  /\ ProtoOf[c] = "dextra"
  /\ \E m \in Named("dextra") : CallOpenStream("dextra", c, s, m)
  /\ UNCHANGED linked

\* D-Plus checks the module of RPT2 first.
DplusHeader(c, s) ==
  /\ ProtoOf[c] = "dplus"
  /\ \E m \in Reach["dplus"] : CallOpenStream("dplus", c, s, m)
  /\ UNCHANGED linked

DcsHeader(c, s) ==
  /\ ProtoOf[c] = "dcs"
  /\ \E m \in Named("dcs") : CallOpenStream("dcs", c, s, m)
  /\ UNCHANGED linked

\* M17: a listen-only client is refused before OpenStream (that is Nothing).
M17Header(c, s) ==
  /\ ProtoOf[c] = "m17"
  /\ \E m \in Named("m17") : CallOpenStream("m17", c, s, m)
  /\ UNCHANGED linked

\* URF: the client of a peer is looked up by the module of RPT2 too.
UrfHeader(c, s) ==
  /\ ProtoOf[c] = "urf"
  /\ CallOpenStream("urf", c, s, linked[c])
  /\ UNCHANGED linked

P25Header(c, s) ==
  /\ ProtoOf[c] = "p25"
  /\ CallOpenStream("p25", c, s, linked[c])
  /\ UNCHANGED linked

NxdnHeader(c, s) ==
  /\ ProtoOf[c] = "nxdn"
  /\ CallOpenStream("nxdn", c, s, linked[c])
  /\ UNCHANGED linked

\* YSF: the DG-ID of the packet may first link the client to another module,
\* even while it is a master.
YsfHeader(c, s) ==
  /\ ProtoOf[c] = "ysf"
  /\ \E m \in Named("ysf") :
       /\ CallOpenStream("ysf", c, s, m)
       /\ linked' = [linked EXCEPT ![c] = m]

\* MMDVM: the talkgroup of an unlinked client links it, that of a linked one
\* is replaced by its module.
MmdvmHeader(c, s) ==
  /\ ProtoOf[c] = "mmdvm"
  /\ \E m \in IF linked[c] = NoModule THEN Reach["mmdvm"] ELSE {linked[c]} :
       /\ CallOpenStream("mmdvm", c, s, m)
       /\ linked' = [linked EXCEPT ![c] = m]

\* MMDVM: a private call to a module links without opening a stream, and
\* talkgroup 4000 unlinks; its RPT2 names no module.
MmdvmLink(c) ==
  /\ ProtoOf[c] = "mmdvm"
  /\ pc["mmdvm"] = "receive"
  /\ lock = Free
  /\ c \in listed
  /\ \E m \in IF linked[c] = NoModule THEN Reach["mmdvm"] ELSE {NoModule} :
       linked' = [linked EXCEPT ![c] = m]
  /\ Scan("mmdvm", handles["mmdvm"])
  /\ UNCHANGED <<listed, gone, master, streamVars, handles, lock>>

-----------------------------------------------------------------------------
(***************************************************************************)
(* CReflector::OpenStream, CPacketStream::OpenPacketStream and the lines   *)
(* of OnDvHeaderPacketIn after the call.                                   *)
(***************************************************************************)

\* ReleaseClients at the end of OnDvHeaderPacketIn.
Release(p) == lock' = IF lock = p THEN Free ELSE lock

\* Mutants: a check of OpenStream is missing, IsStreamOpen or IsAMaster.
MayLoop(call) ==
  /\ call.sid # NoSid
  /\ call.client \in listed
  /\ ~IsAMaster(call.client)
  /\ call.module \in Modules

MayOpenTwice(call) ==
  /\ call.sid # NoSid
  /\ call.client \in listed
  /\ \A m \in Modules : sid[m] # call.sid
  /\ call.module \in Modules

\* The checks at the head of OpenStream.
MayOpen(call) ==
  /\ call.sid # NoSid
  /\ call.client \in listed
  /\ ~IsAMaster(call.client)
  /\ \A m \in Modules : sid[m] # call.sid
  /\ call.module \in Modules

Admit(p) ==
  /\ pc[p] = "check"
  /\ MayOpen(op[p])
  /\ Goto(p, "test")
  /\ UNCHANGED <<clientVars, streamVars, handles, lock, todo, op>>

\* OpenStream returns nullptr.
Refuse(p) ==
  /\ pc[p] = "check"
  /\ ~MayOpen(op[p])
  /\ Release(p)
  /\ HeaderDone(p, op[p], handles[p])
  /\ UNCHANGED <<clientVars, streamVars, handles>>

\* OpenPacketStream: not already open?  If it is, OpenStream still returns
\* the stream.
Test(p) ==
  /\ pc[p] = "test"
  /\ Goto(p, IF sid[op[p].module] = NoSid THEN "claim" ELSE "keep")
  /\ UNCHANGED <<clientVars, streamVars, handles, lock, todo, op>>

Claim(p) ==
  /\ pc[p] = "claim"
  /\ sid' = [sid EXCEPT ![op[p].module] = op[p].sid]
  /\ Goto(p, "fill")
  /\ UNCHANGED <<clientVars, owner, fresh, queued, handles, lock, todo, op>>

Fill(p) ==
  /\ pc[p] = "fill"
  /\ owner' = [owner EXCEPT ![op[p].module] = op[p].client]
  /\ fresh' = [fresh EXCEPT ![op[p].module] = TRUE]
  /\ Goto(p, "mark")
  /\ UNCHANGED <<clientVars, sid, queued, handles, lock, todo, op>>

\* The client becomes the master and the header is pushed.  A D-Plus client
\* moves to the module it talks on (CDplusClient::SetMasterOfModule).
Mark(p) ==
  /\ pc[p] = "mark"
  /\ master' = [master EXCEPT ![op[p].client] = op[p].module]
  /\ linked' = IF p = "dplus" THEN [linked EXCEPT ![op[p].client] = op[p].module]
                              ELSE linked
  /\ Push(op[p].module)
  /\ Goto(p, "keep")
  /\ UNCHANGED <<listed, gone, sid, owner, handles, lock, todo, op>>

\* m_Streams[stream->GetStreamId()] = stream: the id is read again, and is
\* another talker's when OpenPacketStream refused.
Keep(p) ==
  /\ pc[p] = "keep"
  /\ handles' = [handles EXCEPT ![p][sid[op[p].module]] = op[p].module]
  /\ Release(p)
  /\ HeaderDone(p, op[p], handles'[p])
  /\ UNCHANGED <<clientVars, streamVars>>

-----------------------------------------------------------------------------
(***************************************************************************)
(* CProtocol::CheckStreamsTimeout and CReflector::CloseStream.             *)
(***************************************************************************)

StillFresh(p) ==
  /\ pc[p] = "scan"
  /\ \E s \in todo[p] :
       /\ fresh[handles[p][s]]
       /\ todo' = [todo EXCEPT ![p] = @ \ {s}]
  /\ UNCHANGED <<clientVars, streamVars, handles, lock, pc, op>>

Expired(p) ==
  /\ pc[p] = "scan"
  /\ \E s \in todo[p] :
       /\ ~fresh[handles[p][s]]
       /\ op' = [op EXCEPT ![p] = [client |-> NoClient, sid |-> s, module |-> handles[p][s]]]
       /\ todo' = [todo EXCEPT ![p] = @ \ {s}]
  /\ Goto(p, "drain")
  /\ UNCHANGED <<clientVars, streamVars, handles, lock>>

\* "wait queue is empty. this waits forever"
Drained(p) ==
  /\ pc[p] = "drain"
  /\ queued[op[p].module] = 0
  /\ Goto(p, "unmaster")
  /\ UNCHANGED <<clientVars, streamVars, handles, lock, todo, op>>

Unmaster(p) ==
  LET c == owner[op[p].module]
  IN  /\ pc[p] = "unmaster"
      /\ lock = Free
      /\ master' = IF c = NoClient THEN master ELSE [master EXCEPT ![c] = NoModule]
      /\ Goto(p, "zero")
      /\ UNCHANGED <<listed, gone, linked, streamVars, handles, lock, todo, op>>

\* Mutant: ClosePacketStream leaves the stream id.
StayOpen(p) ==
  /\ pc[p] = "zero"
  /\ Goto(p, "disown")
  /\ UNCHANGED <<clientVars, streamVars, handles, lock, todo, op>>

\* ClosePacketStream, after the clients are released.
Zero(p) ==
  /\ pc[p] = "zero"
  /\ sid' = [sid EXCEPT ![op[p].module] = NoSid]
  /\ Goto(p, "disown")
  /\ UNCHANGED <<clientVars, owner, fresh, queued, handles, lock, todo, op>>

\* The owner is reset, and the thread erases its handle.
Disown(p) ==
  /\ pc[p] = "disown"
  /\ owner' = [owner EXCEPT ![op[p].module] = NoClient]
  /\ handles' = [handles EXCEPT ![p][op[p].sid] = NoModule]
  /\ op' = [op EXCEPT ![p] = NoCall]
  /\ Goto(p, "scan")
  /\ UNCHANGED <<clientVars, sid, fresh, queued, lock, todo>>

\* All handles looked at; HandleQueue changes nothing here, and the keepalive
\* period has elapsed or not.
Scanned(p) ==
  /\ pc[p] = "scan"
  /\ todo[p] = {}
  /\ \E point \in {"receive", "keepalive"} : Goto(p, point)
  /\ UNCHANGED <<clientVars, streamVars, handles, lock, todo, op>>

\* HandleKeepalives: masters are tickled, the clients not heard of are removed.
Keepalive(p) ==
  /\ pc[p] = "keepalive"
  /\ lock = Free
  /\ \E silent \in SUBSET ClientsOf(p) : Remove({c \in silent : ~IsAMaster(c)})
  /\ Goto(p, "receive")
  /\ UNCHANGED <<master, linked, streamVars, handles, lock, todo, op>>

-----------------------------------------------------------------------------
\* Mutant: the router pops without waiting for a packet.
RouteNothing(m) ==
  /\ queued' = [queued EXCEPT ![m] = @ - 1]
  /\ UNCHANGED <<clientVars, sid, owner, fresh, threadVars>>

\* CReflector::RouterThread takes a packet; STREAM_TIMEOUT goes by.
Route(m) ==
  /\ queued[m] > 0
  /\ queued' = [queued EXCEPT ![m] = @ - 1]
  /\ UNCHANGED <<clientVars, sid, owner, fresh, threadVars>>

Expire(m) ==
  /\ fresh[m]
  /\ fresh' = [fresh EXCEPT ![m] = FALSE]
  /\ UNCHANGED <<clientVars, sid, owner, queued, threadVars>>

Header(c, s) ==
  \/ DextraHeader(c, s)
  \/ DplusHeader(c, s)
  \/ DcsHeader(c, s)
  \/ MmdvmHeader(c, s)
  \/ YsfHeader(c, s)
  \/ M17Header(c, s)
  \/ P25Header(c, s)
  \/ NxdnHeader(c, s)
  \/ UrfHeader(c, s)

Packet(p) ==
  \/ Nothing(p)
  \/ Connect(p)
  \/ Disconnect(p)
  \/ Frame(p)
  \/ Tickle(p)
  \/ Voice(p)
  \/ \E c \in Clients : ProtoOf[c] = p /\ (MmdvmLink(c) \/ \E s \in Sids : Header(c, s))

OpenStream(p) ==
  Admit(p) \/ Refuse(p) \/ Test(p) \/ Claim(p) \/ Fill(p) \/ Mark(p) \/ Keep(p)

CheckStreamsTimeout(p) ==
  \/ StillFresh(p) \/ Expired(p) \/ Scanned(p)
  \/ Drained(p) \/ Unmaster(p) \/ Zero(p) \/ Disown(p)

Thread(p) == Packet(p) \/ OpenStream(p) \/ CheckStreamsTimeout(p) \/ Keepalive(p)

Next ==
  \/ \E p \in Active : Thread(p)
  \/ \E m \in Modules : Route(m) \/ Expire(m)

Spec == Init /\ [][Next]_vars

\* The scheduler runs every thread and time passes.  The clients mutex is held
\* for a few instructions by threads that then block on their socket for up to
\* 20 ms, so a thread that keeps asking for it gets it.
Fairness ==
  /\ \A p \in Active : WF_vars(Thread(p)) /\ SF_vars(Unmaster(p)) /\ SF_vars(Keepalive(p))
  /\ \A m \in Modules : WF_vars(Route(m)) /\ WF_vars(Expire(m))

FairSpec == Spec /\ Fairness
=============================================================================
