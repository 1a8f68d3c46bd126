------------------------------ MODULE Interlink ------------------------------
(***************************************************************************)
(* How reflectors link (reflector/URFProtocol.cpp, URFPeers.cpp): each     *)
(* sends CONN to the peers of its interlink file that it is not linked     *)
(* with, adds a peer when its ACKN comes, keeps it while its PINGs come,   *)
(* and drops it when it falls silent, says DISC or leaves the file.        *)
(*                                                                         *)
(* The network loses and reorders messages until it is calm.  A round is   *)
(* URF_RECONNECT_PERIOD: in each, every reflector runs HandleKeepalives    *)
(* and HandlePeerLinks, and the pings of a round count as one.             *)
(***************************************************************************)
EXTENDS Naturals, FiniteSets, SequencesExt

CONSTANTS
  Reflectors,  \* reflectors that run this program
  Others,      \* callsigns of reflectors that are never reached
  Modules,     \* function: the modules configured at a reflector or published
  Spoken,      \* bound of the model: the modules somebody talks on
  Coded,       \* function: those of them that are transcoded
  Stamp,       \* function: when a reflector published its configuration, if it did
  Entries,     \* lines an operator may write about a peer
  FirstFiles,  \* interlink files to begin with
  Timeout,     \* rounds without a ping after which a peer is not alive
  Rewrites,    \* bound of the model: lines that operators change, <<where, who, line>>
  Restarts,    \* bound of the model: the reflectors that are restarted
  MaxChanges,  \* bound of the model: lines changed and reflectors restarted
  None         \* no line, no peer

Names == Reflectors \cup Others
ModuleLists == {e.mods : e \in Entries}

\* A line names the shared modules in an order that matters, and the address
\* unless the peer is to be found in the DHT.
ASSUME InterlinkAssumption ==
  /\ None \notin Entries
  /\ None \notin ModuleLists
  /\ None \notin Names
  /\ FirstFiles \subseteq [Reflectors -> [Names -> Entries \cup {None}]]
  /\ \A e \in Entries : e.dht \in BOOLEAN
  /\ Timeout \in Nat /\ Timeout >= 3
  /\ Restarts \subseteq Reflectors
  /\ MaxChanges \in Nat
  /\ Rewrites \subseteq Reflectors \X Names \X (Entries \cup {None})

VARIABLES
  file,      \* the interlink file of each reflector
  mtime,     \* when it was changed last
  seen,      \* m_LastModTime of the map
  changes,   \* lines changed and reflectors restarted so far
  map,       \* CInterlinkMap, of the gatekeeper
  peers,     \* CURFPeers: the modules a peer is linked for
  age,       \* m_LastKeepaliveTime of a peer, in rounds
  clients,   \* the clients of protocol URF in CClients, <<peer, module>>
  talking,   \* those of them that are masters of a stream
  asked,     \* what became of the question to the DHT for a peer
  cfg,       \* the static cfg of GetDHTConfig, by the name in it
  net,       \* messages under way
  owed,      \* what each reflector does in this round and has not done
  calm       \* the network loses nothing any more

fileVars == <<file, mtime>>
mapVars  == <<map, seen>>
dhtVars  == <<asked, cfg>>
peerVars == <<peers, age, clients, talking>>
vars == <<fileVars, changes, mapVars, peerVars, dhtVars, net, owed, calm>>

\* Task does its two chores in this order.  The speech of a round is one packet,
\* which need not be.
Chores == {"keepalive", "links"}
Speech == "speech"

\* An item of the map is a line and what is known of the peer's address:
\* nothing, what the DHT said and UpdateIP has not seen, or the address.
Known == {"unset", "fetched", "set"}
Items == [mods : ModuleLists, dht : BOOLEAN, ip : Known]
Item(line) ==
  IF line = None THEN None
  ELSE [mods |-> line.mods, dht |-> line.dht, ip |-> IF line.dht THEN "unset" ELSE "set"]

Messages == [type : {"CONN", "ACKN"}, from : Names, to : Names, mods : ModuleLists]
     \cup [type : {"PING", "DISC"}, from : Names, to : Names]
     \cup [type : {"URFH"}, from : Names, to : Names, mod : UNION {Modules[n] : n \in Names}]

TypeOK ==
  /\ file \in [Reflectors -> [Names -> Entries \cup {None}]]
  /\ mtime \in [Reflectors -> 0..MaxChanges]
  /\ changes \in 0..MaxChanges
  /\ map \in [Reflectors -> [Names -> Items \cup {None}]]
  /\ seen \in [Reflectors -> 0..MaxChanges]
  /\ peers \in [Reflectors -> [Names -> ModuleLists \cup {None}]]
  /\ age \in [Reflectors -> [Names -> 0..Timeout]]
  /\ clients \in [Reflectors -> SUBSET (Names \X UNION {Modules[n] : n \in Names})]
  /\ talking \in [Reflectors -> SUBSET (Names \X UNION {Modules[n] : n \in Names})]
  /\ asked \in [Reflectors -> [Names -> {"no", "searching", "answered"}]]
  /\ cfg \in [Reflectors -> Names \cup {None}]
  /\ net \subseteq Messages
  /\ owed \in [Reflectors -> SUBSET (Chores \cup {Speech})]
  /\ calm \in BOOLEAN

NoPeers == [n \in Names |-> None]

Init ==
  /\ file \in FirstFiles
  /\ mtime = [r \in Reflectors |-> 0]
  /\ changes = 0
  /\ map = [r \in Reflectors |-> [n \in Names |-> Item(file[r][n])]]
  /\ seen = mtime
  /\ peers = [r \in Reflectors |-> NoPeers]
  /\ age = [r \in Reflectors |-> [n \in Names |-> 0]]
  /\ clients = [r \in Reflectors |-> {}]
  /\ talking = [r \in Reflectors |-> {}]
  /\ asked = [r \in Reflectors |-> [n \in Names |-> "no"]]
  /\ cfg = [r \in Reflectors |-> None]
  /\ net = {}
  /\ owed = [r \in Reflectors |-> {}]
  /\ calm = FALSE

Peers(r) == {p \in Names : peers[r][p] # None}
Listed(r) == {n \in Names : map[r][n] # None}
ClientsOf(p, mods) == {<<p, mods[i]>> : i \in DOMAIN mods}
IsAMaster(r, p) == \E m \in ToSet(peers[r][p]) : <<p, m>> \in talking[r]

\* What reaches nobody that runs this program is lost.
Delivered(messages) == {msg \in messages : msg.to \in Reflectors}

-----------------------------------------------------------------------------
(***************************************************************************)
(* Peers.                                                                  *)
(***************************************************************************)

\* MayLink: an interlink map without items lets everybody link.
MayLink(r, p, mods) ==
  \/ Listed(r) = {}
  \/ /\ p \in Listed(r)
     /\ map[r][p].mods = mods
     /\ map[r][p].ip = "set"

AddPeer(r, p, mods) ==
  /\ peers' = [peers EXCEPT ![r][p] = mods]
  /\ age' = [age EXCEPT ![r][p] = 0]
  /\ clients' = [clients EXCEPT ![r] = @ \cup ClientsOf(p, mods)]

\* Mutant: the refusal of RemoveClient is not looked at.
RemovableAnyway(r, p) == TRUE

\* RemoveClient refuses a client that is a master, so a peer with one stays.
Removable(r, p) == ~IsAMaster(r, p)
Removed(r, doomed) == {p \in doomed \cap Peers(r) : Removable(r, p)}

RemovePeers(r, doomed) ==
  /\ peers' = [peers EXCEPT ![r] =
                 [n \in Names |-> IF n \in Removed(r, doomed) THEN None ELSE peers[r][n]]]
  /\ clients' = [clients EXCEPT ![r] =
                   {c \in clients[r] : c[1] \notin Removed(r, doomed) \/ c \in talking[r]}]

\* The time of these peers starts anew; that of a peer that is gone is 0.
Alive(r, who) ==
  age' = [age EXCEPT ![r] = [n \in Names |-> IF n \in who THEN 0 ELSE age[r][n]]]

-----------------------------------------------------------------------------
(***************************************************************************)
(* Packets that come in.                                                   *)
(***************************************************************************)

\* A CONN or ACKN for modules that are not configured here is no valid packet.
ValidModules(r, mods) == ToSet(mods) \subseteq Modules[r]

\* A NACK is only logged.
ConnectPacket(r, msg) ==
  /\ msg.type = "CONN"
  /\ net' = (net \ {msg}) \cup
       IF ValidModules(r, msg.mods) /\ MayLink(r, msg.from, msg.mods)
       THEN Delivered({[type |-> "ACKN", from |-> r, to |-> msg.from, mods |-> msg.mods]})
       ELSE {}
  /\ UNCHANGED <<peerVars>>

AckPacket(r, msg) ==
  /\ msg.type = "ACKN"
  /\ IF /\ ValidModules(r, msg.mods)
        /\ MayLink(r, msg.from, msg.mods)
        /\ msg.from \notin Peers(r)
     THEN AddPeer(r, msg.from, msg.mods)
     ELSE UNCHANGED <<peers, age, clients>>
  /\ net' = net \ {msg}
  /\ UNCHANGED talking

KeepAlivePacket(r, msg) ==
  /\ msg.type = "PING"
  /\ Alive(r, {msg.from})
  /\ net' = net \ {msg}
  /\ UNCHANGED <<peers, clients, talking>>

DisconnectPacket(r, msg) ==
  /\ msg.type = "DISC"
  /\ RemovePeers(r, {msg.from})
  /\ Alive(r, Removed(r, {msg.from}))
  /\ net' = net \ {msg}
  /\ UNCHANGED talking

\* The header of a transmission: the client it came from becomes the master of
\* the module's stream, unless somebody else talks on it.
HeaderPacket(r, msg) ==
  /\ msg.type = "URFH"
  /\ \/ /\ <<msg.from, msg.mod>> \in clients[r]
        /\ \A n \in Names : <<n, msg.mod>> \notin talking[r]
        /\ talking' = [talking EXCEPT ![r] = @ \cup {<<msg.from, msg.mod>>}]
     \/ UNCHANGED talking
  /\ net' = net \ {msg}
  /\ UNCHANGED <<peers, age, clients>>

Receive(r) ==
  /\ \E msg \in net :
       /\ msg.to = r
       /\ \/ ConnectPacket(r, msg)
          \/ AckPacket(r, msg)
          \/ KeepAlivePacket(r, msg)
          \/ DisconnectPacket(r, msg)
          \/ HeaderPacket(r, msg)
  /\ UNCHANGED <<fileVars, changes, mapVars, dhtVars, owed, calm>>

-----------------------------------------------------------------------------
(***************************************************************************)
(* What a reflector does by itself.                                        *)
(***************************************************************************)

\* Mutant: a peer is alive as long as it is a peer.
AlwaysAlive(r, p) == TRUE

IsAlive(r, p) == age[r][p] < Timeout

\* Every peer gets a ping.  One that talks is tickled, any other that is not
\* alive is removed.
HandleKeepalives(r) ==
  LET silent == {p \in Peers(r) : ~IsAMaster(r, p) /\ ~IsAlive(r, p)}
  IN  /\ "keepalive" \in owed[r]
      /\ net' = net \cup Delivered([type : {"PING"}, from : {r}, to : Peers(r)])
                    \cup Delivered([type : {"DISC"}, from : {r}, to : silent])
      /\ RemovePeers(r, silent)
      /\ Alive(r, Removed(r, silent) \cup {p \in Peers(r) : IsAMaster(r, p)})
      /\ owed' = [owed EXCEPT ![r] = @ \ {"keepalive"}]
      /\ UNCHANGED <<fileVars, changes, mapVars, talking, dhtVars, calm>>

\* The modules are configured on both sides, and transcoded on both or none.
\* Of a peer that is not in the DHT only the former is known, and only here.
Matching(r, p) ==
  \A m \in ToSet(map[r][p].mods) :
    /\ m \in Modules[r]
    /\ map[r][p].dht => m \in Modules[p] /\ (m \in Coded[r] <=> m \in Coded[p])

\* Mutant: a question to the DHT leaves cfg as it is.
KeepCfg(r, wanted) == cfg' = cfg

\* GetDHTConfig empties cfg, which all questions share.
EmptyCfg(r, wanted) == cfg' = IF wanted = {} THEN cfg ELSE [cfg EXCEPT ![r] = None]

\* Peers that left the map are sent DISC and removed.  Those that are listed and
\* not linked are sent CONN, or the DHT is asked where they are.
HandlePeerLinks(r) ==
  LET missing == Listed(r) \ Peers(r)
      found   == {p \in missing : map[r][p].ip # "unset"}
      wanted  == missing \ found
      Conn(p) == [type |-> "CONN", from |-> r, to |-> p, mods |-> map[r][p].mods]
  IN  /\ owed[r] \cap Chores = {"links"}
      /\ RemovePeers(r, Peers(r) \ Listed(r))
      /\ Alive(r, Removed(r, Peers(r) \ Listed(r)))
      /\ map' = [map EXCEPT ![r] =
                   [n \in Names |-> IF n \in found THEN [map[r][n] EXCEPT !.ip = "set"]
                                                   ELSE map[r][n]]]
      /\ net' = net \cup Delivered([type : {"DISC"}, from : {r}, to : Peers(r) \ Listed(r)])
                    \cup Delivered({Conn(p) : p \in {n \in found : Matching(r, n)}})
      /\ asked' = [asked EXCEPT ![r] =
                     [n \in Names |-> IF n \in wanted THEN "searching" ELSE asked[r][n]]]
      /\ EmptyCfg(r, wanted)
      /\ owed' = [owed EXCEPT ![r] = @ \ {"links"}]
      /\ UNCHANGED <<fileVars, changes, seen, talking, calm>>

\* Speech on a module goes to the clients on it that do not talk themselves.
HandleQueue(r) ==
  /\ Speech \in owed[r]
  /\ owed' = [owed EXCEPT ![r] = @ \ {Speech}]
  /\ \E m \in Modules[r] \cap Spoken :
       /\ \A n \in Names : <<n, m>> \notin talking[r]
       /\ net' = net \cup Delivered([type : {"URFH"}, from : {r}, mod : {m},
                                     to : {n \in Names : <<n, m>> \in clients[r]}])
  /\ UNCHANGED <<fileVars, changes, mapVars, peerVars, dhtVars, calm>>

\* A transmission ends, or its stream times out.
CloseStream(r) ==
  /\ \E c \in talking[r] : talking' = [talking EXCEPT ![r] = @ \ {c}]
  /\ UNCHANGED <<fileVars, changes, mapVars, peers, age, clients, dhtVars, net, owed, calm>>

-----------------------------------------------------------------------------
(***************************************************************************)
(* The DHT thread: the two callbacks of GetDHTConfig, which share one cfg  *)
(* among all questions.                                                    *)
(***************************************************************************)

\* A value is kept if it is the newest so far.
DHTValue(r, p) ==
  /\ asked[r][p] = "searching"
  /\ p \in DOMAIN Stamp
  /\ cfg' = IF cfg[r] # None /\ Stamp[p] <= Stamp[cfg[r]] THEN cfg ELSE [cfg EXCEPT ![r] = p]
  /\ asked' = [asked EXCEPT ![r][p] = "answered"]
  /\ UNCHANGED map

\* At the end of a search that found something, the item cfg names is updated.
DHTDone(r, p) ==
  /\ asked[r][p] = "answered"
  /\ asked' = [asked EXCEPT ![r][p] = "no"]
  /\ map' = IF cfg[r] \in Listed(r) /\ map[r][cfg[r]].ip = "unset"
            THEN [map EXCEPT ![r][cfg[r]].ip = "fetched"]
            ELSE map
  /\ UNCHANGED cfg

\* A search fails when nothing was published or the network is not calm.
DHTFails(r, p) ==
  /\ asked[r][p] = "searching"
  /\ p \notin DOMAIN Stamp \/ ~calm
  /\ asked' = [asked EXCEPT ![r][p] = "no"]
  /\ UNCHANGED <<map, cfg>>

DHT(r) ==
  /\ \E p \in Names : DHTValue(r, p) \/ DHTDone(r, p) \/ DHTFails(r, p)
  /\ UNCHANGED <<fileVars, changes, seen, peerVars, net, owed, calm>>

-----------------------------------------------------------------------------
(***************************************************************************)
(* The operator, the gatekeeper's thread, the network and time.            *)
(***************************************************************************)

EditFile(r) ==
  /\ changes < MaxChanges
  /\ changes' = changes + 1
  /\ \E rw \in Rewrites :
       /\ rw[1] = r
       /\ file' = [file EXCEPT ![r][rw[2]] = rw[3]]
  /\ file' # file
  /\ mtime' = [mtime EXCEPT ![r] = changes']
  /\ UNCHANGED <<mapVars, peerVars, dhtVars, net, owed, calm>>

\* The new items know nothing of what the DHT said of the old ones.
LoadFromFile(r) ==
  /\ map' = [map EXCEPT ![r] = [n \in Names |-> Item(file[r][n])]]
  /\ seen' = [seen EXCEPT ![r] = mtime[r]]

ReloadFromFile(r) ==
  /\ seen[r] # mtime[r]
  /\ LoadFromFile(r)
  /\ UNCHANGED <<fileVars, changes, peerVars, dhtVars, net, owed, calm>>

Restart(r) ==
  /\ r \in Restarts
  /\ changes < MaxChanges
  /\ changes' = changes + 1
  /\ LoadFromFile(r)
  /\ peers' = [peers EXCEPT ![r] = NoPeers]
  /\ Alive(r, Names)
  /\ clients' = [clients EXCEPT ![r] = {}]
  /\ talking' = [talking EXCEPT ![r] = {}]
  /\ asked' = [asked EXCEPT ![r] = [n \in Names |-> "no"]]
  /\ cfg' = [cfg EXCEPT ![r] = None]
  /\ owed' = [owed EXCEPT ![r] = {}]
  /\ UNCHANGED <<fileVars, net, calm>>

Lose ==
  /\ ~calm
  /\ \E msg \in net : net' = net \ {msg}
  /\ UNCHANGED <<fileVars, changes, mapVars, peerVars, dhtVars, owed, calm>>

BecomeCalm ==
  /\ ~calm
  /\ calm' = TRUE
  /\ UNCHANGED <<fileVars, changes, mapVars, peerVars, dhtVars, net, owed>>

Audience(r) == \E c \in clients[r] : c[2] \in Spoken

\* The next round.  What was sent in a round has arrived or is lost, and when the
\* network is calm, so have the answers of the DHT.
Tick ==
  /\ \A r \in Reflectors : owed[r] \cap Chores = {}
  /\ net = {}
  /\ calm => \A r \in Reflectors, n \in Names : asked[r][n] = "no"
  /\ owed' = [r \in Reflectors |-> IF Audience(r) THEN Chores \cup {Speech} ELSE Chores]
  /\ age' = [r \in Reflectors |->
               [n \in Names |-> IF n \in Peers(r) /\ age[r][n] < Timeout THEN age[r][n] + 1
                                                                        ELSE age[r][n]]]
  /\ UNCHANGED <<fileVars, changes, mapVars, peers, clients, talking, dhtVars, net, calm>>

Chore(r) == HandleKeepalives(r) \/ HandlePeerLinks(r)

Next ==
  \/ \E r \in Reflectors :
       \/ Receive(r)
       \/ Chore(r)
       \/ HandleQueue(r)
       \/ CloseStream(r)
       \/ DHT(r)
       \/ EditFile(r)
       \/ ReloadFromFile(r)
       \/ Restart(r)
  \/ Lose
  \/ BecomeCalm
  \/ Tick

Spec == Init /\ [][Next]_vars

\* Threads run on, streams end, and a calm network delivers.  Nothing makes an
\* operator write, a reflector restart or a network become calm.
Fairness ==
  /\ \A r \in Reflectors :
       /\ WF_vars(Receive(r))
       /\ WF_vars(Chore(r))
       /\ WF_vars(CloseStream(r))
       /\ WF_vars(DHT(r))
       /\ WF_vars(ReloadFromFile(r))
  /\ WF_vars(Tick)

FairSpec == Spec /\ Fairness
=============================================================================
