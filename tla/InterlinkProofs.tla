--------------------------- MODULE InterlinkProofs ---------------------------
(***************************************************************************)
(* Theorems about Interlink, for any reflectors, files and timeouts, and   *)
(* whatever the network loses: who talks stays linked.                     *)
(***************************************************************************)
EXTENDS InterlinkProps, TLAPS

Mods == UNION {Modules[n] : n \in Names}

\* The clients of a reflector whose peers are q.
ClientsFor(q) == UNION {ClientsOf(p, q[p]) : p \in {n \in Names : q[n] # None}}

\* One reflector's share of the invariant.
Follows(r) == clients[r] = ClientsFor(peers[r])
Linkage(r) == Follows(r) /\ talking[r] \subseteq clients[r]

\* Clients can only be taken away with their peer as those who talk are among them.
Inv == TypeOK /\ \A r \in Reflectors : Linkage(r)

-----------------------------------------------------------------------------
(***************************************************************************)
(* Lines, items and messages.                                              *)
(***************************************************************************)

LEMMA NamesAre == None \notin Names /\ Reflectors \subseteq Names
BY InterlinkAssumption DEF InterlinkAssumption, Names

LEMMA ItemTyped ==
  ASSUME NEW line \in Entries \cup {None}
  PROVE  Item(line) \in Items \cup {None}
<1>1. CASE line = None
  BY <1>1 DEF Item
<1>2. CASE line # None
  <2>1. line.mods \in ModuleLists /\ line.dht \in BOOLEAN
    BY <1>2, InterlinkAssumption DEF InterlinkAssumption, ModuleLists
  <2>. QED
    BY <1>2, <2>1 DEF Item, Items, Known
<1>. QED
  BY <1>1, <1>2

\* What a reflector has of its file when it has loaded it.
LEMMA LoadedTyped ==
  ASSUME TypeOK, NEW r \in Reflectors
  PROVE  [n \in Names |-> Item(file[r][n])] \in [Names -> Items \cup {None}]
BY ItemTyped DEF TypeOK

LEMMA ListedTyped ==
  ASSUME TypeOK, NEW r \in Reflectors, NEW p \in Names, map[r][p] # None
  PROVE  /\ map[r][p] \in Items
         /\ map[r][p].mods \in ModuleLists
         /\ [map[r][p] EXCEPT !.ip = "set"] \in Items
         /\ [map[r][p] EXCEPT !.ip = "fetched"] \in Items
<1>1. map[r][p] \in Items
  BY DEF TypeOK
<1>. QED
  BY <1>1 DEF Items, Known

LEMMA DeliveredTyped ==
  ASSUME NEW S, S \subseteq Messages
  PROVE  Delivered(S) \subseteq Messages
BY DEF Delivered

LEMMA NoticesTyped ==
  ASSUME NEW r \in Reflectors, NEW S, S \subseteq Names
  PROVE  /\ Delivered([type : {"PING"}, from : {r}, to : S]) \subseteq Messages
         /\ Delivered([type : {"DISC"}, from : {r}, to : S]) \subseteq Messages
<1>1. /\ [type : {"PING"}, from : {r}, to : S] \subseteq Messages
      /\ [type : {"DISC"}, from : {r}, to : S] \subseteq Messages
  BY NamesAre DEF Messages
<1>. QED
  BY <1>1, DeliveredTyped

-----------------------------------------------------------------------------
(***************************************************************************)
(* Peers and their clients.                                                *)
(***************************************************************************)

\* Mod lists and None are told apart, so a peer added is a peer.
LEMMA ListsAreNotNone == \A l \in ModuleLists : l # None
BY InterlinkAssumption DEF InterlinkAssumption

LEMMA ClientOfPeer ==
  ASSUME NEW q, NEW c
  PROVE  c \in ClientsFor(q) <=>
           \E p \in Names : q[p] # None /\ \E i \in DOMAIN q[p] : c = <<p, q[p][i]>>
BY DEF ClientsFor, ClientsOf

\* A peer is added with a client for each of its modules.
LEMMA AddPeerKeeps ==
  ASSUME Inv, NEW r \in Reflectors, NEW p \in Names, p \notin Peers(r),
         NEW mods \in ModuleLists,
         ValidModules(r, mods), AddPeer(r, p, mods), UNCHANGED talking
  PROVE  /\ peers' \in [Reflectors -> [Names -> ModuleLists \cup {None}]]
         /\ age' \in [Reflectors -> [Names -> 0..Timeout]]
         /\ clients' \in [Reflectors -> SUBSET (Names \X Mods)]
         /\ \A q \in Reflectors : Linkage(q)'
<1>. USE DEF Inv
<1>1. /\ peers' = [peers EXCEPT ![r][p] = mods]
      /\ age' = [age EXCEPT ![r][p] = 0]
      /\ clients' = [clients EXCEPT ![r] = @ \cup ClientsOf(p, mods)]
  BY DEF AddPeer
<1>2. peers' \in [Reflectors -> [Names -> ModuleLists \cup {None}]]
  BY <1>1 DEF TypeOK
<1>3. age' \in [Reflectors -> [Names -> 0..Timeout]]
  BY <1>1, InterlinkAssumption DEF TypeOK, InterlinkAssumption
<1>4. ClientsOf(p, mods) \subseteq Names \X Mods
  <2>1. \A i \in DOMAIN mods : mods[i] \in Modules[r]
    BY DEF ValidModules, ToSet
  <2>2. Modules[r] \subseteq Mods
    BY NamesAre DEF Mods
  <2>. QED
    BY <2>1, <2>2 DEF ClientsOf
<1>5. clients' \in [Reflectors -> SUBSET (Names \X Mods)]
  BY <1>1, <1>4 DEF TypeOK, Mods
<1>6. clients'[r] = clients[r] \cup ClientsOf(p, mods)
  BY <1>1 DEF TypeOK
<1>7. /\ peers'[r][p] = mods /\ mods # None
      /\ peers[r][p] = None
      /\ \A n \in Names : n # p => peers'[r][n] = peers[r][n]
  BY <1>1, ListsAreNotNone DEF TypeOK, Peers
<1>8. ClientsFor(peers'[r]) = ClientsFor(peers[r]) \cup ClientsOf(p, mods)
  <2>1. ASSUME NEW c
        PROVE  c \in ClientsFor(peers'[r]) <=> c \in ClientsFor(peers[r]) \cup ClientsOf(p, mods)
    <3>1. c \in ClientsOf(p, mods) <=> \E i \in DOMAIN mods : c = <<p, mods[i]>>
      BY DEF ClientsOf
    <3>. QED
      BY <1>7, <3>1, ClientOfPeer
  <2>. QED
    BY <2>1
<1>9. Linkage(r)'
  BY <1>6, <1>8 DEF Linkage, Follows
<1>10. \A q \in Reflectors : q # r => peers'[q] = peers[q] /\ clients'[q] = clients[q]
  BY <1>1 DEF TypeOK
<1>. QED
  BY <1>2, <1>3, <1>5, <1>9, <1>10 DEF Linkage, Follows

\* Peers that are removed go with all their clients, as none of these talks.
LEMMA RemovePeersKeeps ==
  ASSUME Inv, NEW r \in Reflectors, NEW doomed,
         RemovePeers(r, doomed), UNCHANGED talking
  PROVE  /\ peers' \in [Reflectors -> [Names -> ModuleLists \cup {None}]]
         /\ clients' \in [Reflectors -> SUBSET (Names \X Mods)]
         /\ \A q \in Reflectors : Linkage(q)'
<1>. USE DEF Inv
<1>. DEFINE gone == Removed(r, doomed)
<1>1. /\ peers' = [peers EXCEPT ![r] = [n \in Names |-> IF n \in gone THEN None ELSE peers[r][n]]]
      /\ clients' = [clients EXCEPT ![r] =
                       {c \in clients[r] : c[1] \notin gone \/ c \in talking[r]}]
  BY DEF RemovePeers
<1>2. \A p \in gone : p \in Peers(r) /\ ~IsAMaster(r, p)
  BY DEF Removed, Removable
<1>. HIDE DEF gone
<1>3. peers' \in [Reflectors -> [Names -> ModuleLists \cup {None}]]
  BY <1>1 DEF TypeOK
<1>4. clients' \in [Reflectors -> SUBSET (Names \X Mods)]
  BY <1>1 DEF TypeOK, Mods
<1>5. /\ \A n \in Names : peers'[r][n] = IF n \in gone THEN None ELSE peers[r][n]
      /\ clients'[r] = {c \in clients[r] : c[1] \notin gone \/ c \in talking[r]}
  BY <1>1 DEF TypeOK
<1>6. \A c \in talking[r] : c[1] \notin gone
  <2>. SUFFICES ASSUME NEW c \in talking[r], c[1] \in gone PROVE FALSE
    OBVIOUS
  <2>1. c \in ClientsFor(peers[r])
    BY DEF Linkage, Follows
  <2>2. PICK p \in Names : peers[r][p] # None /\ \E i \in DOMAIN peers[r][p] : c = <<p, peers[r][p][i]>>
    BY <2>1, ClientOfPeer
  <2>3. PICK i \in DOMAIN peers[r][p] : c = <<p, peers[r][p][i]>>
    BY <2>2
  <2>4. p \in gone
    BY <2>3
  <2>5. peers[r][p][i] \in ToSet(peers[r][p])
    BY DEF ToSet
  <2>6. IsAMaster(r, p)
    BY <2>3, <2>5 DEF IsAMaster
  <2>. QED
    BY <1>2, <2>4, <2>6
<1>7. clients'[r] = {c \in clients[r] : c[1] \notin gone}
  BY <1>5, <1>6
<1>8. ClientsFor(peers'[r]) = {c \in ClientsFor(peers[r]) : c[1] \notin gone}
  <2>1. ASSUME NEW c
        PROVE  c \in ClientsFor(peers'[r]) <=> c \in ClientsFor(peers[r]) /\ c[1] \notin gone
    BY <1>5, ClientOfPeer
  <2>. QED
    BY <2>1
<1>9. talking[r] \subseteq clients'[r]
  BY <1>6, <1>7 DEF Linkage
<1>10. Linkage(r)'
  BY <1>7, <1>8, <1>9 DEF Linkage, Follows
<1>11. \A q \in Reflectors : q # r => peers'[q] = peers[q] /\ clients'[q] = clients[q]
  BY <1>1 DEF TypeOK
<1>. QED
  BY <1>3, <1>4, <1>10, <1>11 DEF Linkage, Follows

LEMMA AliveTyped ==
  ASSUME TypeOK, NEW r \in Reflectors, NEW who, Alive(r, who)
  PROVE  age' \in [Reflectors -> [Names -> 0..Timeout]]
<1>1. [n \in Names |-> IF n \in who THEN 0 ELSE age[r][n]] \in [Names -> 0..Timeout]
  BY InterlinkAssumption DEF TypeOK, InterlinkAssumption
<1>. QED
  BY <1>1 DEF TypeOK, Alive

\* Nothing happened to the peers and those who talk.
LEMMA PeersKept ==
  ASSUME Inv, UNCHANGED <<peers, clients, talking>>
  PROVE  \A q \in Reflectors : Linkage(q)'
BY DEF Inv, Linkage, Follows

-----------------------------------------------------------------------------
(***************************************************************************)
(* The actions.                                                            *)
(***************************************************************************)

LEMMA Initially == Init => Inv
<1>. SUFFICES ASSUME Init PROVE Inv
  OBVIOUS
<1>1. file \in [Reflectors -> [Names -> Entries \cup {None}]]
  BY InterlinkAssumption DEF Init, InterlinkAssumption
<1>2. map \in [Reflectors -> [Names -> Items \cup {None}]]
  BY <1>1, ItemTyped DEF Init
<1>3. 0 \in 0..MaxChanges /\ 0 \in 0..Timeout
  BY InterlinkAssumption DEF InterlinkAssumption
<1>4. TypeOK
  BY <1>1, <1>2, <1>3 DEF Init, TypeOK, NoPeers
<1>5. ASSUME NEW r \in Reflectors PROVE Linkage(r)
  <2>1. peers[r] = NoPeers /\ clients[r] = {} /\ talking[r] = {}
    BY DEF Init
  <2>2. ClientsFor(NoPeers) = {}
    BY ClientOfPeer DEF NoPeers
  <2>. QED
    BY <2>1, <2>2 DEF Linkage, Follows
<1>. QED
  BY <1>4, <1>5 DEF Inv

LEMMA Stuttering == Inv /\ UNCHANGED vars => Inv'
BY DEF Inv, vars, fileVars, mapVars, dhtVars, peerVars, TypeOK, Linkage, Follows

LEMMA ReceiveKeeps == ASSUME Inv, NEW r \in Reflectors, Receive(r) PROVE Inv'
<1>. USE DEF Inv
<1>1. PICK msg \in net :
        /\ msg.to = r
        /\ \/ ConnectPacket(r, msg)
           \/ AckPacket(r, msg)
           \/ KeepAlivePacket(r, msg)
           \/ DisconnectPacket(r, msg)
           \/ HeaderPacket(r, msg)
  BY DEF Receive
<1>2. UNCHANGED <<file, mtime, changes, map, seen, asked, cfg, owed, calm>>
  BY DEF Receive, fileVars, mapVars, dhtVars
<1>3. msg \in Messages
  BY DEF TypeOK
<1>4. CASE ConnectPacket(r, msg)
  <2>1. msg.type = "CONN" /\ UNCHANGED <<peers, age, clients, talking>>
    BY <1>4 DEF ConnectPacket, peerVars
  <2>2. msg.from \in Names /\ msg.mods \in ModuleLists
    BY <1>3, <2>1 DEF Messages
  <2>. DEFINE ackn == [type |-> "ACKN", from |-> r, to |-> msg.from, mods |-> msg.mods]
  <2>3. ackn \in Messages
    BY <2>2, NamesAre DEF Messages
  <2>4. Delivered({ackn}) \subseteq Messages
    BY <2>3, DeliveredTyped
  <2>5. net' \subseteq net \cup Delivered({ackn})
    BY <1>4 DEF ConnectPacket
  <2>6. TypeOK'
    BY <1>2, <2>1, <2>4, <2>5 DEF TypeOK
  <2>. QED
    BY <2>1, <2>6, PeersKept
<1>5. CASE AckPacket(r, msg)
  <2>1. msg.type = "ACKN" /\ net' = net \ {msg} /\ UNCHANGED talking
    BY <1>5 DEF AckPacket
  <2>2. msg.from \in Names /\ msg.mods \in ModuleLists
    BY <1>3, <2>1 DEF Messages
  <2>3. /\ peers' \in [Reflectors -> [Names -> ModuleLists \cup {None}]]
        /\ age' \in [Reflectors -> [Names -> 0..Timeout]]
        /\ clients' \in [Reflectors -> SUBSET (Names \X Mods)]
        /\ \A q \in Reflectors : Linkage(q)'
    <3>1. CASE UNCHANGED <<peers, age, clients>>
      BY <2>1, <3>1, PeersKept DEF TypeOK, Mods
    <3>2. CASE ~UNCHANGED <<peers, age, clients>>
      <4>1. /\ ValidModules(r, msg.mods) /\ msg.from \notin Peers(r)
            /\ AddPeer(r, msg.from, msg.mods)
        BY <1>5, <3>2 DEF AckPacket
      <4>. QED
        BY <2>1, <2>2, <4>1, AddPeerKeeps
    <3>. QED
      BY <3>1, <3>2
  <2>4. TypeOK'
    BY <1>2, <2>1, <2>3 DEF TypeOK, Mods
  <2>. QED
    BY <2>3, <2>4
<1>6. CASE KeepAlivePacket(r, msg)
  <2>1. Alive(r, {msg.from}) /\ net' = net \ {msg} /\ UNCHANGED <<peers, clients, talking>>
    BY <1>6 DEF KeepAlivePacket
  <2>2. age' \in [Reflectors -> [Names -> 0..Timeout]]
    BY <2>1, AliveTyped
  <2>3. TypeOK'
    BY <1>2, <2>1, <2>2 DEF TypeOK
  <2>. QED
    BY <2>1, <2>3, PeersKept
<1>7. CASE DisconnectPacket(r, msg)
  <2>1. /\ RemovePeers(r, {msg.from}) /\ Alive(r, Removed(r, {msg.from}))
        /\ net' = net \ {msg} /\ UNCHANGED talking
    BY <1>7 DEF DisconnectPacket
  <2>2. age' \in [Reflectors -> [Names -> 0..Timeout]]
    BY <2>1, AliveTyped
  <2>3. /\ peers' \in [Reflectors -> [Names -> ModuleLists \cup {None}]]
        /\ clients' \in [Reflectors -> SUBSET (Names \X Mods)]
        /\ \A q \in Reflectors : Linkage(q)'
    BY <2>1, RemovePeersKeeps
  <2>4. TypeOK'
    BY <1>2, <2>1, <2>2, <2>3 DEF TypeOK, Mods
  <2>. QED
    BY <2>3, <2>4
<1>8. CASE HeaderPacket(r, msg)
  <2>1. msg.type = "URFH" /\ net' = net \ {msg} /\ UNCHANGED <<peers, age, clients>>
    BY <1>8 DEF HeaderPacket
  <2>2. msg.from \in Names /\ msg.mod \in Mods
    BY <1>3, <2>1 DEF Messages, Mods
  <2>. DEFINE c == <<msg.from, msg.mod>>
  <2>3. UNCHANGED talking \/ (c \in clients[r] /\ talking' = [talking EXCEPT ![r] = @ \cup {c}])
    BY <1>8 DEF HeaderPacket
  <2>4. c \in Names \X Mods
    BY <2>2
  <2>5. talking \in [Reflectors -> SUBSET (Names \X Mods)]
    BY DEF TypeOK, Mods
  <2>. HIDE DEF c
  <2>6. talking' \in [Reflectors -> SUBSET (Names \X Mods)]
    BY <2>3, <2>4, <2>5
  <2>7. TypeOK'
    BY <1>2, <2>1, <2>6 DEF TypeOK, Mods
  <2>8. ASSUME NEW q \in Reflectors PROVE Linkage(q)'
    <3>1. talking'[q] \subseteq talking[q] \cup clients[q]
      BY <2>3, <2>5
    <3>. QED
      BY <2>1, <3>1 DEF Linkage, Follows
  <2>. QED
    BY <2>7, <2>8
<1>. QED
  BY <1>1, <1>4, <1>5, <1>6, <1>7, <1>8

LEMMA KeepalivesKeep == ASSUME Inv, NEW r \in Reflectors, HandleKeepalives(r) PROVE Inv'
<1>. USE DEF Inv
<1>1. PICK silent \in SUBSET Peers(r) :
        /\ net' = net \cup Delivered([type : {"PING"}, from : {r}, to : Peers(r)])
                      \cup Delivered([type : {"DISC"}, from : {r}, to : silent])
        /\ RemovePeers(r, silent)
        /\ Alive(r, Removed(r, silent) \cup {p \in Peers(r) : IsAMaster(r, p)})
  BY DEF HandleKeepalives
<1>2. /\ owed' = [owed EXCEPT ![r] = @ \ {"keepalive"}]
      /\ UNCHANGED <<file, mtime, changes, map, seen, talking, asked, cfg, calm>>
  BY DEF HandleKeepalives, fileVars, mapVars, dhtVars
<1>3. Peers(r) \subseteq Names
  BY DEF Peers
<1>4. net' \subseteq Messages
  BY <1>1, <1>3, NoticesTyped DEF TypeOK
<1>5. /\ peers' \in [Reflectors -> [Names -> ModuleLists \cup {None}]]
      /\ clients' \in [Reflectors -> SUBSET (Names \X Mods)]
      /\ \A q \in Reflectors : Linkage(q)'
  BY <1>1, <1>2, RemovePeersKeeps
<1>6. age' \in [Reflectors -> [Names -> 0..Timeout]]
  BY <1>1, AliveTyped
<1>7. owed' \in [Reflectors -> SUBSET (Chores \cup {Speech})]
  BY <1>2 DEF TypeOK
<1>8. TypeOK'
  BY <1>2, <1>4, <1>5, <1>6, <1>7 DEF TypeOK, Mods
<1>. QED
  BY <1>5, <1>8

LEMMA PeerLinksKeep == ASSUME Inv, NEW r \in Reflectors, HandlePeerLinks(r) PROVE Inv'
<1>. USE DEF Inv
<1>. DEFINE missing == Listed(r) \ Peers(r)
            found == {p \in missing : map[r][p].ip # "unset"}
            wanted == missing \ found
            conn(p) == [type |-> "CONN", from |-> r, to |-> p, mods |-> map[r][p].mods]
            conns == {conn(p) : p \in {n \in found : Matching(r, n)}}
            left == Peers(r) \ Listed(r)
            items == [n \in Names |-> IF n \in found THEN [map[r][n] EXCEPT !.ip = "set"]
                                                     ELSE map[r][n]]
            questions == [n \in Names |-> IF n \in wanted THEN "searching" ELSE asked[r][n]]
<1>1. /\ RemovePeers(r, left)
      /\ Alive(r, Removed(r, left))
      /\ map' = [map EXCEPT ![r] = items]
      /\ net' = net \cup Delivered([type : {"DISC"}, from : {r}, to : left]) \cup Delivered(conns)
      /\ asked' = [asked EXCEPT ![r] = questions]
      /\ EmptyCfg(r, wanted)
      /\ owed' = [owed EXCEPT ![r] = @ \ {"links"}]
      /\ UNCHANGED <<file, mtime, changes, seen, talking, calm>>
  BY DEF HandlePeerLinks, fileVars
<1>2. \A p \in found : p \in Names /\ map[r][p] # None
  BY DEF Listed
<1>3. items \in [Names -> Items \cup {None}]
  BY <1>2, ListedTyped DEF TypeOK
<1>4. questions \in [Names -> {"no", "searching", "answered"}]
  BY DEF TypeOK
<1>5. conns \subseteq Messages
  <2>1. ASSUME NEW p \in found PROVE conn(p) \in Messages
    <3>1. p \in Names /\ map[r][p].mods \in ModuleLists
      BY <1>2, ListedTyped
    <3>. QED
      BY <3>1, NamesAre DEF Messages
  <2>. HIDE DEF conn, found
  <2>. QED
    BY <2>1
<1>6. left \subseteq Names
  BY DEF Peers
<1>. HIDE DEF missing, found, wanted, conns, left, items, questions
<1>7. map' \in [Reflectors -> [Names -> Items \cup {None}]]
  BY <1>1, <1>3 DEF TypeOK
<1>8. asked' \in [Reflectors -> [Names -> {"no", "searching", "answered"}]]
  BY <1>1, <1>4 DEF TypeOK
<1>9. net' \subseteq Messages
  BY <1>1, <1>5, <1>6, NoticesTyped, DeliveredTyped DEF TypeOK
<1>10. cfg' \in [Reflectors -> Names \cup {None}]
  BY <1>1 DEF TypeOK, EmptyCfg
<1>11. owed' \in [Reflectors -> SUBSET (Chores \cup {Speech})]
  BY <1>1 DEF TypeOK
<1>12. age' \in [Reflectors -> [Names -> 0..Timeout]]
  BY <1>1, AliveTyped
<1>13. /\ peers' \in [Reflectors -> [Names -> ModuleLists \cup {None}]]
       /\ clients' \in [Reflectors -> SUBSET (Names \X Mods)]
       /\ \A q \in Reflectors : Linkage(q)'
  BY <1>1, RemovePeersKeeps
<1>14. TypeOK'
  BY <1>1, <1>7, <1>8, <1>9, <1>10, <1>11, <1>12, <1>13 DEF TypeOK, Mods
<1>. QED
  BY <1>13, <1>14

LEMMA QueueKeeps == ASSUME Inv, NEW r \in Reflectors, HandleQueue(r) PROVE Inv'
<1>. USE DEF Inv
<1>1. PICK m \in Modules[r] :
        net' = net \cup Delivered([type : {"URFH"}, from : {r}, mod : {m},
                                  to : {n \in Names : <<n, m>> \in clients[r]}])
  BY DEF HandleQueue
<1>2. /\ owed' = [owed EXCEPT ![r] = @ \ {Speech}]
      /\ UNCHANGED <<file, mtime, changes, map, seen, peers, age, clients, talking, asked, cfg, calm>>
  BY DEF HandleQueue, fileVars, mapVars, peerVars, dhtVars
<1>3. [type : {"URFH"}, from : {r}, mod : {m}, to : {n \in Names : <<n, m>> \in clients[r]}]
        \subseteq Messages
  BY NamesAre DEF Messages
<1>4. net' \subseteq Messages
  BY <1>1, <1>3, DeliveredTyped DEF TypeOK
<1>5. owed' \in [Reflectors -> SUBSET (Chores \cup {Speech})]
  BY <1>2 DEF TypeOK
<1>6. TypeOK'
  BY <1>2, <1>4, <1>5 DEF TypeOK
<1>. QED
  BY <1>2, <1>6, PeersKept

LEMMA CloseKeeps == ASSUME Inv, NEW r \in Reflectors, CloseStream(r) PROVE Inv'
<1>. USE DEF Inv
<1>1. PICK c \in talking[r] : talking' = [talking EXCEPT ![r] = @ \ {c}]
  BY DEF CloseStream
<1>2. UNCHANGED <<file, mtime, changes, map, seen, peers, age, clients, asked, cfg, net, owed, calm>>
  BY DEF CloseStream, fileVars, mapVars, dhtVars
<1>3. talking \in [Reflectors -> SUBSET (Names \X Mods)]
  BY DEF TypeOK, Mods
<1>4. talking' \in [Reflectors -> SUBSET (Names \X Mods)]
  BY <1>1, <1>3
<1>5. TypeOK'
  BY <1>2, <1>4 DEF TypeOK, Mods
<1>6. \A q \in Reflectors : talking'[q] \subseteq talking[q]
  BY <1>1, <1>3
<1>7. \A q \in Reflectors : Linkage(q)'
  BY <1>2, <1>6 DEF Linkage, Follows
<1>. QED
  BY <1>5, <1>7

LEMMA DHTKeeps == ASSUME Inv, NEW r \in Reflectors, DHT(r) PROVE Inv'
<1>. USE DEF Inv
<1>1. PICK p \in Names : DHTValue(r, p) \/ DHTDone(r, p) \/ DHTFails(r, p)
  BY DEF DHT
<1>2. UNCHANGED <<file, mtime, changes, seen, peers, age, clients, talking, net, owed, calm>>
  BY DEF DHT, fileVars, peerVars
<1>3. /\ asked' \in [Reflectors -> [Names -> {"no", "searching", "answered"}]]
      /\ cfg' \in [Reflectors -> Names \cup {None}]
  <2>1. \E answer \in {"no", "answered"} : asked' = [asked EXCEPT ![r][p] = answer]
    BY <1>1 DEF DHTValue, DHTDone, DHTFails
  <2>2. UNCHANGED cfg \/ cfg' = [cfg EXCEPT ![r] = p]
    BY <1>1 DEF DHTValue, DHTDone, DHTFails
  <2>3. cfg' \in [Reflectors -> Names \cup {None}]
    BY <2>2 DEF TypeOK
  <2>4. PICK answer \in {"no", "answered"} : asked' = [asked EXCEPT ![r][p] = answer]
    BY <2>1
  <2>5. asked' \in [Reflectors -> [Names -> {"no", "searching", "answered"}]]
    BY <2>4 DEF TypeOK
  <2>. QED
    BY <2>3, <2>5
<1>4. map' \in [Reflectors -> [Names -> Items \cup {None}]]
  <2>. DEFINE n == cfg[r]
  <2>1. CASE UNCHANGED map
    BY <2>1 DEF TypeOK
  <2>2. CASE n \in Listed(r) /\ map' = [map EXCEPT ![r][n].ip = "fetched"]
    <3>1. n \in Names /\ map[r][n] # None
      BY <2>2 DEF Listed
    <3>2. [map[r][n] EXCEPT !.ip = "fetched"] \in Items
      BY <3>1, ListedTyped
    <3>3. map' = [map EXCEPT ![r] = [map[r] EXCEPT ![n] = [map[r][n] EXCEPT !.ip = "fetched"]]]
      BY <2>2, <3>1 DEF TypeOK
    <3>. HIDE DEF n
    <3>. QED
      BY <3>1, <3>2, <3>3 DEF TypeOK
  <2>. QED
    BY <1>1, <2>1, <2>2 DEF DHTValue, DHTDone, DHTFails
<1>5. TypeOK'
  BY <1>2, <1>3, <1>4 DEF TypeOK
<1>. QED
  BY <1>2, <1>5, PeersKept

LEMMA EditKeeps == ASSUME Inv, NEW r \in Reflectors, EditFile(r) PROVE Inv'
<1>. USE DEF Inv
<1>1. PICK rw \in Rewrites : file' = [file EXCEPT ![r][rw[2]] = rw[3]]
  BY DEF EditFile
<1>2. /\ changes < MaxChanges /\ changes' = changes + 1
      /\ mtime' = [mtime EXCEPT ![r] = changes']
      /\ UNCHANGED <<map, seen, peers, age, clients, talking, asked, cfg, net, owed, calm>>
  BY DEF EditFile, mapVars, peerVars, dhtVars
<1>3. rw[2] \in Names /\ rw[3] \in Entries \cup {None}
  BY InterlinkAssumption DEF InterlinkAssumption
<1>4. file' \in [Reflectors -> [Names -> Entries \cup {None}]]
  BY <1>1, <1>3 DEF TypeOK
<1>5. changes' \in 0..MaxChanges
  BY <1>2, InterlinkAssumption DEF TypeOK, InterlinkAssumption
<1>6. mtime' \in [Reflectors -> 0..MaxChanges]
  BY <1>2, <1>5 DEF TypeOK
<1>7. TypeOK'
  BY <1>2, <1>4, <1>5, <1>6 DEF TypeOK
<1>. QED
  BY <1>2, <1>7, PeersKept

LEMMA LoadTyped ==
  ASSUME TypeOK, NEW r \in Reflectors, LoadFromFile(r)
  PROVE  /\ map' \in [Reflectors -> [Names -> Items \cup {None}]]
         /\ seen' \in [Reflectors -> 0..MaxChanges]
<1>. DEFINE items == [n \in Names |-> Item(file[r][n])]
<1>1. items \in [Names -> Items \cup {None}]
  BY LoadedTyped
<1>2. map' = [map EXCEPT ![r] = items] /\ seen' = [seen EXCEPT ![r] = mtime[r]]
  BY DEF LoadFromFile
<1>. HIDE DEF items
<1>. QED
  BY <1>1, <1>2 DEF TypeOK

LEMMA ReloadKeeps == ASSUME Inv, NEW r \in Reflectors, ReloadFromFile(r) PROVE Inv'
<1>. USE DEF Inv
<1>1. /\ LoadFromFile(r)
      /\ UNCHANGED <<file, mtime, changes, peers, age, clients, talking, asked, cfg, net, owed, calm>>
  BY DEF ReloadFromFile, fileVars, peerVars, dhtVars
<1>2. TypeOK'
  BY <1>1, LoadTyped DEF TypeOK
<1>. QED
  BY <1>1, <1>2, PeersKept

\* A reflector that starts anew has nobody linked and nobody talking.
LEMMA RestartKeeps == ASSUME Inv, NEW r \in Reflectors, Restart(r) PROVE Inv'
<1>. USE DEF Inv
<1>1. /\ LoadFromFile(r)
      /\ changes < MaxChanges /\ changes' = changes + 1
      /\ peers' = [peers EXCEPT ![r] = NoPeers]
      /\ Alive(r, Names)
      /\ clients' = [clients EXCEPT ![r] = {}]
      /\ talking' = [talking EXCEPT ![r] = {}]
      /\ asked' = [asked EXCEPT ![r] = [n \in Names |-> "no"]]
      /\ cfg' = [cfg EXCEPT ![r] = None]
      /\ owed' = [owed EXCEPT ![r] = {}]
      /\ UNCHANGED <<file, mtime, net, calm>>
  BY DEF Restart, fileVars
<1>2. map' \in [Reflectors -> [Names -> Items \cup {None}]] /\ seen' \in [Reflectors -> 0..MaxChanges]
  BY <1>1, LoadTyped
<1>3. age' \in [Reflectors -> [Names -> 0..Timeout]]
  BY <1>1, AliveTyped
<1>4. NoPeers \in [Names -> ModuleLists \cup {None}] /\ ClientsFor(NoPeers) = {}
  BY ClientOfPeer DEF NoPeers
<1>. HIDE DEF NoPeers
<1>5. changes' \in 0..MaxChanges
  BY <1>1, InterlinkAssumption DEF TypeOK, InterlinkAssumption
<1>6. /\ clients \in [Reflectors -> SUBSET (Names \X Mods)]
      /\ talking \in [Reflectors -> SUBSET (Names \X Mods)]
  BY DEF TypeOK, Mods
<1>7. /\ clients' \in [Reflectors -> SUBSET (Names \X Mods)]
      /\ talking' \in [Reflectors -> SUBSET (Names \X Mods)]
      /\ peers' \in [Reflectors -> [Names -> ModuleLists \cup {None}]]
  BY <1>1, <1>4, <1>6 DEF TypeOK
<1>8. /\ asked' \in [Reflectors -> [Names -> {"no", "searching", "answered"}]]
      /\ cfg' \in [Reflectors -> Names \cup {None}]
      /\ owed' \in [Reflectors -> SUBSET (Chores \cup {Speech})]
  BY <1>1 DEF TypeOK
<1>9. TypeOK'
  BY <1>1, <1>2, <1>3, <1>5, <1>7, <1>8 DEF TypeOK, Mods
<1>10. ASSUME NEW q \in Reflectors PROVE Linkage(q)'
  <2>1. CASE q = r
    BY <1>1, <1>4, <1>6, <2>1 DEF Linkage, Follows, TypeOK
  <2>2. CASE q # r
    <3>1. peers'[q] = peers[q] /\ clients'[q] = clients[q] /\ talking'[q] = talking[q]
      BY <1>1, <1>6, <2>2 DEF TypeOK
    <3>. QED
      BY <3>1 DEF Linkage, Follows
  <2>. QED
    BY <2>1, <2>2
<1>. QED
  BY <1>9, <1>10

LEMMA NetworkKeeps == Inv /\ (Lose \/ BecomeCalm) => Inv'
<1>. SUFFICES ASSUME Inv, Lose \/ BecomeCalm PROVE Inv'
  OBVIOUS
<1>. USE DEF Inv
<1>1. /\ net' \subseteq net /\ calm' \in BOOLEAN
      /\ UNCHANGED <<file, mtime, changes, map, seen, peers, age, clients, talking, asked, cfg, owed>>
  BY DEF Lose, BecomeCalm, fileVars, mapVars, peerVars, dhtVars, TypeOK
<1>2. TypeOK'
  BY <1>1 DEF TypeOK
<1>. QED
  BY <1>1, <1>2, PeersKept

LEMMA TickKeeps == Inv /\ Tick => Inv'
<1>. SUFFICES ASSUME Inv, Tick PROVE Inv'
  OBVIOUS
<1>. USE DEF Inv
<1>1. /\ owed' = [r \in Reflectors |-> IF Audience(r) THEN Chores \cup {Speech} ELSE Chores]
      /\ age' = [r \in Reflectors |->
                   [n \in Names |-> IF n \in Peers(r) /\ age[r][n] < Timeout THEN age[r][n] + 1
                                                                            ELSE age[r][n]]]
      /\ UNCHANGED <<file, mtime, changes, map, seen, peers, clients, talking, asked, cfg, net, calm>>
  BY DEF Tick, fileVars, mapVars, dhtVars
<1>2. owed' \in [Reflectors -> SUBSET (Chores \cup {Speech})]
  BY <1>1
<1>3. age' \in [Reflectors -> [Names -> 0..Timeout]]
  <2>1. \A r \in Reflectors, n \in Names : age[r][n] \in 0..Timeout
    BY DEF TypeOK
  <2>2. \A a \in 0..Timeout : a < Timeout => a + 1 \in 0..Timeout
    BY InterlinkAssumption DEF InterlinkAssumption
  <2>. QED
    BY <1>1, <2>1, <2>2
<1>4. TypeOK'
  BY <1>1, <1>2, <1>3 DEF TypeOK
<1>. QED
  BY <1>1, <1>4, PeersKept

LEMMA Invariance == Spec => []Inv
<1>1. Inv /\ [Next]_vars => Inv'
  BY Stuttering, ReceiveKeeps, KeepalivesKeep, PeerLinksKeep, QueueKeeps, CloseKeeps, DHTKeeps,
     EditKeeps, ReloadKeeps, RestartKeeps, NetworkKeeps, TickKeeps DEF Next, Chore
<1>. QED
  BY <1>1, Initially, PTL DEF Spec

-----------------------------------------------------------------------------

\* Every reachable state of linked reflectors is well typed, whatever the network
\* loses and the operators write.
THEOREM InterlinkTypeCorrect == Spec => []TypeOK
<1>1. Inv => TypeOK
  BY DEF Inv
<1>. QED
  BY <1>1, Invariance, PTL

\* CURFPeers and CClients agree: AddPeer, RemovePeer and RemoveClient leave
\* neither a client without its peer nor a peer without a client for each module.
THEOREM ClientsFollowPeersCorrect == Spec => []ClientsFollowPeers
<1>1. Inv => ClientsFollowPeers
  BY DEF Inv, Linkage, Follows, ClientsFor, ClientsFollowPeers, Peers
<1>. QED
  BY <1>1, Invariance, PTL

\* A client that is the master of a stream is never taken from CClients.
THEOREM TalkersLinkedCorrect == Spec => []TalkersLinked
<1>1. Inv => TalkersLinked
  BY DEF Inv, Linkage, TalkersLinked
<1>. QED
  BY <1>1, Invariance, PTL

\* Removing peers spares those that talk.
LEMMA MastersStay ==
  ASSUME Inv, NEW r \in Reflectors, NEW doomed, RemovePeers(r, doomed),
         NEW q \in Reflectors, NEW p \in Names, p \in Peers(q), IsAMaster(q, p)
  PROVE  p \in Peers(q)'
<1>. DEFINE gone == Removed(r, doomed)
<1>1. peers' = [peers EXCEPT ![r] = [n \in Names |-> IF n \in gone THEN None ELSE peers[r][n]]]
  BY DEF RemovePeers
<1>2. \A n \in gone : ~IsAMaster(r, n)
  BY DEF Removed, Removable
<1>3. q # r \/ p \notin gone
  BY <1>2
<1>. HIDE DEF gone
<1>4. peers'[q][p] = peers[q][p]
  BY <1>1, <1>3 DEF Inv, TypeOK
<1>. QED
  BY <1>4 DEF Peers

\* A peer that is added leaves the others as they are.
LEMMA AddedJoins ==
  ASSUME Inv, NEW r \in Reflectors, NEW n \in Names, NEW mods \in ModuleLists,
         AddPeer(r, n, mods), NEW q \in Reflectors, NEW p \in Names, p \in Peers(q)
  PROVE  p \in Peers(q)'
<1>1. peers' = [peers EXCEPT ![r][n] = mods] /\ mods # None
  BY ListsAreNotNone DEF AddPeer
<1>2. peers'[q][p] # None
  BY <1>1 DEF Inv, TypeOK, Peers
<1>. QED
  BY <1>2 DEF Peers

\* A step of reflector q lets those who talk at r have their link, unless r restarts.
LEMMA StepKeepsLink ==
  ASSUME Inv, [Next]_vars, NEW r \in Reflectors, NEW p \in Names,
         p \in Peers(r), IsAMaster(r, p), ~Restart(r)
  PROVE  p \in Peers(r)'
<1>1. CASE UNCHANGED peers
  BY <1>1 DEF Peers
<1>2. ASSUME NEW q \in Reflectors, Receive(q) PROVE p \in Peers(r)'
  <2>1. PICK msg \in net :
          \/ ConnectPacket(q, msg)
          \/ AckPacket(q, msg)
          \/ KeepAlivePacket(q, msg)
          \/ DisconnectPacket(q, msg)
          \/ HeaderPacket(q, msg)
    BY <1>2 DEF Receive
  <2>2. CASE AckPacket(q, msg)
    <3>1. msg \in Messages /\ msg.type = "ACKN"
      BY <2>2 DEF Inv, TypeOK, AckPacket
    <3>2. msg.from \in Names /\ msg.mods \in ModuleLists
      BY <3>1 DEF Messages
    <3>3. UNCHANGED peers \/ AddPeer(q, msg.from, msg.mods)
      BY <2>2 DEF AckPacket
    <3>. QED
      BY <1>1, <3>2, <3>3, AddedJoins
  <2>3. CASE DisconnectPacket(q, msg)
    BY <2>3, MastersStay DEF DisconnectPacket
  <2>4. CASE ConnectPacket(q, msg) \/ KeepAlivePacket(q, msg) \/ HeaderPacket(q, msg)
    BY <1>1, <2>4 DEF ConnectPacket, KeepAlivePacket, HeaderPacket, peerVars
  <2>. QED
    BY <2>1, <2>2, <2>3, <2>4
<1>3. ASSUME NEW q \in Reflectors, HandleKeepalives(q) PROVE p \in Peers(r)'
  BY <1>3, MastersStay DEF HandleKeepalives
<1>4. ASSUME NEW q \in Reflectors, HandlePeerLinks(q) PROVE p \in Peers(r)'
  BY <1>4, MastersStay DEF HandlePeerLinks
<1>5. ASSUME NEW q \in Reflectors, Restart(q) PROVE p \in Peers(r)'
  <2>1. q # r /\ peers' = [peers EXCEPT ![q] = NoPeers]
    BY <1>5 DEF Restart
  <2>2. peers'[r] = peers[r]
    BY <2>1 DEF Inv, TypeOK
  <2>. QED
    BY <2>2 DEF Peers
<1>6. ASSUME NEW q \in Reflectors,
             HandleQueue(q) \/ CloseStream(q) \/ DHT(q) \/ EditFile(q) \/ ReloadFromFile(q)
      PROVE  UNCHANGED peers
  BY <1>6 DEF HandleQueue, CloseStream, DHT, EditFile, ReloadFromFile, peerVars
<1>7. Lose \/ BecomeCalm \/ Tick \/ UNCHANGED vars => UNCHANGED peers
  BY DEF Lose, BecomeCalm, Tick, peerVars, vars
<1>. QED
  BY <1>1, <1>2, <1>3, <1>4, <1>5, <1>6, <1>7 DEF Next, Chore

\* HandleKeepalives, HandlePeerLinks and OnDisconnectPacketIn never remove a peer
\* that is the master of an open stream: only a restart cuts a transmission.
THEOREM LinkOutlivesTalkCorrect == Spec => LinkOutlivesTalk
<1>1. Inv /\ [Next]_vars =>
        [\A r \in Reflectors, p \in Names :
           p \in Peers(r) /\ IsAMaster(r, p) /\ ~Restart(r) => p \in Peers(r)']_vars
  BY StepKeepsLink
<1>. QED
  BY <1>1, Invariance, PTL DEF Spec, LinkOutlivesTalk
=============================================================================
