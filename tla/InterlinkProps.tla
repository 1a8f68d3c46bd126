---------------------------- MODULE InterlinkProps ----------------------------
(***************************************************************************)
(* What linking promises: to those who talk, and to the operators.         *)
(***************************************************************************)
EXTENDS Interlink

\* The clients of protocol URF are those of the peers, one for each module they
\* were linked for, whatever is added, refused, removed or renewed when.
ClientsFollowPeers ==
  \A r \in Reflectors : clients[r] = UNION {ClientsOf(p, peers[r][p]) : p \in Peers(r)}

\* Who talks is linked: no DISC, timeout or change of the interlink file takes
\* the client of an open stream from under it.
TalkersLinked == \A r \in Reflectors : talking[r] \subseteq clients[r]

\* A transmission is never cut by the link it came over: as long as it lasts
\* the peer stays a peer.  Only a restart of the reflector ends both.
LinkOutlivesTalk ==
  [][\A r \in Reflectors, p \in Names :
       p \in Peers(r) /\ IsAMaster(r, p) /\ ~Restart(r) => p \in Peers(r)']_vars

\* Two reflectors list each other for the same modules, which both have.
\* With static addresses only the sender's modules are checked.
Lists(r, p) == file[r][p] # None
Agree(r, p) ==
  /\ Lists(r, p) /\ Lists(p, r)
  /\ file[r][p].mods = file[p][r].mods
  /\ \A m \in ToSet(file[r][p].mods) :
       /\ m \in Modules[r] \cap Modules[p]
       /\ m \in Coded[r] <=> m \in Coded[p]
Published(r, p) ==
  /\ file[r][p].dht => p \in DOMAIN Stamp
  /\ file[p][r].dht => r \in DOMAIN Stamp
Linked(r, p) == p \in Peers(r) /\ r \in Peers(p)

\* Reflectors that list each other are linked at last, and stay so, when the
\* network has become calm: after any losses, crossed or one-sided
\* connects, reloads that forget addresses, and restarts.
LinksComeUp ==
  \A r, p \in Reflectors :
    r # p => (<>[](calm /\ Agree(r, p) /\ Published(r, p)) => <>[]Linked(r, p))

\* A reflector that takes a peer out of its file, which lists somebody else,
\* ends the link on both sides, although DISC may get lost or find the peer
\* talking, if everybody falls silent at last: each time the links are checked
\* somebody might talk.
Quiet == \A r \in Reflectors : talking[r] = {}
LinksGoDown ==
  \A r, p \in Reflectors :
    r # p => (<>[](calm /\ Quiet /\ ~Lists(r, p) /\ \E n \in Names : Lists(r, n))
                => <>[](p \notin Peers(r) /\ r \notin Peers(p)))

\* A link of one side only, as after a restart or where an empty file lets
\* everybody link, is not kept for ever.
NoHalfLinks ==
  \A r, p \in Reflectors :
    r # p => []<>(p \in Peers(r) <=> r \in Peers(p))
=============================================================================
