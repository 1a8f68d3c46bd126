----------------------------- MODULE MCInterlink -----------------------------
(* Two reflectors, and the callsign of a third that is never reached.        *)
EXTENDS InterlinkProps, TLC

CONSTANTS R1, R2, X, A, B

MCModules == [n \in Names |-> {A, B}]
MCCoded == [n \in Names |-> {A}]
MCStamp == (R1 :> 1) @@ (R2 :> 2) @@ (X :> 3)

\* Nobody talks on B, which the peers found by DHT share.
Static == [mods |-> <<A>>, dht |-> FALSE]
Dht == [mods |-> <<B>>, dht |-> TRUE]
Fixed == [mods |-> <<B>>, dht |-> FALSE]
MCEntries == {Static, Dht, Fixed}
Line(n, e) == (n :> e) @@ NoPeers

\* R1 finds both its peers by DHT; both list each other; R1 lists X only, and
\* drops the peer that lists it; R1 lists nobody, and everybody may link.
MCFirstFiles ==
  {(R1 :> ((X :> Dht) @@ Line(R2, Dht))) @@ (R2 :> Line(R1, Fixed))}
  \cup {(R1 :> f) @@ (R2 :> Line(R1, Static)) :
          f \in {(X :> Static) @@ Line(R2, Static), Line(X, Static), NoPeers}}
MCRewrites == {<<R1, R2, None>>, <<R1, R2, Static>>}
=============================================================================
