--------------------------- MODULE MCStreamHistory ---------------------------
(* The small reflectors of MCStreams, with the history of StreamHistory.     *)
EXTENDS MCStreams, StreamHistory

\* The two clients that come in one behaviour: they share the modules, and their
\* threads contend for the clients and for stream ids.
MCParties ==
  {{"ysf", "ysf 2"}, {"ysf", "dplus"}, {"dplus", "dextra"}, {"nxdn", "mmdvm"}, {"mmdvm", "m17"}}

\* Bound: only a party comes, and the thread of a protocol nobody has come to
\* stays where it is.
MCOneParty ==
  LET came == listed \cup gone
  IN  /\ \E party \in MCParties : came \subseteq party
      /\ \A p \in Active \ {ProtoOf[c] : c \in came} : pc[p] = "receive"

\* Bound: once two threads have met on a module, no other call of OpenStream
\* begins until all is at rest.
MCWindDown == crossed => \A p \in Active : pc[p] # "check"
=============================================================================
