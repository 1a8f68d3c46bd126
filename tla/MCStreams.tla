------------------------------ MODULE MCStreams ------------------------------
(* Small reflectors for StreamProps: which clients, which protocols, which   *)
(* modules their packets can name.                                           *)
EXTENDS StreamProps, Sequences, TLC

CONSTANTS A, B, C, s1, s2

MCSymmetry == Permutations({s1, s2})

\* Stations are named after their protocol, with a number when there are two.
MCStations == [p \in Protocols |-> {p, p \o " 2"}]
MCProtoOf == [c \in Clients |-> CHOOSE p \in Active : c \in MCStations[p]]

\* Every protocol reaches every module.
MCShared == [p \in Active |-> Modules]

\* NXDN reaches one module, M17 the other, the rest both.
MCOverlapping ==
  [p \in Active |-> IF p = "nxdn" THEN {A} ELSE IF p = "m17" THEN {B} ELSE Modules]

\* The modules are shared out among the protocols of a run.
MCDedicated ==
  [p \in Active |-> CASE p = "urf" -> {A} [] p = "dcs" -> {B} [] p = "p25" -> {C}]
=============================================================================
