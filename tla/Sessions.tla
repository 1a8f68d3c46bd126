------------------------------ MODULE Sessions ------------------------------
(***************************************************************************)
(* How a station comes, stays and goes (the Task of DExtraProtocol.cpp,    *)
(* DPlusProtocol.cpp, DCSProtocol.cpp, M17Protocol.cpp, YSFProtocol.cpp,   *)
(* NXDNProtocol.cpp, P25Protocol.cpp, DMRMMDVMProtocol.cpp; Clients.cpp):  *)
(* one station with one address, of one of the protocols, and its entries  *)
(* in the list of clients.                                                 *)
(*                                                                         *)
(* Packets of the station and answers of the reflector get lost, the       *)
(* station links again without having unlinked, and dies without a word.   *)
(***************************************************************************)
EXTENDS Naturals, Sequences, FiniteSets

CONSTANTS
  Kinds,     \* the protocols one of which is looked at
  Modules,   \* m_Modules
  Autolink,  \* m_AutolinkModule, or None
  Periods,   \* keepalive periods until the timeout: 10, with DCS 30
  None       \* ' ', no module

\* What the constants have to be.
SessionsAssumption ==
  /\ Kinds \subseteq {"dextra", "dplus", "dcs", "m17", "ysf", "nxdn", "p25", "mmdvm"}
  /\ None \notin Modules /\ Autolink \in Modules \cup {None}
  /\ Periods \in Nat \ {0}

VARIABLES
  kind,     \* the protocol
  up,       \* the station runs
  on,       \* the module it thinks it is linked to; None: to none, or to any
  list,     \* its entries in m_Clients: [module, age, master]
  strayed   \* it has linked to a second module before it left the first, or left
            \* without the reflector hearing it, or while it talked

vars == <<kind, up, on, list, strayed>>

Client(m) == [module |-> m, age |-> 0, master |-> FALSE]

Init ==
  /\ kind \in Kinds
  /\ up = TRUE
  /\ on = None
  /\ list = <<>>
  /\ strayed = FALSE

\* FindClient with the address alone, or with the callsign too.
Found == list # <<>>

-----------------------------------------------------------------------------

\* AddClient: not twice the same callsign, address and module.
AddClient(m) ==
  list' = IF \E i \in DOMAIN list : list[i].module = m THEN list ELSE Append(list, Client(m))

\* A connect packet that names a module, and may get no answer.
Link(m, acked) ==
  /\ AddClient(m)
  /\ on' = IF acked THEN m ELSE on
  /\ strayed' = (strayed \/ on \notin {m, None} \/ \E i \in DOMAIN list : list[i].module # m)

LinkDextra(m, acked) == kind = "dextra" /\ Link(m, acked)
LinkDcs(m, acked) == kind = "dcs" /\ Link(m, acked)
LinkM17(m, acked) == kind = "m17" /\ Link(m, acked)

\* A login names none.
LoginDplus == kind = "dplus" /\ AddClient(None) /\ UNCHANGED <<on, strayed>>

\* Mutant: only AddClient looks whether the station is there.
FoundSame == \E i \in DOMAIN list : list[i].module = Autolink

\* Is the station in the list?
AlreadyThere == Found

\* A login or poll that is also a keepalive.
Poll(m) ==
  /\ list' = IF AlreadyThere THEN [list EXCEPT ![1].age = 0] ELSE Append(list, Client(m))
  /\ UNCHANGED <<on, strayed>>

LoginMmdvm == kind = "mmdvm" /\ Poll(None)
PollYsf == kind = "ysf" /\ Poll(Autolink)
PollNxdn == kind = "nxdn" /\ Poll(Autolink)
PollP25 == kind = "p25" /\ Poll(Autolink)

Connect ==
  /\ up
  /\ \/ \E m \in Modules : \E acked \in BOOLEAN :
          LinkDextra(m, acked) \/ LinkDcs(m, acked) \/ LinkM17(m, acked)
     \/ LoginDplus \/ LoginMmdvm \/ PollYsf \/ PollNxdn \/ PollP25
  /\ UNCHANGED <<kind, up>>

\* A keepalive finds every entry of the station, by its address and, but for
\* D-Plus, its callsign.
Alive == list' = [i \in DOMAIN list |-> [list[i] EXCEPT !.age = 0]]

KeepAliveDextra == kind = "dextra" /\ Alive
KeepAliveDplus == kind = "dplus" /\ Alive
KeepAliveDcs == kind = "dcs" /\ Alive
KeepAliveM17 == kind = "m17" /\ Alive
KeepAliveMmdvm == kind = "mmdvm" /\ Alive

KeepAlivePacket ==
  /\ up
  /\ KeepAliveDextra \/ KeepAliveDplus \/ KeepAliveDcs \/ KeepAliveM17 \/ KeepAliveMmdvm
  /\ UNCHANGED <<kind, up, on, strayed>>

\* RemoveClient refuses a master.
MayGo == ~list[1].master

\* A disconnect packet: the first entry with its address goes.
RemoveFound == list' = IF Found /\ MayGo THEN Tail(list) ELSE list

DisconnectDextra == kind = "dextra" /\ RemoveFound
DisconnectDplus == kind = "dplus" /\ RemoveFound
DisconnectDcs == kind = "dcs" /\ RemoveFound
DisconnectM17 == kind = "m17" /\ RemoveFound
DisconnectMmdvm == kind = "mmdvm" /\ RemoveFound
DisconnectYsf == kind = "ysf" /\ RemoveFound
DisconnectNxdn == kind = "nxdn" /\ RemoveFound
DisconnectP25 == kind = "p25" /\ RemoveFound

Disconnect(lost) ==
  /\ up
  /\ on' = None
  /\ IF lost THEN UNCHANGED list
     ELSE \/ DisconnectDextra \/ DisconnectDplus \/ DisconnectDcs \/ DisconnectM17
          \/ DisconnectMmdvm \/ DisconnectYsf \/ DisconnectNxdn \/ DisconnectP25
  /\ strayed' = (strayed \/ (Found /\ (lost \/ list[1].master)))
  /\ UNCHANGED <<kind, up>>

\* A header opens a stream for the first entry found, on the module it is linked
\* to or is moved to.
OpenOn(m) ==
  /\ Found /\ ~list[1].master
  /\ list' = [list EXCEPT ![1].master = TRUE, ![1].module = m]

\* A D-Plus client moves to the module it talks on, the group id of a YSF client
\* names its module, and a DMR client that has none links to the one it names.
TalkDplus(m) == kind = "dplus" /\ OpenOn(m)
TalkYsf(m) == kind = "ysf" /\ OpenOn(m)
TalkMmdvm(m) == kind = "mmdvm" /\ Found /\ OpenOn(IF list[1].module = None THEN m ELSE list[1].module)
TalkLinked == kind \notin {"dplus", "ysf", "mmdvm"} /\ Found /\ OpenOn(list[1].module)

Talk(m) ==
  /\ up
  /\ TalkDplus(m) \/ TalkYsf(m) \/ TalkMmdvm(m) \/ TalkLinked
  /\ UNCHANGED <<kind, up, on, strayed>>

\* CloseStream.
Close ==
  /\ \E i \in DOMAIN list : list[i].master
  /\ list' = [i \in DOMAIN list |-> [list[i] EXCEPT !.master = FALSE]]
  /\ UNCHANGED <<kind, up, on, strayed>>

\* Mutant: nobody is ever too old.
Ageless(c) == TRUE

IsAlive(c) == c.age < Periods

\* Once a period: a master is alive, others may be too old.
Stays(c) == c.master \/ IsAlive(c)
Older(c) == IF c.master THEN [c EXCEPT !.age = 0]
            ELSE IF c.age < Periods THEN [c EXCEPT !.age = c.age + 1] ELSE c

\* The entries that stay, in their order.
Staying == {i \in DOMAIN list : Stays(list[i])}
Nth(n) == CHOOSE i \in Staying : Cardinality({k \in Staying : k <= i}) = n
DropDead == list' = [n \in 1..Cardinality(Staying) |-> Older(list[Nth(n)])]

\* Who is dropped is told by a packet, which may be lost, or with YSF, NXDN, P25
\* and DMR not at all: DMR sends an empty datagram.
Told == on' \in (IF up /\ \E i \in DOMAIN list : ~Stays(list[i]) THEN {on, None} ELSE {on})
KeepalivesDextra == kind = "dextra" /\ DropDead /\ Told
KeepalivesDplus == kind = "dplus" /\ DropDead /\ Told
KeepalivesDcs == kind = "dcs" /\ DropDead /\ Told
KeepalivesM17 == kind = "m17" /\ DropDead /\ Told
KeepalivesMmdvm == kind = "mmdvm" /\ DropDead /\ UNCHANGED on
KeepalivesYsf == kind = "ysf" /\ DropDead /\ UNCHANGED on
KeepalivesNxdn == kind = "nxdn" /\ DropDead /\ UNCHANGED on
KeepalivesP25 == kind = "p25" /\ DropDead /\ UNCHANGED on

HandleKeepalives ==
  /\ \/ KeepalivesDextra \/ KeepalivesDplus \/ KeepalivesDcs \/ KeepalivesM17
     \/ KeepalivesMmdvm \/ KeepalivesYsf \/ KeepalivesNxdn \/ KeepalivesP25
  /\ UNCHANGED <<kind, up, strayed>>

\* The station dies.
Die == up /\ up' = FALSE /\ UNCHANGED <<kind, on, list, strayed>>

Next ==
  \/ Connect \/ KeepAlivePacket \/ Close \/ HandleKeepalives \/ Die
  \/ \E lost \in BOOLEAN : Disconnect(lost)
  \/ \E m \in Modules : Talk(m)

Spec == Init /\ [][Next]_vars
FairSpec == Spec /\ WF_vars(HandleKeepalives) /\ WF_vars(Close)

-----------------------------------------------------------------------------

(***************************************************************************)
(* A station whose polls or logins find it by its callsign has one entry,  *)
(* on whatever module it is meanwhile.                                     *)
(***************************************************************************)
OneEntry == kind \in {"ysf", "nxdn", "p25", "mmdvm"} => Len(list) <= 1

(***************************************************************************)
(* A station that names a module when it links has no entry on another,    *)
(* and thus does not hear two modules, unless it linked to a second one    *)
(* before it left the first, or left unheard or while it talked.           *)
(***************************************************************************)
OneModule ==
  kind \in {"dextra", "dcs", "m17"} /\ ~strayed =>
    /\ Len(list) <= 1
    /\ on # None /\ list # <<>> => list[1].module = on

\* The reflector has forgotten the station.
Forgotten == list = <<>>

(***************************************************************************)
(* The inductive invariant behind OneEntry and OneModule.                  *)
(***************************************************************************)
Entries == [module : Modules \cup {None}, age : 0..Periods, master : BOOLEAN]
Single == list = <<>> \/ \E e \in Entries : list = <<e>>

Inv ==
  /\ kind \in Kinds /\ strayed \in BOOLEAN
  /\ kind \in {"ysf", "nxdn", "p25", "mmdvm"} => Single
  /\ kind \in {"dextra", "dcs", "m17"} /\ ~strayed =>
       /\ Single
       /\ on # None /\ list # <<>> => list[1].module = on
=============================================================================
