-------------------------------- MODULE Wires --------------------------------
(***************************************************************************)
(* The datagrams of the nine protocols.  A Task tries its validators one   *)
(* after the other; the first that accepts a datagram says what it is.     *)
(* Reflectors link to each other in most of these protocols, so what the   *)
(* encoders build should be taken by the validators for what it is.        *)
(*                                                                         *)
(* A datagram is its size and the fields that some validator looks at; a   *)
(* validator is a form: the sizes and the values it accepts.               *)
(***************************************************************************)
EXTENDS Naturals, Sequences

CONSTANT Protocols

WiresAssumption ==
  Protocols \subseteq {"dextra", "dplus", "dcs", "m17", "p25", "nxdn", "ysf", "mmdvm", "urf"}

VARIABLES
  protocol,  \* the protocol of a link
  sent,      \* what one end encodes: its kind and the datagram
  meaning    \* what the Task of the other end takes it for

vars == <<protocol, sent, meaning>>

Nothing == [kind |-> "nothing"]
Sizes == 1..600   \* bound of the sizes; a UDP buffer holds more

-----------------------------------------------------------------------------
Form(kind, sizes, fields) == [kind |-> kind, sizes |-> sizes, fields |-> fields]
Datagram(kind, size, fields) == [kind |-> kind, size |-> size, fields |-> fields]

\* A callsign field that is a callsign: CCallsign::IsValid.
Call == [callsign |-> {"valid"}]
OurCall == [callsign |-> "valid"]

\* The fields f and those of g.
f ++ g == [x \in DOMAIN f \cup DOMAIN g |-> IF x \in DOMAIN f THEN f[x] ELSE g[x]]

Letter == {"letter"}
Tag(t) == [tag |-> {t}]
Tagged(t) == [tag |-> t]

-----------------------------------------------------------------------------
\* D-Star: voice has the tag DSVT, the byte that tells headers from frames
\* (0x10, 0x20), and 0x20 for voice.
DSVT(type) == [tag |-> {"DSVT"}, type |-> {type}, voice |-> {"20"}]
DsvtSent(type) == [tag |-> "DSVT", type |-> type, voice |-> "20"]

DExtraForms ==
  <<Form("frame", {27}, DSVT("20")),
    Form("header", {56}, DSVT("10") ++ Call),
    Form("connect", {11}, [module |-> Letter] ++ Call),
    Form("disconnect", {11}, [module |-> {"space"}] ++ Call),
    Form("keepalive", {9}, Call)>>

DExtraSends ==
  {Datagram("header", 56, DsvtSent("10") ++ OurCall),
   Datagram("frame", 27, DsvtSent("20")),
   Datagram("last", 27, DsvtSent("20")),
   Datagram("keepalive", 9, OurCall),
   Datagram("answer", 14, [module |-> "letter"] ++ OurCall),
   Datagram("link answer", 11, [module |-> "letter"] ++ OurCall),
   Datagram("disconnect", 11, [module |-> "space"] ++ OurCall),
   Datagram("answer", 12, [callsign |-> "DISCONNE"])}

\* D-Plus: the first byte is the length.
DPlusForms ==
  <<Form("frame", {29}, DSVT("20") ++ [length |-> {"1D"}]),
    Form("last", {32}, DSVT("20") ++ [length |-> {"20"}]),
    Form("header", {58}, DSVT("10") ++ [length |-> {"3A"}] ++ Call),
    Form("connect", {5}, [length |-> {"05"}, on |-> {"01"}]),
    Form("login", {28}, [length |-> {"1C"}] ++ Call),
    Form("disconnect", {5}, [length |-> {"05"}, on |-> {"00"}]),
    Form("keepalive", {3}, [length |-> {"03"}])>>

\* A connect request is echoed.  EncodeDvFramePacket has one tag for a frame and
\* a last frame, whose datagram is longer.
DPlusSends ==
  {Datagram("header", 58, DsvtSent("10") ++ [length |-> "3A"] ++ OurCall),
   Datagram("frame", 29, DsvtSent("20") ++ [length |-> "1D"]),
   Datagram("last", 32, DsvtSent("20") ++ [length |-> "1D"]),
   Datagram("connect", 5, [length |-> "05", on |-> "01"]),
   Datagram("answer", 8, [length |-> "08"]),
   Datagram("disconnect", 5, [length |-> "05", on |-> "00"]),
   Datagram("keepalive", 3, [length |-> "03"])}

\* DCS: a frame has the header in it, and its tag where the others have a
\* callsign, which does not begin with three digits.
DCSForms ==
  <<Form("frame", Sizes \ 1..99, [callsign |-> {"0001"}, my |-> {"valid"}]),
    Form("connect", {519}, [module |-> Letter] ++ Call),
    Form("disconnect", {11}, [module |-> {"space"}] ++ Call),
    Form("disconnect", {19}, [module |-> {"space"}, after |-> {"00"}] ++ Call),
    Form("keepalive", {15, 17, 22}, Call),
    Form("ignored", {15}, [callsign |-> {"zeros"}])>>

DCSSends ==
  {Datagram("frame", 100, [callsign |-> "0001", my |-> "valid"]),
   Datagram("last", 100, [callsign |-> "0001", my |-> "valid"]),
   Datagram("keepalive", 9, OurCall),
   Datagram("keepalive", 22, OurCall),
   Datagram("answer", 14, [module |-> "letter"] ++ OurCall),
   Datagram("disconnect", 19, [module |-> "letter", after |-> "00"] ++ OurCall)}

-----------------------------------------------------------------------------
\* M17: the type has the bits of encryption and of voice.
M17Forms ==
  <<Form("frame", {54}, Tag("M17 ") ++ [type |-> {"voice", "voice and data"}] ++ Call),
    Form("connect", {11}, [tag |-> {"CONN", "LSTN"}, module |-> Letter] ++ Call),
    Form("disconnect", {10}, Tag("DISC") ++ Call),
    Form("keepalive", {10}, Tag("PONG") ++ Call)>>

M17Sends ==
  {Datagram("frame", 54, Tagged("M17 ") ++ [type |-> type] ++ OurCall) :
     type \in {"voice", "voice and data"}}
  \cup {Datagram("last", 54, Tagged("M17 ") ++ [type |-> type] ++ OurCall) :
          type \in {"voice", "voice and data"}}
  \cup {Datagram("ping", 10, Tagged("PING") ++ OurCall),
        Datagram("answer", 4, Tagged("ACKN")),
        Datagram("answer", 4, Tagged("NACK")),
        Datagram("answer", 4, Tagged("DISC"))}

\* P25: every datagram of 14 bytes or more is voice.  A header is looked for in
\* a record 0x66.
P25Forms ==
  <<Form("frame", Sizes \ 1..13, <<>>),
    Form("connect", {11}, [record |-> {"F0"}] ++ Call),
    Form("disconnect", {11}, [record |-> {"F1"}])>>

\* The size of the n-th record of the 18 that make two superframes.
P25Size(n) ==
  CASE n \in {0, 9} -> 22
    [] n \in {1, 10} -> 14
    [] n \in {8, 17} -> 16
    [] OTHER -> 17

P25Sends ==
  {Datagram("frame", P25Size(n), [record |-> "62 to 73"]) : n \in 0..17}
  \cup {Datagram("last", 17, [record |-> "80"]),
        Datagram("connect", 11, [record |-> "F0"] ++ OurCall)}

\* NXDN: byte 10 is the whole LICH; the validators compare it with a value of
\* its channel field.  Byte 9 has the flags.
Lichs == {"00", "81", "AC"}
NXDNForms ==
  <<Form("frame", {43}, Tag("NXDND") ++ [lich |-> Lichs \ {"00"}]),
    Form("header", {43}, Tag("NXDND") ++ [lich |-> {"00"}, flags |-> {"01"}]),
    Form("last", {43}, Tag("NXDND") ++ [lich |-> {"00"}, flags |-> {"09"}]),
    Form("connect", {17}, Tag("NXDNP") ++ Call),
    Form("disconnect", {17}, Tag("NXDNU"))>>

NXDNSends ==
  {Datagram("header", 43, Tagged("NXDND") ++ [lich |-> "81", flags |-> "05"]),
   Datagram("frame", 43, Tagged("NXDND") ++ [lich |-> "AC", flags |-> "01"]),
   Datagram("last", 43, Tagged("NXDND") ++ [lich |-> "81", flags |-> "09"]),
   Datagram("connect", 17, Tagged("NXDNP") ++ OurCall)}

\* YSF: the FICH tells voice from data (Wires-X) and a header from a frame.
Ysfd(data, frame) == [tag |-> {"YSFD"}, data |-> {data}, frame |-> {frame}]
YsfdSent(data, frame) == [tag |-> "YSFD", data |-> data, frame |-> frame]

YsfdForms ==
  <<Form("frame", {155}, Ysfd("VD2", "communications")),
    Form("header", {155}, Ysfd("VD2", "header")),
    Form("last", {155}, Ysfd("VD2", "terminator"))>>
WiresXForm == Form("Wires-X", {155}, Ysfd("FR", "communications"))

YSFForms ==
  YsfdForms \o
  <<Form("connect", {14}, Tag("YSFP") ++ Call),
    Form("disconnect", {14}, Tag("YSFU")),
    WiresXForm,
    Form("status", Sizes \ 1..3, Tag("YSFS")),
    Form("ignored", Sizes \ 1..3, [tag |-> {"YSFI", "YSFV", "YSFO"}])>>

WiresXSends ==
  {Datagram("answer", 155, YsfdSent("FR", "header")),
   Datagram("Wires-X", 155, YsfdSent("FR", "communications")),
   Datagram("answer", 155, YsfdSent("FR", "terminator"))}

YSFSends ==
  WiresXSends \cup
  {Datagram("header", 155, YsfdSent("VD2", "header")),
   Datagram("frame", 155, YsfdSent("VD2", "communications")),
   Datagram("last", 155, YsfdSent("VD2", "terminator")),
   Datagram("connect", 14, Tagged("YSFP") ++ OurCall),
   Datagram("status", 42, Tagged("YSFS"))}

\* MMDVM: byte 15 has the type of a frame, the slot and the kind of call.
Dmrd(types, more) == [tag |-> {"DMRD"}, type |-> types, slot |-> {"2"}] ++ more
DmrdSent(type, more) == [tag |-> "DMRD", type |-> type, slot |-> "2"] ++ more
Synced == [sync |-> {"MS data", "BS data"}]

DmrdForms ==
  <<Form("frame", {55}, Dmrd({"voice", "voice sync"}, [call |-> {"group"}])),
    Form("header", {55}, Dmrd({"data sync"}, [slotType |-> {"header"}] ++ Synced)),
    Form("last", {55}, Dmrd({"data sync"}, [slotType |-> {"terminator"}] ++ Synced))>>

MMDVMForms ==
  DmrdForms \o
  <<Form("connect", {8}, Tag("RPTL") ++ Call),
    Form("login", {40}, Tag("RPTK") ++ Call),
    Form("disconnect", {13}, Tag("RPTCL") ++ Call),
    Form("config", {302}, [tag |-> {"RPTC", "RPTCL"}] ++ Call),
    Form("keepalive", {11}, Tag("RPTPING") ++ Call),
    Form("ignored", {17}, Tag("RPTINTR")),
    Form("option", Sizes \ 1..7, Tag("RPTO") ++ Call)>>

DmrdSends ==
  {Datagram("header", 55, DmrdSent("data sync",
     [slotType |-> "header", sync |-> "BS data", call |-> "group"])),
   Datagram("last", 55, DmrdSent("data sync",
     [slotType |-> "terminator", sync |-> "BS data", call |-> "group"]))}
  \cup {Datagram("frame", 55, DmrdSent(type, [call |-> "group", slotType |-> "0 to 5"])) :
          type \in {"voice", "voice sync"}}

\* A client that is given up is sent an empty datagram, not EncodeClosePacket's.
MMDVMSends ==
  DmrdSends
  \cup {Datagram("answer", 11, Tagged("MSTPONG")), Datagram("answer", 6, Tagged("RPTACK")),
        Datagram("answer", 10, Tagged("RPTACK")), Datagram("answer", 6, Tagged("MSTNAK"))}

\* URF: "reflector" is a callsign that starts with URF.
Reflector == [callsign |-> {"reflector"}]
Us == [callsign |-> "reflector"]
ModuleList == [modules |-> {"configured"}, end |-> {"00"}]
ModulesSent == [modules |-> "configured", end |-> "00"]

URFForms ==
  <<Form("frame", {93}, Tag("URFF")),
    Form("keepalive", {10}, Tag("PING") ++ Reflector),
    Form("header", {57}, Tag("URFH") ++ Call),
    Form("connect", {40}, Tag("CONN") ++ Reflector ++ ModuleList ++ [version |-> {"2"}]),
    Form("ack", {40}, Tag("ACKN") ++ Reflector ++ ModuleList),
    Form("disconnect", {10}, Tag("DISC") ++ Reflector),
    Form("nack", {10}, Tag("NACK") ++ Reflector)>>

URFSends ==
  {Datagram("header", 57, Tagged("URFH") ++ OurCall),
   Datagram("frame", 93, Tagged("URFF")),
   Datagram("last", 93, Tagged("URFF")),
   Datagram("keepalive", 10, Tagged("PING") ++ Us),
   Datagram("connect", 40, Tagged("CONN") ++ Us ++ ModulesSent ++ [version |-> "2"]),
   Datagram("ack", 40, Tagged("ACKN") ++ Us ++ ModulesSent ++ [version |-> "2"]),
   Datagram("disconnect", 10, Tagged("DISC") ++ Us),
   Datagram("nack", 10, Tagged("NACK") ++ Us)}

-----------------------------------------------------------------------------
Forms ==
  [dextra |-> DExtraForms, dplus |-> DPlusForms, dcs |-> DCSForms, m17 |-> M17Forms,
   p25 |-> P25Forms, nxdn |-> NXDNForms, ysf |-> YSFForms, mmdvm |-> MMDVMForms,
   urf |-> URFForms]

Sends ==
  [dextra |-> DExtraSends, dplus |-> DPlusSends, dcs |-> DCSSends, m17 |-> M17Sends,
   p25 |-> P25Sends, nxdn |-> NXDNSends, ysf |-> YSFSends, mmdvm |-> MMDVMSends,
   urf |-> URFSends]

\* Mutant: CBuffer::Compare stops at the size of the shorter.
AcceptsShorter(form, d) ==
  \A x \in DOMAIN form.fields \cap DOMAIN d.fields : d.fields[x] \in form.fields[x]

Accepts(form, d) ==
  /\ d.size \in form.sizes
  /\ \A x \in DOMAIN form.fields : x \in DOMAIN d.fields /\ d.fields[x] \in form.fields[x]

\* The validators, in the order of the protocol's Task.
Meaning(p, d) ==
  LET accepting == {i \in DOMAIN Forms[p] : Accepts(Forms[p][i], d)}
  IN IF accepting = {} THEN "unknown"
     ELSE Forms[p][CHOOSE i \in accepting : \A j \in accepting : i <= j].kind

Init == protocol \in Protocols /\ sent = Nothing /\ meaning = "nothing"

Send ==
  /\ sent = Nothing
  /\ sent' \in Sends[protocol]
  /\ UNCHANGED <<protocol, meaning>>

Receive ==
  /\ sent # Nothing /\ meaning = "nothing"
  /\ meaning' = Meaning(protocol, sent)
  /\ UNCHANGED <<protocol, sent>>

Next == Send \/ Receive

Spec == Init /\ [][Next]_vars

-----------------------------------------------------------------------------
\* What the other end should take a datagram for.  A last frame is a frame with
\* a mark inside, but where a form of its own tells it.  What answers a request
\* is not a request, but for the answer to a reflector's link.
Due(p, kind) ==
  CASE kind = "last" -> IF p \in {"dplus", "nxdn", "ysf", "mmdvm"} THEN "last" ELSE "frame"
    [] kind \in {"answer", "ping"} -> "unknown"
    [] kind = "link answer" -> "connect"
    [] OTHER -> kind

\* Those that the validators take for something else: D-Plus does not know its
\* own last frame, NXDN takes its header and its last frame for voice, and of
\* DCS neither the short keepalive nor the disconnect is known.
Misheard ==
  {<<"dplus", "last", "unknown">>, <<"nxdn", "header", "frame">>, <<"nxdn", "last", "frame">>,
   <<"dcs", "keepalive", "unknown">>, <<"dcs", "disconnect", "unknown">>}

\* What an encoder builds is taken for what it is, whatever other validators
\* come first: but for Misheard, nothing is lost or turned into voice between
\* two reflectors.
HeardAsSent ==
  meaning # "nothing" =>
    \/ meaning = Due(protocol, sent.kind)
    \/ <<protocol, sent.kind, meaning>> \in Misheard

\* No datagram has two meanings: the validators could come in any order.
Overlap(x, y) ==
  /\ x.sizes \cap y.sizes # {}
  /\ \A z \in DOMAIN x.fields \cap DOMAIN y.fields : x.fields[z] \cap y.fields[z] # {}
OneMeaning ==
  \A i, j \in DOMAIN Forms[protocol] :
    LET x == Forms[protocol][i]
        y == Forms[protocol][j]
    IN Overlap(x, y) => x.kind = y.kind

DatagramsUnderstood == HeardAsSent /\ OneMeaning
=============================================================================
