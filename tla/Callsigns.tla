------------------------------ MODULE Callsigns ------------------------------
(***************************************************************************)
(* A callsign and what the reflector keeps with it (reflector/Callsign.cpp *)
(* and Callsign.h): its letters, the module, the ids of DMR and NXDN that  *)
(* the directories give it, and its M17 address; and the headers that      *)
(* carry callsigns from one protocol to another (DVHeaderPacket.cpp).      *)
(*                                                                         *)
(* One callsign is followed through any operations of the class, into the  *)
(* headers made of it, and over the interlink, while the directories       *)
(* change.  Its suffix, which only D-Star shows, is left out.              *)
(***************************************************************************)
EXTENDS Naturals, Sequences, SequencesExt, Functions

CONSTANTS
  Uppers, Digits, Marks, \* letters, as strings of one; Marks are -, / and .
  Names,        \* the texts that clients and files give, as sequences of letters
  Addresses,    \* the M17 addresses that arrive: their nine digits to base 40, as
                \* letters, or TooLarge
  Modules,      \* the letters of modules
  Patches,      \* "XLX", "XRF" and the like, three letters each
  Ids,          \* the ids that stations send, and 0
  Reflector,    \* the name of the reflector
  Directories   \* what the directories may hold: [dmr, nxdn], each [names : id ->
                \* letters, ids : letters -> id]

Space == " "

\* What the constants have to be.
CallsignsAssumption ==
  /\ Modules \subseteq Uppers
  /\ \A s \in Names \cup Addresses \cup Patches \cup {Reflector} : s \in Seq(Range(s))
  /\ \A t \in Addresses : Len(t) \in {0, 9}
  /\ \A p \in Patches : Len(p) = 3
  /\ Ids \subseteq Nat
  /\ \A d \in Directories : \A n \in {d.dmr, d.nxdn} :
       /\ \A i \in DOMAIN n.names : LET letters == n.names[i] IN
            i \in Nat \ {0} /\ letters \in [1..8 -> Range(letters)] /\ letters[8] = Space
       /\ \A k \in DOMAIN n.ids : n.ids[k] \in Nat \ {0}

VARIABLES
  directory,  \* one of Directories
  callsign    \* a CCallsign: [letters, module, coded, dmrid, nxdnid]

vars == <<directory, callsign>>

\* m_coded above 0xee6b27ffffff, which is 40^9 - 1.
TooLarge == <<>>

\* The letters that have a digit of M17; another letter is sent as the digit 0.
Alphabet == {Space} \cup Uppers \cup Digits \cup Marks
Digit(x) == IF x \in Alphabet THEN x ELSE Space

Padded(s, n) == [i \in 1..n |-> IF i <= Len(s) THEN s[i] ELSE Space]

\* The key of the directories: the letters and digits the callsign begins with.
GetKey(letters) ==
  [i \in 1..8 |->
     IF \A j \in 1..i : letters[j] \in Uppers \cup Digits THEN letters[i] ELSE Space]

\* The id of a key, 0 if it has none; and the callsign of an id, if it has one.
IdOf(d, key) == IF key \in DOMAIN d.ids THEN d.ids[key] ELSE 0
LettersOf(d, id, otherwise) == IF id \in DOMAIN d.names THEN d.names[id] ELSE otherwise

-----------------------------------------------------------------------------
\* The M17 address of a callsign: the eighth digit is always 0.
Code(x) == [i \in 1..9 |-> CASE i <= 7 -> Digit(x.letters[i])
                             [] i = 8 -> Space
                             [] i = 9 -> Digit(x.module)]
CSIn(x) == [x EXCEPT !.coded = Code(x)]

\* The constructor: no id of NXDN is stored, which may be any number.
Blank(id) == [letters |-> Padded(<<>>, 8), module |-> Space, coded |-> Padded(<<>>, 9),
              dmrid |-> 0, nxdnid |-> id]

\* The last of eight letters and more is the module.
WithText(x, s) ==
  CSIn([x EXCEPT !.letters = Padded(SubSeq(s, 1, IF Len(s) < 7 THEN Len(s) ELSE 7), 8),
                 !.module = IF Len(s) >= 8 THEN Last(s) ELSE Space])

\* A buffer of eight bytes and more: the eighth is the module.
WithBuffer(x, s) == WithText(x, Padded(s, 8))

WithIds(x) ==
  [x EXCEPT !.dmrid = IdOf(directory.dmr, GetKey(x.letters)),
            !.nxdnid = IdOf(directory.nxdn, GetKey(x.letters))]

\* The callsign of a text or, without one, of the id of DMR or else of NXDN; the
\* ids it came without are looked up.
Named(s, dmrid, nxdnid) ==
  LET x == IF s # <<>> THEN WithText(Blank(0), s)
           ELSE CSIn([Blank(0) EXCEPT !.letters =
                        IF dmrid # 0 THEN LettersOf(directory.dmr, dmrid, @)
                                     ELSE LettersOf(directory.nxdn, nxdnid, @)])
  IN  [x EXCEPT !.dmrid = IF dmrid # 0 THEN dmrid ELSE WithIds(x).dmrid,
                !.nxdnid = IF nxdnid # 0 THEN nxdnid ELSE WithIds(x).nxdnid]

\* The text of an address: its digits up to the last that is not 0.
TextOf(address) == SubSeq(address, 1, SelectLastInSeq(address, LAMBDA l : l # Space))

\* An address too large is kept, without the callsign it is not one of.
WithAddress(x, address) ==
  IF address = TooLarge THEN [x EXCEPT !.coded = TooLarge]
  ELSE WithIds(WithText(x, TextOf(address)))

\* The eight bytes that D-Star and the interlink send, and those who read them.
ToBuffer(x) == [x.letters EXCEPT ![8] = IF x.module # Space THEN x.module ELSE @]
OverLink(x, id) == WithIds(WithBuffer(Blank(id), ToBuffer(x)))

\* Mutant: the module is set without coding the callsign again.
WithModuleOnly(x, m) == [x EXCEPT !.module = m]
WithModule(x, m) == CSIn([x EXCEPT !.module = m])

\* Three letters and more, not all digits, then letters, digits and spaces.
IsValid(x) ==
  LET callLetters == Uppers \cup Digits IN
  /\ \A i \in 1..3 : x.letters[i] \in callLetters
  /\ \E i \in 1..3 : x.letters[i] \in Uppers
  /\ \A i \in 4..8 : x.letters[i] \in callLetters \cup {Space}
  /\ x.module \in Uppers \cup {Space}

-----------------------------------------------------------------------------
\* The headers.
Header(my, ur, rpt1, rpt2) == [my |-> my, ur |-> ur, rpt1 |-> rpt1, rpt2 |-> rpt2]
HeaderIsValid(h) == IsValid(h.rpt1) /\ IsValid(h.rpt2) /\ IsValid(h.my)

CQ == Named(<<"C", "Q", "C", "Q", "C", "Q">>, 0, 0)
OwnModule(m) == WithModule(Named(Reflector, 0, 0), m)

\* DMR, P25, NXDN and YSF: the first repeater is who sent it, on the module of
\* the protocol.
StationHeader(my, by, m) == Header(my, CQ, WithModule(by, "B"), OwnModule(m))

\* M17: the source talks to a module of the reflector, URFxxx or URF-xxx.
WithoutHyphen(x) ==
  LET s == [i \in 1..8 |-> x.letters[i]]
      text == IF x.module = Space THEN s ELSE Append(s, x.module)
  IN  IF SubSeq(text, 1, 4) = <<"U", "R", "F", "-">> THEN Named(RemoveAt(text, 4), 0, 0) ELSE x
M17Header(dest, source) ==
  Header(source, CQ, WithModule(WithoutHyphen(dest), "G"), WithoutHyphen(dest))

\* D-Star: four buffers.
DStarHeader(my, ur, rpt1, rpt2) ==
  LET read(s) == WithIds(WithBuffer(Blank(0), s))
  IN  Header(read(my), read(ur), read(rpt1), read(rpt2))

\* The headers that a station with this callsign, or the name s, may be given.
Headers(x, s, m) ==
  {StationHeader(x, Named(s, 0, 0), m), M17Header(WithModule(Named(s, 0, 0), m), x),
   DStarHeader(ToBuffer(x), s, s, ToBuffer(OwnModule(m)))}

-----------------------------------------------------------------------------
Init ==
  /\ directory \in Directories
  /\ \E id \in {0, 1} : callsign = Blank(id)

Becomes(x) == callsign' = x /\ UNCHANGED directory

\* A new one, of a text or an id.
Construct(s, dmrid, nxdnid) == Becomes(Named(s, dmrid, nxdnid))

\* The text may come without a look at the directories.
SetCallsign(s, updateids) ==
  \E x \in {WithText(callsign, s), WithBuffer(callsign, s)} :
    Becomes(IF updateids THEN WithIds(x) ELSE x)

\* An unknown id leaves the letters.
SetDmrid(id, UpdateCallsign) ==
  LET x == [callsign EXCEPT !.dmrid = id]
  IN  Becomes(IF UpdateCallsign
              THEN CSIn([x EXCEPT !.letters = LettersOf(directory.dmr, id, @)]) ELSE x)
SetNXDNid(id, UpdateCallsign) ==
  LET x == [callsign EXCEPT !.nxdnid = id]
  IN  Becomes(IF UpdateCallsign
              THEN CSIn([x EXCEPT !.letters = LettersOf(directory.nxdn, id, @)]) ELSE x)

SetCSModule(m) == Becomes(WithModule(callsign, m))

\* The first letters become those of the kind of reflector that is claimed.
PatchCallsign(p) == Becomes(CSIn([callsign EXCEPT !.letters = p \o SubSeq(@, 4, 8)]))

CodeIn(address) == Becomes(WithAddress(callsign, address))

\* A thread goes on with a callsign of a header that it takes.  P25, NXDN and
\* YSF do not look whether it is valid.
TakeHeader(s, m) ==
  \E h \in Headers(callsign, s, m) :
    /\ h.rpt1.module = "B" \/ HeaderIsValid(h)
    /\ \E f \in DOMAIN h : Becomes(h[f])

\* The other reflector reads it off the interlink.
Interlink(id) == Becomes(OverLink(callsign, id))

\* The directories are loaded again.
Reload == directory' \in Directories \ {directory} /\ UNCHANGED callsign

Next ==
  \/ \E s \in Names \cup {<<>>}, i, j \in Ids : Construct(s, i, j)
  \/ \E s \in Names, u \in BOOLEAN : SetCallsign(s, u)
  \/ \E i \in Ids, u \in BOOLEAN : SetDmrid(i, u) \/ SetNXDNid(i, u)
  \/ \E m \in Modules \cup {Space} : SetCSModule(m)
  \/ \E p \in Patches : PatchCallsign(p)
  \/ \E t \in Addresses : CodeIn(t)
  \/ \E s \in Names, m \in Modules : TakeHeader(s, m)
  \/ \E id \in {0, 1} : Interlink(id)
  \/ Reload

Spec == Init /\ [][Next]_vars

-----------------------------------------------------------------------------
\* Who reads an M17 address gets the callsign and the module it was made for,
\* with blanks for letters the code lacks, and who reads the eight bytes gets
\* both as they are, whatever the callsign went through; but for addresses too
\* large, which are kept as they came (CodeIn, CodeOut, CSIn, GetCallsign).
Coded(x) == [i \in 1..8 |-> Digit(x.letters[i])]
HeardAsSent ==
  /\ callsign.coded # TooLarge =>
       LET read == WithAddress(Blank(0), callsign.coded)
       IN  read.letters = Coded(callsign) /\ read.module = Digit(callsign.module)
  /\ LET read == OverLink(callsign, 0)
     IN  read.letters = callsign.letters /\ read.module = callsign.module

(***************************************************************************)
(* The inductive invariant behind HeardAsSent: the eighth letter is blank, *)
(* which is where the module goes, and the address, if not too large, has  *)
(* been made of the letters and the module as they are now.                *)
(***************************************************************************)
Sound(x) ==
  /\ DOMAIN x = {"letters", "module", "coded", "dmrid", "nxdnid"}
  /\ x.letters \in [1..8 -> Range(x.letters)] /\ x.letters[8] = Space
  /\ x.coded \in {TooLarge, Code(x)}

Inv == directory \in Directories /\ Sound(callsign)
=============================================================================
