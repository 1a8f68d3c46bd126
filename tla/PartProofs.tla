----------------------------- MODULE PartProofs -----------------------------
(***************************************************************************)
(* Theorems about the parts of PartProps, for every value of their         *)
(* constants.  For each part there are first the lemmas about its steps,   *)
(* then the theorems.                                                      *)
(***************************************************************************)
EXTENDS PartProps, FiniteSetTheorems, SequenceTheorems, WellFoundedInduction, TLAPS

-----------------------------------------------------------------------------
(***************************************************************************)
(* Which part is looked at never changes, and only its variables do.       *)
(***************************************************************************)

LEMMA PartStays == ASSUME [Next]_vars PROVE part' = part
BY DEF Next, InIds, InLists, InDirectory, InService, InSessions, InWiresX, InConfiguration,
       InCallsigns, vars

LEMMA SessionsSteps ==
  ASSUME [Next]_vars, part = "sessions"
  PROVE  SessionsPart!Next \/ UNCHANGED sessionsVars
BY DEF Next, InIds, InLists, InDirectory, InService, InSessions, InWiresX, InConfiguration,
       InCallsigns, vars

LEMMA IdsSteps ==
  ASSUME [Next]_vars, part = "ids"
  PROVE  IdsPart!Next \/ UNCHANGED idsVars
BY DEF Next, InIds, InLists, InDirectory, InService, InSessions, InWiresX, InConfiguration,
       InCallsigns, vars

-----------------------------------------------------------------------------
(***************************************************************************)
(* SharedIds.                                                              *)
(***************************************************************************)

LEMMA IdsAre ==
  /\ Watched \subseteq {"nxdn", "p25"}
  /\ \A c \in Stations : Linked[c] \in Modules /\ c # None
  /\ NoId \in StreamIds /\ ZeroId \in StreamIds
  /\ None \notin Stations /\ None \notin Modules /\ None \notin StreamIds
BY PartsAssumption DEF PartsAssumption, IdsPart!SharedIdsAssumption

LEMMA IdsInit == ASSUME IdsPart!Init PROVE IdsPart!Inv
BY IdsAre DEF IdsPart!Init, IdsPart!Inv, IdsPart!TypeOK, IdsPart!HandlesLead

\* A header leaves the handles and streams in agreement, whether a stream is opened
\* for it, refused, or there already.
LEMMA HeaderKeepsLead ==
  ASSUME IdsPart!Inv, NEW c \in Stations, NEW i \in StreamIds,
         IdsPart!OnDvHeaderPacketIn(c, i)
  PROVE  /\ sid' \in [Modules -> StreamIds]
         /\ owner' \in [Modules -> Stations \cup {None}]
         /\ handles' \in [StreamIds -> Modules \cup {None}]
         /\ IdsPart!HandlesLead'
         /\ handles'[NoId] = None
         /\ \A m \in Modules : sid'[m] = NoId <=> owner'[m] = None
<1>. DEFINE m == Linked[c]
            refused == \/ i \in {NoId, ZeroId}
                       \/ \E n \in Modules : owner[n] = c \/ sid[n] = i
<1>1. m \in Modules /\ c # None
  BY IdsAre
<1>2. CASE refused
  BY <1>2 DEF IdsPart!OnDvHeaderPacketIn, IdsPart!Inv, IdsPart!TypeOK, IdsPart!HandlesLead
<1>3. CASE ~refused /\ sid[m] = NoId
  <2>1. /\ sid' = [sid EXCEPT ![m] = i]
        /\ owner' = [owner EXCEPT ![m] = c]
        /\ handles' = [handles EXCEPT ![sid'[m]] = m]
    BY <1>3 DEF IdsPart!OnDvHeaderPacketIn, IdsPart!Keep
  <2>2. sid'[m] = i /\ handles' = [handles EXCEPT ![i] = m]
    BY <1>1, <2>1 DEF IdsPart!Inv, IdsPart!TypeOK
  <2>. QED
    BY <1>1, <1>3, <2>1, <2>2 DEF IdsPart!Inv, IdsPart!TypeOK, IdsPart!HandlesLead
<1>4. CASE ~refused /\ sid[m] # NoId
  <2>1. sid' = sid /\ owner' = owner /\ handles' = [handles EXCEPT ![sid[m]] = m]
    BY <1>4 DEF IdsPart!OnDvHeaderPacketIn, IdsPart!Keep
  <2>2. handles' = handles
    BY <1>1, <1>4, <2>1 DEF IdsPart!Inv, IdsPart!TypeOK, IdsPart!HandlesLead
  <2>. QED
    BY <2>1, <2>2 DEF IdsPart!Inv, IdsPart!TypeOK, IdsPart!HandlesLead
<1>. QED
  BY <1>2, <1>3, <1>4

LEMMA IdsInvariance ==
  ASSUME IdsPart!Inv, IdsPart!Next \/ UNCHANGED idsVars
  PROVE  IdsPart!Inv'
<1>1. ASSUME NEW c \in Stations, IdsPart!Begin(c)
      PROVE  IdsPart!Inv'
  <2>1. CASE UNCHANGED <<id, sid, owner, handles>>
    BY <1>1, <2>1 DEF IdsPart!Begin, IdsPart!streamVars, IdsPart!Inv, IdsPart!TypeOK, IdsPart!HandlesLead
  <2>2. CASE id' \in StreamIds /\ IdsPart!OnDvHeaderPacketIn(c, id')
    <3>1. PICK i \in StreamIds : i = id' /\ IdsPart!OnDvHeaderPacketIn(c, i)
      BY <2>2
    <3>2. /\ sid' \in [Modules -> StreamIds]
          /\ owner' \in [Modules -> Stations \cup {None}]
          /\ handles' \in [StreamIds -> Modules \cup {None}]
          /\ IdsPart!HandlesLead'
          /\ handles'[NoId] = None
          /\ \A m \in Modules : sid'[m] = NoId <=> owner'[m] = None
      BY <3>1, HeaderKeepsLead
    <3>3. fresh' \in [Modules -> BOOLEAN]
      BY <1>1, IdsAre DEF IdsPart!Begin, IdsPart!Inv, IdsPart!TypeOK, IdsPart!streamVars
    <3>4. /\ protocol' = protocol /\ talking' = talking \cup {c} /\ voice' = voice
          /\ noHeader' \in BOOLEAN
      BY <1>1 DEF IdsPart!Begin, IdsPart!Inv, IdsPart!TypeOK, IdsPart!streamVars
    <3>. QED
      BY <3>1, <3>2, <3>3, <3>4 DEF IdsPart!Inv, IdsPart!TypeOK
  <2>. QED
    BY <1>1, <2>1, <2>2 DEF IdsPart!Begin, IdsPart!streamVars
<1>2. ASSUME NEW c \in Stations, NEW first \in BOOLEAN, IdsPart!Frames(c, first)
      PROVE  IdsPart!Inv'
  <2>1. PICK i \in StreamIds : i = id'
    BY <1>2 DEF IdsPart!Frames, IdsPart!Inv, IdsPart!TypeOK
  <2>2. /\ sid' \in [Modules -> StreamIds]
        /\ owner' \in [Modules -> Stations \cup {None}]
        /\ handles' \in [StreamIds -> Modules \cup {None}]
        /\ IdsPart!HandlesLead'
        /\ handles'[NoId] = None
        /\ \A m \in Modules : sid'[m] = NoId <=> owner'[m] = None
    <3>1. CASE UNCHANGED <<id, sid, owner, handles>>
      BY <3>1 DEF IdsPart!Inv, IdsPart!TypeOK, IdsPart!HandlesLead
    <3>2. CASE IdsPart!OnDvHeaderPacketIn(c, i)
      BY <3>2, HeaderKeepsLead
    <3>. QED
      BY <1>2, <2>1, <3>1, <3>2 DEF IdsPart!Frames
  <2>3. fresh' \in [Modules -> BOOLEAN] /\ voice' \in [Stations -> {"none", "heard", "dropped"}]
    <3>1. PICK j \in StreamIds : IdsPart!OnDvFramePacketIn(c, j)
      BY <1>2, <2>1 DEF IdsPart!Frames, IdsPart!FrameId, IdsPart!Inv, IdsPart!TypeOK
    <3>2. \A m \in Modules : [fresh EXCEPT ![m] = TRUE] \in [Modules -> BOOLEAN]
      BY DEF IdsPart!Inv, IdsPart!TypeOK
    <3>3. fresh' \in [Modules -> BOOLEAN]
      BY <2>2, <3>1, <3>2, IdsAre DEF IdsPart!OnDvFramePacketIn, IdsPart!Inv, IdsPart!TypeOK
    <3>4. voice' \in [Stations -> {"none", "heard", "dropped"}]
      BY <3>1 DEF IdsPart!OnDvFramePacketIn, IdsPart!Inv, IdsPart!TypeOK
    <3>. QED
      BY <3>3, <3>4
  <2>. QED
    BY <1>2, <2>1, <2>2, <2>3 DEF IdsPart!Frames, IdsPart!Inv, IdsPart!TypeOK
<1>3. ASSUME NEW c \in Stations, NEW lost \in BOOLEAN, IdsPart!Stop(c, lost)
      PROVE  IdsPart!Inv'
  BY <1>3, IdsAre DEF IdsPart!Stop, IdsPart!streamVars, IdsPart!Inv, IdsPart!TypeOK, IdsPart!HandlesLead
<1>4. ASSUME NEW m \in Modules, IdsPart!Silence(m)
      PROVE  IdsPart!Inv'
  BY <1>4 DEF IdsPart!Silence, IdsPart!stationVars, IdsPart!Inv, IdsPart!TypeOK, IdsPart!HandlesLead
<1>5. ASSUME NEW i \in StreamIds, IdsPart!Close(i)
      PROVE  IdsPart!Inv'
  BY <1>5, IdsAre DEF IdsPart!Close, IdsPart!stationVars, IdsPart!Inv, IdsPart!TypeOK, IdsPart!HandlesLead
<1>6. CASE UNCHANGED idsVars
  BY <1>6 DEF idsVars, IdsPart!Inv, IdsPart!TypeOK, IdsPart!HandlesLead
<1>. QED
  BY <1>1, <1>2, <1>3, <1>4, <1>5, <1>6 DEF IdsPart!Next

\* Both protocol threads with one id for all stations: see IdsPart!Inv.
IdsInv == part = "ids" => IdsPart!Inv

LEMMA IdsInductive == Spec => []IdsInv
<1>1. Init => IdsInv
  BY IdsInit DEF Init, IdsInv
<1>2. ASSUME IdsInv, [Next]_vars PROVE IdsInv'
  BY <1>2, PartStays, IdsSteps, IdsInvariance DEF IdsInv
<1>. QED
  BY <1>1, <1>2, PTL DEF Spec

\* Every open stream of a P25 or NXDN station is one its thread finds by its id,
\* and every handle leads to the stream with its id (m_Streams, CheckStreamsTimeout):
\* no stream is left open for ever when a new id is drawn.
THEOREM HandlesLeadCorrect == Spec => []HandlesLead
<1>1. IdsInv => HandlesLead
  BY DEF IdsInv, IdsPart!Inv, HandlesLead
<1>. QED
  BY <1>1, IdsInductive, PTL

\* A station that finds its module free gets it under an id its thread finds it by:
\* NXDN frames are heard at once, the P25 frame that opens, made before the id was
\* drawn, is dropped (OnDvHeaderPacketIn, OpenStream, OnDvFramePacketIn).
LEMMA FreeStationOpens ==
  ASSUME IdsPart!Inv, NEW c \in Stations, IdsPart!Frames(c, TRUE),
         owner[Linked[c]] = None, \A m \in Modules : owner[m] # c,
         protocol = "p25" => id = NoId,
         id' \notin {NoId, ZeroId}, \A m \in Modules : sid[m] # id'
  PROVE  /\ IdsPart!GetStream(id, c)' = Linked[c]
         /\ voice'[c] = IF protocol = "nxdn" THEN "heard" ELSE "dropped"
<1>1. IdsPart!Opens(c, TRUE)
  BY IdsAre DEF IdsPart!Opens, IdsPart!Knows, IdsPart!GetStream, IdsPart!Inv, IdsPart!TypeOK
<1>2. PICK i \in StreamIds : i = id' /\ IdsPart!OnDvHeaderPacketIn(c, i)
  BY <1>1 DEF IdsPart!Frames
<1>3. Linked[c] \in Modules /\ c # None /\ None \notin Modules
  BY IdsAre
<1>4. /\ sid' = [sid EXCEPT ![Linked[c]] = i]
      /\ owner' = [owner EXCEPT ![Linked[c]] = c]
      /\ handles' = [handles EXCEPT ![sid'[Linked[c]]] = Linked[c]]
  BY <1>2, <1>3 DEF IdsPart!OnDvHeaderPacketIn, IdsPart!Keep, IdsPart!Inv
<1>5. handles'[i] = Linked[c] /\ owner'[Linked[c]] = c
  BY <1>3, <1>4 DEF IdsPart!Inv, IdsPart!TypeOK
<1>6. IdsPart!GetStream(id, c)' = Linked[c]
  BY <1>2, <1>3, <1>5 DEF IdsPart!GetStream
<1>7. CASE protocol = "nxdn"
  <2>1. IdsPart!OnDvFramePacketIn(c, i)
    BY <1>2, <1>7 DEF IdsPart!Frames, IdsPart!FrameId
  <2>. QED
    BY <1>3, <1>5, <1>6, <1>7, <2>1 DEF IdsPart!OnDvFramePacketIn, IdsPart!Inv, IdsPart!TypeOK
<1>8. CASE protocol = "p25"
  <2>1. IdsPart!OnDvFramePacketIn(c, NoId)
    BY <1>8 DEF IdsPart!Frames, IdsPart!FrameId
  <2>2. handles'[NoId] = None
    BY <1>2, <1>4, IdsAre DEF IdsPart!Inv, IdsPart!TypeOK
  <2>. QED
    BY <1>6, <1>8, <2>1, <2>2 DEF IdsPart!OnDvFramePacketIn, IdsPart!Inv, IdsPart!TypeOK
<1>. QED
  BY <1>7, <1>8, IdsAre DEF IdsPart!Inv, IdsPart!TypeOK

\* Frames of a station whose stream is found by the id there is are heard.
LEMMA KnownIsHeard ==
  ASSUME IdsPart!Inv, NEW c \in Stations, NEW first \in BOOLEAN, IdsPart!Frames(c, first),
         IdsPart!GetStream(id, c) # None
  PROVE  voice'[c] = "heard"
<1>1. UNCHANGED <<id, sid, owner, handles>>
  BY DEF IdsPart!Frames, IdsPart!Opens, IdsPart!Knows
<1>2. IdsPart!OnDvFramePacketIn(c, id)
  BY <1>1 DEF IdsPart!Frames, IdsPart!FrameId
<1>. QED
  BY <1>1, <1>2 DEF IdsPart!OnDvFramePacketIn, IdsPart!GetStream, IdsPart!Inv, IdsPart!TypeOK

\* In every step of the P25 and NXDN threads: a free module opens for the station
\* that talks on it, and a station whose stream is known is heard.
THEOREM FreeIsHeardCorrect == Spec => FreeIsHeard
<1>1. ASSUME IdsPart!Inv PROVE IdsPart!FreeIsHeard
  BY <1>1, FreeStationOpens, KnownIsHeard DEF IdsPart!FreeIsHeard
<1>2. IdsInv /\ [Next]_vars => [part = "ids" => IdsPart!FreeIsHeard]_vars
  BY <1>1 DEF IdsInv
<1>. QED
  BY <1>2, IdsInductive, PTL DEF Spec, FreeIsHeard
-----------------------------------------------------------------------------
(***************************************************************************)
(* Sessions.                                                               *)
(***************************************************************************)

LEMMA SessionsAre ==
  /\ None \notin Modules /\ Autolink \in Modules \cup {None}
  /\ Periods \in Nat \ {0}
BY PartsAssumption DEF PartsAssumption, SessionsPart!SessionsAssumption

LEMMA OneLong ==
  ASSUME NEW x
  PROVE  /\ <<x>> # <<>> /\ Len(<<x>>) = 1 /\ DOMAIN <<x>> = {1} /\ <<x>>[1] = x
         /\ [i \in 1..1 |-> x] = <<x>>
         /\ [i \in {1} |-> x] = <<x>>
         /\ Tail(<<x>>) = <<>>
OBVIOUS

LEMMA ClientIsEntry ==
  ASSUME NEW m \in Modules \cup {None}
  PROVE  SessionsPart!Client(m) \in SessionsPart!Entries /\ SessionsPart!Client(m).module = m
BY SessionsAre DEF SessionsPart!Client, SessionsPart!Entries

LEMMA EntryChanged ==
  ASSUME NEW x \in SessionsPart!Entries
  PROVE  /\ \A n \in 0..Periods :
              [x EXCEPT !.age = n] \in SessionsPart!Entries /\ [x EXCEPT !.age = n].module = x.module
         /\ \A b \in BOOLEAN :
              [x EXCEPT !.master = b] \in SessionsPart!Entries /\ [x EXCEPT !.master = b].module = x.module
         /\ \A m \in Modules \cup {None} :
              [x EXCEPT !.module = m] \in SessionsPart!Entries /\ [x EXCEPT !.module = m].module = m
BY DEF SessionsPart!Entries

\* AddClient leaves one entry if there was at most one, and none on another module.
LEMMA AddKeepsSingle ==
  ASSUME SessionsPart!Single, NEW m \in Modules \cup {None}, SessionsPart!AddClient(m),
         \A i \in DOMAIN list : list[i].module = m
  PROVE  SessionsPart!Single' /\ list' # <<>> /\ list'[1].module = m
<1>1. CASE list = <<>>
  <2>1. list' = <<SessionsPart!Client(m)>>
    BY <1>1 DEF SessionsPart!AddClient
  <2>. QED
    BY <2>1, ClientIsEntry, OneLong DEF SessionsPart!Single, SessionsPart!Entries
<1>2. ASSUME NEW x \in SessionsPart!Entries, list = <<x>> PROVE list' = list /\ list[1].module = m
  BY <1>2, OneLong DEF SessionsPart!AddClient
<1>. QED
  BY <1>1, <1>2, OneLong DEF SessionsPart!Single, SessionsPart!Entries

\* What changes no module of an entry and adds none.
Renewed == 
  \/ list' = <<>>
  \/ /\ list # <<>> /\ list' # <<>>
     /\ list'[1].module = list[1].module

LEMMA AliveKeepsSingle ==
  ASSUME SessionsPart!Single,
         \/ SessionsPart!Alive
         \/ list' = [i \in DOMAIN list |-> [list[i] EXCEPT !.master = FALSE]]
  PROVE  SessionsPart!Single' /\ Renewed
<1>1. CASE list = <<>>
  <2>1. list' = <<>>
    BY <1>1 DEF SessionsPart!Alive
  <2>. QED
    BY <2>1 DEF SessionsPart!Single, Renewed
<1>2. ASSUME NEW x \in SessionsPart!Entries, list = <<x>>
      PROVE  SessionsPart!Single' /\ Renewed
  <2>1. DOMAIN list = {1} /\ list[1] = x /\ list # <<>>
    BY <1>2, OneLong
  <2>2. PICK y : y \in {[x EXCEPT !.age = 0], [x EXCEPT !.master = FALSE]} /\ list' = [i \in {1} |-> y]
    BY <2>1 DEF SessionsPart!Alive
  <2>3. list' = <<y>> /\ list' # <<>> /\ list'[1] = y
    BY <2>2, OneLong
  <2>4. y \in SessionsPart!Entries /\ y.module = x.module
    <3>1. 0 \in 0..Periods
      BY SessionsAre
    <3>2. CASE y = [x EXCEPT !.age = 0]
      BY <3>1, <3>2, EntryChanged
    <3>3. CASE y = [x EXCEPT !.master = FALSE]
      BY <3>3, EntryChanged
    <3>. QED
      BY <2>2, <3>2, <3>3
  <2>. QED
    BY <2>1, <2>3, <2>4 DEF SessionsPart!Single, Renewed, SessionsPart!Entries
<1>. QED
  BY <1>1, <1>2 DEF SessionsPart!Single

LEMMA DropKeepsSingle ==
  ASSUME SessionsPart!Single, SessionsPart!DropDead
  PROVE  SessionsPart!Single' /\ Renewed
<1>1. CASE SessionsPart!Staying = {}
  <2>1. SessionsPart!Cardinality(SessionsPart!Staying) = 0
    BY <1>1, FS_EmptySet DEF SessionsPart!Cardinality, Cardinality
  <2>2. list' = <<>>
    <3>1. list' = [n \in 1..0 |-> SessionsPart!Older(list[SessionsPart!Nth(n)])]
      BY <2>1 DEF SessionsPart!DropDead
    <3>. QED
      BY <3>1
  <2>. QED
    BY <2>2 DEF SessionsPart!Single, Renewed
<1>2. CASE SessionsPart!Staying # {}
  <2>1. PICK x \in SessionsPart!Entries : list = <<x>>
    BY <1>2 DEF SessionsPart!Single, SessionsPart!Staying
  <2>2. DOMAIN list = {1} /\ list[1] = x /\ list # <<>>
    BY <2>1, OneLong
  <2>3. SessionsPart!Staying = {1}
    BY <1>2, <2>2 DEF SessionsPart!Staying
  <2>4. SessionsPart!Cardinality({1}) = 1
    BY FS_Singleton DEF SessionsPart!Cardinality, Cardinality
  <2>5. {k \in {1} : k <= 1} = {1}
    OBVIOUS
  <2>6. SessionsPart!Nth(1) = 1
    BY <2>3, <2>4, <2>5 DEF SessionsPart!Nth
  <2>7. list' = [n \in 1..1 |-> SessionsPart!Older(list[SessionsPart!Nth(n)])]
    BY <2>3, <2>4 DEF SessionsPart!DropDead
  <2>8. PICK y : y = SessionsPart!Older(x)
    OBVIOUS
  <2>9. list' = [n \in 1..1 |-> y]
    BY <2>2, <2>6, <2>7, <2>8
  <2>10. list' = <<y>> /\ list' # <<>> /\ list'[1] = y
    BY <2>9, OneLong
  <2>11. y \in SessionsPart!Entries /\ y.module = x.module
    <3>1. x.age \in 0..Periods
      BY DEF SessionsPart!Entries
    <3>2. 0 \in 0..Periods /\ (x.age < Periods => x.age + 1 \in 0..Periods)
      BY <3>1, SessionsAre
    <3>. QED
      BY <2>8, <3>2, EntryChanged DEF SessionsPart!Older
  <2>. QED
    BY <2>2, <2>10, <2>11 DEF SessionsPart!Single, Renewed
<1>. QED
  BY <1>1, <1>2

LEMMA SessionsInit == ASSUME SessionsPart!Init PROVE SessionsPart!Inv
BY DEF SessionsPart!Init, SessionsPart!Inv, SessionsPart!Single

\* A disconnect takes the first entry away, or none.
LEMMA RemoveKeepsSingle ==
  ASSUME SessionsPart!Single, SessionsPart!RemoveFound
  PROVE  SessionsPart!Single' /\ Renewed
BY OneLong DEF SessionsPart!Single, SessionsPart!RemoveFound, SessionsPart!Found, Renewed

\* A stream opens for the first entry, on its module or on m.
LEMMA OpenKeepsSingle ==
  ASSUME SessionsPart!Single, NEW m \in Modules \cup {None}, SessionsPart!OpenOn(m)
  PROVE  SessionsPart!Single' /\ list # <<>> /\ list' # <<>> /\ list'[1].module = m
<1>1. PICK x \in SessionsPart!Entries : list = <<x>>
  BY DEF SessionsPart!Single, SessionsPart!OpenOn, SessionsPart!Found
<1>2. PICK y : y = [[x EXCEPT !.master = TRUE] EXCEPT !.module = m]
  OBVIOUS
<1>3. y \in SessionsPart!Entries /\ y.module = m
  BY <1>2, EntryChanged
<1>4. list' = <<y>>
  BY <1>1, <1>2, OneLong DEF SessionsPart!OpenOn
<1>. QED
  BY <1>1, <1>3, <1>4, OneLong DEF SessionsPart!Single

\* A poll or login renews the entry it finds, and adds one only when there is none.
LEMMA PollKeepsSingle ==
  ASSUME SessionsPart!Single, NEW m \in Modules \cup {None}, SessionsPart!Poll(m)
  PROVE  SessionsPart!Single'
<1>1. CASE list = <<>>
  <2>1. list' = <<SessionsPart!Client(m)>>
    BY <1>1 DEF SessionsPart!Poll, SessionsPart!AlreadyThere, SessionsPart!Found
  <2>. QED
    BY <2>1, ClientIsEntry DEF SessionsPart!Single, SessionsPart!Entries
<1>2. ASSUME NEW x \in SessionsPart!Entries, list = <<x>>
      PROVE  SessionsPart!Single'
  <2>1. PICK y : y = [x EXCEPT !.age = 0]
    OBVIOUS
  <2>2. list' = <<y>>
    BY <1>2, <2>1, OneLong DEF SessionsPart!Poll, SessionsPart!AlreadyThere, SessionsPart!Found
  <2>3. y \in SessionsPart!Entries
    BY <2>1, EntryChanged, SessionsAre
  <2>. QED
    BY <2>2, <2>3 DEF SessionsPart!Single, SessionsPart!Entries
<1>. QED
  BY <1>1, <1>2 DEF SessionsPart!Single

\* What keeps the entry on its module, and the station on that or on none.
LEMMA SessionsKept ==
  ASSUME SessionsPart!Inv, kind' = kind, strayed' \in BOOLEAN, strayed => strayed',
         kind \in {"ysf", "nxdn", "p25", "mmdvm"} => SessionsPart!Single',
         kind \in {"dextra", "dcs", "m17"} /\ ~strayed' =>
           /\ SessionsPart!Single'
           /\ \/ Renewed /\ on' \in {on, None}
              \/ list' # <<>> /\ list'[1].module = on'
  PROVE  SessionsPart!Inv'
BY DEF SessionsPart!Inv, Renewed

\* The same, for what does not make the station go astray.
LEMMA SessionsRenewed ==
  ASSUME SessionsPart!Inv, kind' = kind, on' \in {on, None}, strayed' = strayed,
         SessionsPart!Single => SessionsPart!Single' /\ Renewed
  PROVE  SessionsPart!Inv'
<1>1. strayed' \in BOOLEAN /\ (strayed => strayed')
  BY DEF SessionsPart!Inv
<1>2. kind \in {"ysf", "nxdn", "p25", "mmdvm"} => SessionsPart!Single'
  BY DEF SessionsPart!Inv
<1>3. kind \in {"dextra", "dcs", "m17"} /\ ~strayed' => SessionsPart!Single' /\ Renewed
  BY DEF SessionsPart!Inv
<1>4. kind \in {"dextra", "dcs", "m17"} /\ ~strayed' /\ on' # None /\ list' # <<>> =>
        list'[1].module = on'
  BY DEF SessionsPart!Inv, Renewed
<1>. QED
  BY <1>1, <1>2, <1>3, <1>4 DEF SessionsPart!Inv

LEMMA SessionsInvariance ==
  ASSUME SessionsPart!Inv, SessionsPart!Next \/ UNCHANGED sessionsVars
  PROVE  SessionsPart!Inv'
<1>1. CASE SessionsPart!Connect
  <2>. kind' = kind
    BY <1>1 DEF SessionsPart!Connect
  <2>1. ASSUME NEW m \in Modules, NEW acked \in BOOLEAN, SessionsPart!Link(m, acked),
               kind \in {"dextra", "dcs", "m17"}
        PROVE  SessionsPart!Inv'
    <3>1. strayed' = (strayed \/ on \notin {m, None} \/ \E i \in DOMAIN list : list[i].module # m)
      BY <2>1 DEF SessionsPart!Link
    <3>2. strayed' \in BOOLEAN
      BY <3>1
    <3>3. CASE strayed'
      BY <2>1, <3>2, <3>3, SessionsKept DEF SessionsPart!Inv
    <3>4. CASE ~strayed'
      <4>1. SessionsPart!Single /\ on \in {m, None} /\ \A i \in DOMAIN list : list[i].module = m
        BY <2>1, <3>1, <3>4 DEF SessionsPart!Inv
      <4>2. SessionsPart!Single' /\ list' # <<>> /\ list'[1].module = m
        BY <2>1, <4>1, AddKeepsSingle DEF SessionsPart!Link
      <4>3. on' \in {m, None}
        BY <2>1, <4>1 DEF SessionsPart!Link
      <4>. QED
        BY <2>1, <3>2, <3>4, <4>2, <4>3 DEF SessionsPart!Inv
    <3>. QED
      BY <3>3, <3>4
  <2>2. CASE SessionsPart!LoginDplus
    BY <2>2 DEF SessionsPart!LoginDplus, SessionsPart!Inv
  <2>3. ASSUME NEW m \in Modules \cup {None}, SessionsPart!Poll(m),
               kind \in {"ysf", "nxdn", "p25", "mmdvm"}
        PROVE  SessionsPart!Inv'
    BY <2>3, PollKeepsSingle DEF SessionsPart!Poll, SessionsPart!Inv
  <2>4. CASE SessionsPart!LoginMmdvm \/ SessionsPart!PollYsf \/ SessionsPart!PollNxdn \/ SessionsPart!PollP25
    BY <2>3, <2>4, SessionsAre
    DEF SessionsPart!LoginMmdvm, SessionsPart!PollYsf, SessionsPart!PollNxdn, SessionsPart!PollP25
  <2>5. ASSUME NEW m \in Modules, NEW acked \in BOOLEAN,
               \/ SessionsPart!LinkDextra(m, acked)
               \/ SessionsPart!LinkDcs(m, acked)
               \/ SessionsPart!LinkM17(m, acked)
        PROVE  SessionsPart!Inv'
    BY <2>1, <2>5 DEF SessionsPart!LinkDextra, SessionsPart!LinkDcs, SessionsPart!LinkM17
  <2>. QED
    BY <1>1, <2>2, <2>4, <2>5 DEF SessionsPart!Connect
<1>2. CASE SessionsPart!KeepAlivePacket
  <2>1. SessionsPart!Alive /\ kind' = kind /\ on' = on /\ strayed' = strayed
    BY <1>2 DEF SessionsPart!KeepAlivePacket, SessionsPart!KeepAliveDextra,
       SessionsPart!KeepAliveDplus, SessionsPart!KeepAliveDcs, SessionsPart!KeepAliveM17,
       SessionsPart!KeepAliveMmdvm
  <2>2. SessionsPart!Single => SessionsPart!Single' /\ Renewed
    BY <2>1, AliveKeepsSingle
  <2>. QED
    BY <2>1, <2>2, SessionsRenewed
<1>3. CASE SessionsPart!Close
  <2>1. /\ list' = [i \in DOMAIN list |-> [list[i] EXCEPT !.master = FALSE]]
        /\ kind' = kind /\ on' = on /\ strayed' = strayed
    BY <1>3 DEF SessionsPart!Close
  <2>2. SessionsPart!Single => SessionsPart!Single' /\ Renewed
    BY <2>1, AliveKeepsSingle
  <2>. QED
    BY <2>1, <2>2, SessionsRenewed
<1>4. CASE SessionsPart!HandleKeepalives
  <2>1. /\ SessionsPart!DropDead
        /\ kind' = kind /\ on' \in {on, None} /\ strayed' = strayed
    BY <1>4 DEF SessionsPart!HandleKeepalives, SessionsPart!KeepalivesDextra,
       SessionsPart!KeepalivesDplus, SessionsPart!KeepalivesDcs, SessionsPart!KeepalivesM17,
       SessionsPart!KeepalivesMmdvm, SessionsPart!KeepalivesYsf, SessionsPart!KeepalivesNxdn,
       SessionsPart!KeepalivesP25, SessionsPart!Told
  <2>2. SessionsPart!Single => SessionsPart!Single' /\ Renewed
    BY <2>1, DropKeepsSingle
  <2>. QED
    BY <2>1, <2>2, SessionsRenewed
<1>5. CASE SessionsPart!Die
  BY <1>5 DEF SessionsPart!Die, SessionsPart!Inv, SessionsPart!Single, SessionsPart!Entries
<1>6. ASSUME NEW lost \in BOOLEAN, SessionsPart!Disconnect(lost)
      PROVE  SessionsPart!Inv'
  <2>1. /\ kind' = kind /\ on' = None /\ strayed' \in BOOLEAN /\ (strayed => strayed')
        /\ list' = list \/ SessionsPart!RemoveFound
    BY <1>6 DEF SessionsPart!Disconnect, SessionsPart!DisconnectDextra,
       SessionsPart!DisconnectDplus, SessionsPart!DisconnectDcs, SessionsPart!DisconnectM17,
       SessionsPart!DisconnectMmdvm, SessionsPart!DisconnectYsf, SessionsPart!DisconnectNxdn,
       SessionsPart!DisconnectP25, SessionsPart!Inv
  <2>2. SessionsPart!Single => SessionsPart!Single' /\ Renewed
    <3>1. CASE list' = list
      BY <3>1 DEF SessionsPart!Single, SessionsPart!Entries, Renewed
    <3>2. CASE SessionsPart!RemoveFound
      BY <3>2, RemoveKeepsSingle
    <3>. QED
      BY <2>1, <3>1, <3>2
  <2>. QED
    BY <2>1, <2>2, SessionsKept DEF SessionsPart!Inv
<1>7. ASSUME NEW m \in Modules, SessionsPart!Talk(m)
      PROVE  SessionsPart!Inv'
  <2>1. kind' = kind /\ on' = on /\ strayed' = strayed
    BY <1>7 DEF SessionsPart!Talk
  <2>2. CASE kind = "dplus" \/ (kind \in {"dextra", "dcs", "m17"} /\ strayed)
    BY <2>1, <2>2, SessionsKept DEF SessionsPart!Inv
  <2>3. CASE SessionsPart!Single /\ kind # "dplus"
    <3>1. PICK x \in SessionsPart!Entries : list = <<x>>
      BY <1>7, <2>3 DEF SessionsPart!Talk, SessionsPart!TalkDplus, SessionsPart!TalkYsf,
         SessionsPart!TalkMmdvm, SessionsPart!TalkLinked, SessionsPart!Found, SessionsPart!OpenOn,
         SessionsPart!Single
    <3>2. list[1] = x /\ x.module \in Modules \cup {None}
      BY <3>1, OneLong DEF SessionsPart!Entries
    <3>3. PICK n \in Modules \cup {None} :
            SessionsPart!OpenOn(n) /\ (kind \notin {"ysf", "mmdvm"} => n = list[1].module)
      BY <1>7, <2>3, <3>2 DEF SessionsPart!Talk, SessionsPart!TalkDplus, SessionsPart!TalkYsf,
         SessionsPart!TalkMmdvm, SessionsPart!TalkLinked
    <3>4. SessionsPart!Single' /\ list # <<>> /\ list' # <<>> /\ list'[1].module = n
      BY <2>3, <3>3, OpenKeepsSingle
    <3>. QED
      BY <2>1, <3>3, <3>4, SessionsKept DEF SessionsPart!Inv, Renewed
  <2>. QED
    BY <2>2, <2>3, <1>7 DEF SessionsPart!Inv, SessionsPart!Talk, SessionsPart!TalkDplus,
       SessionsPart!TalkYsf, SessionsPart!TalkMmdvm, SessionsPart!TalkLinked
<1>8. CASE UNCHANGED sessionsVars
  BY <1>8 DEF sessionsVars, SessionsPart!Inv, SessionsPart!Single, SessionsPart!Entries
<1>. QED
  BY <1>1, <1>2, <1>3, <1>4, <1>5, <1>6, <1>7, <1>8 DEF SessionsPart!Next

\* A station and its entries in the list of clients: see SessionsPart!Inv.
SessionsInv == part = "sessions" => SessionsPart!Inv

LEMMA SessionsInductive == Spec => []SessionsInv
<1>1. Init => SessionsInv
  BY SessionsInit DEF Init, SessionsInv
<1>2. ASSUME SessionsInv, [Next]_vars PROVE SessionsInv'
  BY <1>2, PartStays, SessionsSteps, SessionsInvariance DEF SessionsInv
<1>. QED
  BY <1>1, <1>2, PTL DEF Spec

\* A station has one entry in the list of clients however often it links, and one
\* that names its module hears no other (AddClient, FindClient).
THEOREM OneEntryCorrect == Spec => []OneEntry
<1>1. SessionsPart!Single => Len(list) <= 1
  <2>1. CASE list = <<>>
    <3>1. Len(list) = 0
      BY <2>1
    <3>. QED
      BY <3>1
  <2>2. ASSUME NEW e \in SessionsPart!Entries, list = <<e>> PROVE Len(list) <= 1
    <3>1. Len(list) = 1
      BY <2>2, OneLong
    <3>. QED
      BY <3>1
  <2>. QED
    BY <2>1, <2>2 DEF SessionsPart!Single
<1>2. SessionsInv => OneEntry
  BY <1>1 DEF SessionsInv, SessionsPart!Inv, OneEntry, SessionsPart!OneEntry, SessionsPart!OneModule
<1>. QED
  BY <1>2, SessionsInductive, PTL
-----------------------------------------------------------------------------
(***************************************************************************)
(* Service.                                                                *)
(***************************************************************************)

LEMMA ServiceSteps ==
  ASSUME [Next]_vars, part = "service"
  PROVE  ServicePart!Next \/ UNCHANGED serviceVars
BY DEF Next, InIds, InLists, InDirectory, InService, InSessions, InWiresX, InConfiguration,
       InCallsigns, vars

LEMMA ServiceIs ==
  /\ Len(Protocols) \in Nat /\ DOMAIN Protocols = 1..Len(Protocols)
  /\ Len(Configured) \in Nat /\ DOMAIN Configured = 1..Len(Configured)
  /\ ServicePart!ProtocolSet = {Protocols[k] : k \in DOMAIN Protocols}
  /\ ServicePart!ModuleSet = {Configured[k] : k \in DOMAIN Configured}
<1>1. /\ Protocols \in Seq({Protocols[k] : k \in DOMAIN Protocols})
      /\ Configured \in Seq({Configured[k] : k \in DOMAIN Configured})
  BY PartsAssumption DEF PartsAssumption, ServicePart!ServiceAssumption, ServicePart!ToSet
<1>2. /\ Len(Protocols) \in Nat /\ DOMAIN Protocols = 1..Len(Protocols)
      /\ Len(Configured) \in Nat /\ DOMAIN Configured = 1..Len(Configured)
  BY <1>1
<1>. QED
  BY <1>2 DEF ServicePart!ProtocolSet, ServicePart!ModuleSet, ServicePart!ToSet

LEMMA ServiceInit == ASSUME ServicePart!Init PROVE ServicePart!Inv
BY DEF ServicePart!Init, ServicePart!Inv, ServicePart!Places

\* Where the main thread goes next.
LEMMA MainGoes ==
  ASSUME main \in [at : ServicePart!Places, i : Nat \ {0}],
         NEW place \in ServicePart!Places, ServicePart!GoTo(place)
  PROVE  main' \in [at : ServicePart!Places, i : Nat \ {0}] /\ main'.at = place /\ main'.i = 1
BY DEF ServicePart!GoTo

LEMMA MainGoesOn ==
  ASSUME main \in [at : ServicePart!Places, i : Nat \ {0}], ServicePart!GoOn
  PROVE  /\ main' \in [at : ServicePart!Places, i : Nat \ {0}]
         /\ main'.at = main.at /\ main'.i = main.i + 1
BY DEF ServicePart!GoOn

LEMMA StartKeepsInv ==
  ASSUME ServicePart!Inv,
         \/ ServicePart!StartHelpers \/ ServicePart!StartedProtocols \/ ServicePart!StartedModules
         \/ \E bound \in BOOLEAN : ServicePart!StartProtocol(bound)
         \/ \E codec \in BOOLEAN : ServicePart!StartModule(codec)
  PROVE  ServicePart!Inv'
<1>. main \in [at : ServicePart!Places, i : Nat \ {0}]
  BY DEF ServicePart!Inv
<1>. {"helpers", "protocols", "modules", "pause", "exit", "close"} \subseteq ServicePart!Places
  BY DEF ServicePart!Places
<1>1. CASE ServicePart!StartHelpers
  <2>1. main' \in [at : ServicePart!Places, i : Nat \ {0}] /\ main'.at = "protocols" /\ main'.i = 1
    BY <1>1, MainGoes DEF ServicePart!StartHelpers
  <2>2. alive' = {} /\ route' = route /\ \A m \in ServicePart!ModuleSet : route[m] = "none"
    BY <1>1 DEF ServicePart!StartHelpers, ServicePart!At, ServicePart!Inv
  <2>3. {n \in DOMAIN Protocols : n < 1} = {}
    BY ServiceIs
  <2>. QED
    BY <2>1, <2>2, <2>3 DEF ServicePart!Inv
<1>2. CASE ServicePart!StartedProtocols
  <2>1. main' \in [at : ServicePart!Places, i : Nat \ {0}] /\ main'.at = "modules" /\ main'.i = 1
    BY <1>2, MainGoes DEF ServicePart!StartedProtocols
  <2>2. alive' = alive /\ route' = route /\ main.i > Len(Protocols) /\ main.at = "protocols"
    BY <1>2 DEF ServicePart!StartedProtocols, ServicePart!At, ServicePart!threadVars
  <2>3. {n \in DOMAIN Protocols : n < main.i} = DOMAIN Protocols
    BY <2>2, ServiceIs
  <2>4. alive' = ServicePart!ProtocolSet
    BY <2>2, <2>3, ServiceIs DEF ServicePart!Inv
  <2>. QED
    BY <2>1, <2>2, <2>4 DEF ServicePart!Inv
<1>3. CASE ServicePart!StartedModules
  <2>1. main' \in [at : ServicePart!Places, i : Nat \ {0}] /\ main'.at = "pause"
    BY <1>3, MainGoes DEF ServicePart!StartedModules
  <2>2. alive' = alive /\ route' = route /\ main.at = "modules"
    BY <1>3 DEF ServicePart!StartedModules, ServicePart!At
  <2>. QED
    BY <2>1, <2>2 DEF ServicePart!Inv
<1>4. ASSUME NEW bound \in BOOLEAN, ServicePart!StartProtocol(bound)
      PROVE  ServicePart!Inv'
  <2>1. /\ main.at = "protocols" /\ main.i \in DOMAIN Protocols
        /\ alive' = alive \cup {Protocols[main.i]} /\ route' = route
    BY <1>4, ServiceIs DEF ServicePart!StartProtocol, ServicePart!At
  <2>2. CASE bound
    <3>1. /\ main' \in [at : ServicePart!Places, i : Nat \ {0}]
          /\ main'.at = "protocols" /\ main'.i = main.i + 1
      BY <1>4, <2>1, <2>2, MainGoesOn DEF ServicePart!StartProtocol
    <3>2. {n \in DOMAIN Protocols : n < main.i + 1} = {n \in DOMAIN Protocols : n < main.i} \cup {main.i}
      BY <2>1, ServiceIs
    <3>3. alive = {Protocols[k] : k \in {n \in DOMAIN Protocols : n < main.i}}
      BY <2>1 DEF ServicePart!Inv
    <3>4. alive' = {Protocols[k] : k \in {n \in DOMAIN Protocols : n < main.i + 1}}
      BY <2>1, <3>2, <3>3
    <3>. QED
      BY <2>1, <3>1, <3>4 DEF ServicePart!Inv
  <2>3. CASE ~bound
    <3>1. main' \in [at : ServicePart!Places, i : Nat \ {0}] /\ main'.at = "close"
      BY <1>4, <2>3, MainGoes DEF ServicePart!StartProtocol
    <3>. QED
      BY <2>1, <3>1 DEF ServicePart!Inv, ServicePart!AllSilent, ServicePart!Silent
  <2>. QED
    BY <2>2, <2>3
<1>5. ASSUME NEW c \in BOOLEAN, ServicePart!StartModule(c)
      PROVE  ServicePart!Inv'
  <2>1. main.at = "modules" /\ alive' = alive /\ alive = ServicePart!ProtocolSet
    BY <1>5 DEF ServicePart!StartModule, ServicePart!At, ServicePart!Inv
  <2>2. /\ main' \in [at : ServicePart!Places, i : Nat \ {0}]
        /\ main'.at \in {"modules", "exit"}
    BY <1>5, <2>1, MainGoes, MainGoesOn DEF ServicePart!StartModule
  <2>3. route' \in [ServicePart!ModuleSet -> {"none", "wait", "lock", "push", "ended"}]
    BY <1>5 DEF ServicePart!StartModule, ServicePart!Inv
  <2>. QED
    BY <2>1, <2>2, <2>3 DEF ServicePart!Inv
<1>. QED
  BY <1>1, <1>2, <1>3, <1>4, <1>5

\* No action of the main thread after the start starts a router.
LEMMA StopKeepsInv ==
  ASSUME ServicePart!Inv,
         \/ ServicePart!Pause \/ ServicePart!Exit \/ ServicePart!Abort
         \/ ServicePart!WaitReport \/ ServicePart!WaitRouter \/ ServicePart!WaitedRouters
         \/ ServicePart!CloseProtocols \/ ServicePart!CloseProtocol \/ ServicePart!ClosedProtocols
         \/ ServicePart!WaitGate \/ ServicePart!WaitLookup
  PROVE  ServicePart!Inv'
<1>. main \in [at : ServicePart!Places, i : Nat \ {0}]
  BY DEF ServicePart!Inv
<1>. ServicePart!Places =
       {"helpers", "protocols", "modules", "pause", "exit", "report", "routers", "close",
        "closing", "gate", "lookup", "end"}
  BY DEF ServicePart!Places
<1>1. route' = route
  BY DEF ServicePart!Pause, ServicePart!Exit, ServicePart!Abort, ServicePart!WaitReport,
     ServicePart!WaitRouter, ServicePart!WaitedRouters, ServicePart!CloseProtocols,
     ServicePart!CloseProtocol, ServicePart!ClosedProtocols, ServicePart!WaitGate,
     ServicePart!WaitLookup, ServicePart!threadVars
<1>2. CASE ServicePart!Pause
  <2>1. main' \in [at : ServicePart!Places, i : Nat \ {0}] /\ main'.at = "report"
    BY <1>2, MainGoes DEF ServicePart!Pause, ServicePart!First
  <2>2. alive' = alive /\ main.at = "pause"
    BY <1>2 DEF ServicePart!Pause, ServicePart!At
  <2>. QED
    BY <1>1, <2>1, <2>2 DEF ServicePart!Inv
<1>3. CASE ServicePart!Exit
  <2>1. main' \in [at : ServicePart!Places, i : Nat \ {0}] /\ main'.at = "lookup"
    BY <1>3, MainGoes DEF ServicePart!Exit
  <2>2. alive' = alive /\ main.at = "exit"
    BY <1>3 DEF ServicePart!Exit, ServicePart!At
  <2>. QED
    BY <1>1, <2>1, <2>2 DEF ServicePart!Inv
<1>4. CASE ServicePart!WaitReport
  <2>1. main' \in [at : ServicePart!Places, i : Nat \ {0}] /\ main'.at = "routers" /\ main'.i = 1
    BY <1>4, MainGoes DEF ServicePart!WaitReport
  <2>2. alive' = alive /\ main.at = "report"
    BY <1>4 DEF ServicePart!WaitReport, ServicePart!At
  <2>3. \A k \in DOMAIN Configured : ~(k < 1)
    BY ServiceIs
  <2>. QED
    BY <1>1, <2>1, <2>2, <2>3 DEF ServicePart!Inv
<1>5. CASE ServicePart!WaitRouter
  <2>1. /\ main' \in [at : ServicePart!Places, i : Nat \ {0}]
        /\ main'.at = main.at /\ main'.i = main.i + 1
    BY <1>5, MainGoesOn DEF ServicePart!WaitRouter
  <2>2. /\ alive' = alive /\ main.at = "routers"
        /\ ServicePart!Silent(Configured[main.i])
    BY <1>5 DEF ServicePart!WaitRouter, ServicePart!At, ServicePart!Silent
  <2>3. \A k \in DOMAIN Configured : k < main.i + 1 => ServicePart!Silent(Configured[k])
    <3>1. \A k \in DOMAIN Configured : k < main.i => ServicePart!Silent(Configured[k])
      BY <2>2 DEF ServicePart!Inv
    <3>2. \A k \in DOMAIN Configured : k < main.i + 1 => k < main.i \/ k = main.i
      BY ServiceIs
    <3>. QED
      BY <2>2, <3>1, <3>2
  <2>. QED
    BY <1>1, <2>1, <2>2, <2>3 DEF ServicePart!Inv, ServicePart!Silent
<1>6. CASE ServicePart!WaitedRouters
  <2>1. main' \in [at : ServicePart!Places, i : Nat \ {0}] /\ main'.at = "close"
    BY <1>6, MainGoes DEF ServicePart!WaitedRouters
  <2>2. alive' = alive /\ main.at = "routers" /\ main.i > Len(Configured)
    BY <1>6 DEF ServicePart!WaitedRouters, ServicePart!At, ServicePart!threadVars
  <2>3. ServicePart!AllSilent
    <3>1. \A k \in DOMAIN Configured : k < main.i
      BY <2>2, ServiceIs
    <3>. QED
      BY <2>2, <3>1, ServiceIs DEF ServicePart!Inv, ServicePart!AllSilent
  <2>. QED
    BY <1>1, <2>1, <2>2, <2>3 DEF ServicePart!Inv, ServicePart!AllSilent, ServicePart!Silent
<1>7. ASSUME main.at \in {"close", "closing", "gate"},
             main' \in [at : ServicePart!Places, i : Nat \ {0}],
             main'.at \in {"closing", "gate", "lookup"}
      PROVE  ServicePart!Inv'
  BY <1>1, <1>7 DEF ServicePart!Inv, ServicePart!AllSilent, ServicePart!Silent
<1>8. CASE ServicePart!CloseProtocols
  BY <1>7, <1>8, MainGoes DEF ServicePart!CloseProtocols, ServicePart!At
<1>9. CASE ServicePart!CloseProtocol
  BY <1>7, <1>9, MainGoesOn DEF ServicePart!CloseProtocol, ServicePart!At
<1>10. CASE ServicePart!ClosedProtocols
  BY <1>7, <1>10, MainGoes DEF ServicePart!ClosedProtocols, ServicePart!At
<1>11. CASE ServicePart!WaitGate
  BY <1>7, <1>11, MainGoes DEF ServicePart!WaitGate, ServicePart!At
<1>12. CASE ServicePart!WaitLookup \/ ServicePart!Abort
  <2>1. main' \in [at : ServicePart!Places, i : Nat \ {0}] /\ main'.at = "end"
    BY <1>12, MainGoes DEF ServicePart!WaitLookup, ServicePart!Abort
  <2>2. alive' = alive /\ main.at = "lookup"
    BY <1>12 DEF ServicePart!WaitLookup, ServicePart!Abort, ServicePart!At
  <2>. QED
    BY <1>1, <2>1, <2>2 DEF ServicePart!Inv, ServicePart!AllSilent, ServicePart!Silent
<1>. QED
  BY <1>2, <1>3, <1>4, <1>5, <1>6, <1>8, <1>9, <1>10, <1>11, <1>12

\* A router that has ended, or was never started, does nothing more.
LEMMA RouterKeepsInv ==
  ASSUME ServicePart!Inv, NEW m \in ServicePart!ModuleSet, ServicePart!Router(m)
  PROVE  ServicePart!Inv'
<1>1. main' = main /\ alive' = alive
  BY DEF ServicePart!Router, ServicePart!Pop, ServicePart!Lock, ServicePart!Push
<1>2. PICK what \in {"wait", "lock", "push", "ended"} : route' = [route EXCEPT ![m] = what]
  BY DEF ServicePart!Router, ServicePart!Pop, ServicePart!Lock, ServicePart!Push
<1>3. route[m] \in {"wait", "lock", "push"}
  BY DEF ServicePart!Router, ServicePart!Pop, ServicePart!Lock, ServicePart!Push
<1>4. \A n : ServicePart!Silent(n) => n # m
  BY <1>3 DEF ServicePart!Silent
<1>5. \A n \in ServicePart!ModuleSet : n # m => route'[n] = route[n]
  BY <1>2 DEF ServicePart!Inv
<1>6. ~ServicePart!AllSilent
  BY <1>4 DEF ServicePart!AllSilent
<1>7. route' \in [ServicePart!ModuleSet -> {"none", "wait", "lock", "push", "ended"}]
  BY <1>2 DEF ServicePart!Inv
<1>8. main.at \notin {"helpers", "protocols"}
  BY <1>3 DEF ServicePart!Inv
<1>9. main.at = "routers" =>
        \A k \in DOMAIN Configured : k < main.i => route'[Configured[k]] \in {"none", "ended"}
  BY <1>4, <1>5, ServiceIs DEF ServicePart!Inv, ServicePart!Silent
<1>. QED
  BY <1>1, <1>6, <1>7, <1>8, <1>9 DEF ServicePart!Inv, ServicePart!Silent

LEMMA ServiceInvariance ==
  ASSUME ServicePart!Inv, ServicePart!Next \/ UNCHANGED serviceVars
  PROVE  ServicePart!Inv'
<1>1. CASE UNCHANGED <<main, alive, route>>
  BY <1>1 DEF ServicePart!Inv, ServicePart!AllSilent, ServicePart!Silent
<1>2. CASE ServicePart!Main
  BY <1>2, StartKeepsInv, StopKeepsInv DEF ServicePart!Main
<1>3. CASE ServicePart!Pause \/ ServicePart!Abort
  BY <1>3, StopKeepsInv
<1>4. ASSUME NEW p \in ServicePart!ProtocolSet, NEW m \in ServicePart!ModuleSet,
             \/ ServicePart!Close(p) \/ ServicePart!EndTask(p)
             \/ ServicePart!Receive(p, m) \/ ServicePart!Expire(p, m)
      PROVE  UNCHANGED <<main, alive, route>>
  BY <1>4 DEF ServicePart!Close, ServicePart!EndTask, ServicePart!Receive, ServicePart!Expire,
     ServicePart!threadVars
<1>5. ASSUME NEW p \in ServicePart!ProtocolSet, ServicePart!Close(p) \/ ServicePart!EndTask(p)
      PROVE  UNCHANGED <<main, alive, route>>
  BY <1>5 DEF ServicePart!Close, ServicePart!EndTask
<1>6. ASSUME NEW h \in Helpers, ServicePart!EndHelp(h)
      PROVE  UNCHANGED <<main, alive, route>>
  BY <1>6 DEF ServicePart!EndHelp
<1>7. UNCHANGED serviceVars => UNCHANGED <<main, alive, route>>
  BY DEF serviceVars
<1>. QED
  BY <1>1, <1>2, <1>3, <1>4, <1>5, <1>6, <1>7, RouterKeepsInv DEF ServicePart!Next

\* Start and stop of the reflector: see ServicePart!Inv.
ServiceInv == part = "service" => ServicePart!Inv

LEMMA ServiceInductive == Spec => []ServiceInv
<1>1. Init => ServiceInv
  BY ServiceInit DEF Init, ServiceInv
<1>2. ASSUME ServiceInv, [Next]_vars PROVE ServiceInv'
  BY <1>2, PartStays, ServiceSteps, ServiceInvariance DEF ServiceInv
<1>. QED
  BY <1>1, <1>2, PTL DEF Spec

\* A router never hands a packet to protocols of which one is not started yet or
\* destroyed already, whether the start succeeds, fails or is followed by a stop
\* (CReflector::Start and Stop, RouterThread).
THEOREM AllProtocolsThereCorrect == Spec => []AllProtocolsThere
<1>1. ASSUME ServicePart!Inv, NEW m \in ServicePart!ModuleSet, route[m] = "push"
      PROVE  alive = ServicePart!ProtocolSet
  BY <1>1 DEF ServicePart!Inv, ServicePart!AllSilent, ServicePart!Silent, ServicePart!Places
<1>2. ServiceInv => AllProtocolsThere
  BY <1>1 DEF ServiceInv, AllProtocolsThere, ServicePart!AllProtocolsThere
<1>. QED
  BY <1>2, ServiceInductive, PTL
-----------------------------------------------------------------------------
(***************************************************************************)
(* Lists.                                                                  *)
(***************************************************************************)

LEMMA ListsSteps ==
  ASSUME [Next]_vars, part = "lists"
  PROVE  ListsPart!Next \/ UNCHANGED listsVars
BY DEF Next, InIds, InLists, InDirectory, InService, InSessions, InWiresX, InConfiguration,
       InCallsigns, vars

\* What a version of a file says is something a list may hold.
LEMMA FaithfulHeld ==
  ASSUME NEW n \in ListsPart!Names, NEW v \in Versions[n]
  PROVE  ListsPart!Loaded(v) \in ListsPart!Readings /\ ListsPart!Faithful(n, ListsPart!Loaded(v))
BY DEF ListsPart!Readings, ListsPart!Faithful

LEMMA ListsInit == ASSUME ListsPart!Init PROVE ListsPart!Inv
<1>1. {} \in ListsPart!Readings
  BY DEF ListsPart!Readings
<1>2. \A n \in ListsPart!Names : file[n] \in Versions[n] \cup {NoFile}
  BY DEF ListsPart!Init
<1>3. listed \in [ListsPart!Names -> ListsPart!Readings]
  BY <1>1, <1>2, FaithfulHeld DEF ListsPart!Init
<1>4. keeper = [at |-> "wait", name |-> "white", read |-> {}] /\ "white" \in ListsPart!Names
  BY DEF ListsPart!Init, ListsPart!Waiting, ListsPart!Names
<1>5. asking = [cs |-> <<>>, at |-> "white"]
  BY DEF ListsPart!Init, ListsPart!Nobody
<1>6. ListsPart!TypeOK
  BY <1>1, <1>3, <1>4, <1>5 DEF ListsPart!TypeOK, ListsPart!Init
<1>7. \A n \in ListsPart!Names : filename[n] => ListsPart!Faithful(n, listed[n])
  BY <1>2, FaithfulHeld DEF ListsPart!Init
<1>. QED
  BY <1>2, <1>4, <1>5, <1>6, <1>7 DEF ListsPart!Inv, ListsPart!Sound, ListsPart!Init

\* The gate keeper's thread: whenever it leaves a list, the list holds what a
\* version of its file says.
LEMMA KeeperKeepsInv ==
  ASSUME ListsPart!Inv, ListsPart!Thread
  PROVE  ListsPart!Inv'
<1>. DEFINE N == ListsPart!Names
            C == ListsPart!Readings
            K == [at : {"wait", "check", "cleared", "filled"}, name : N, read : C]
<1>1. /\ keeper \in K /\ listed \in [N -> C] /\ locked \subseteq N
      /\ "white" \in N /\ "black" \in N /\ {} \in C
  BY DEF ListsPart!Inv, ListsPart!TypeOK, ListsPart!Names, ListsPart!Readings
<1>2. /\ UNCHANGED <<file, filename, asking, admitted>>
  BY DEF ListsPart!Thread, ListsPart!Wake, ListsPart!Keep, ListsPart!Clear, ListsPart!Fill,
     ListsPart!Stat, ListsPart!fileVars, ListsPart!setVars
<1>3. ASSUME keeper' \in K, listed' \in [N -> C], ListsPart!Sound'
      PROVE  ListsPart!Inv'
  <2>1. locked' \subseteq N
    BY <1>3 DEF ListsPart!Sound
  <2>2. ListsPart!TypeOK'
    BY <1>2, <1>3, <2>1 DEF ListsPart!TypeOK, ListsPart!Inv, ListsPart!Readings
  <2>3. \A n, cs : ListsPart!ShutOut(n, cs)' <=> ListsPart!ShutOut(n, cs)
    BY <1>2 DEF ListsPart!ShutOut
  <2>. QED
    BY <1>2, <1>3, <2>2, <2>3 DEF ListsPart!Inv
<1>4. \A n \in N : ListsPart!After(n) \in K /\ ListsPart!After(n).at \in {"wait", "check"}
  BY <1>1 DEF ListsPart!After, ListsPart!Waiting
<1>5. CASE ListsPart!Wake
  BY <1>1, <1>3, <1>5 DEF ListsPart!Wake, ListsPart!setVars, ListsPart!Inv, ListsPart!Sound, ListsPart!Faithful
<1>6. ASSUME NEW n \in N, ListsPart!Keep(n)
      PROVE  /\ keeper' \in K /\ keeper'.at \in {"wait", "check"}
             /\ listed' = listed /\ locked' = {} /\ locked = {}
  BY <1>1, <1>4, <1>6 DEF ListsPart!Keep, ListsPart!setVars, ListsPart!Inv, ListsPart!Sound
<1>7. ASSUME NEW n \in N, ListsPart!Clear(n)
      PROVE  /\ keeper' \in K /\ keeper'.at = "cleared" /\ keeper'.name = n
             /\ ListsPart!Faithful(n, keeper'.read)
             /\ listed' = [listed EXCEPT ![n] = {}] /\ locked' = {n} /\ locked = {}
  <2>1. file[n] \in Versions[n]
    BY <1>7 DEF ListsPart!Clear, ListsPart!NeedReload, ListsPart!Inv
  <2>2. keeper' = [keeper EXCEPT !.at = "cleared", !.read = ListsPart!Loaded(file[n])]
    BY <1>7 DEF ListsPart!Clear
  <2>3. locked = {} /\ keeper.name = n
    BY <1>7 DEF ListsPart!Clear, ListsPart!Inv, ListsPart!Sound
  <2>. QED
    BY <1>1, <1>7, <2>1, <2>2, <2>3, FaithfulHeld DEF ListsPart!Clear, ListsPart!Lock
<1>8. ASSUME NEW n \in N, ListsPart!Fill(n)
      PROVE  /\ keeper' \in K /\ keeper'.at = "filled" /\ keeper'.name = n
             /\ ListsPart!Faithful(n, keeper.read) /\ keeper.read \in C
             /\ listed' = [listed EXCEPT ![n] = keeper.read] /\ locked' = {n} /\ locked = {n}
  BY <1>1, <1>8 DEF ListsPart!Fill, ListsPart!Inv, ListsPart!Sound
<1>9. ASSUME NEW n \in N, ListsPart!Stat(n)
      PROVE  /\ keeper' \in K /\ keeper'.at \in {"wait", "check"}
             /\ ListsPart!Faithful(n, listed[n])
             /\ listed' = listed /\ locked' = {} /\ locked = {n}
  BY <1>1, <1>4, <1>9 DEF ListsPart!Stat, ListsPart!Inv, ListsPart!Sound
<1>10. \A n \in N : filename[n] /\ n \notin locked => ListsPart!Faithful(n, listed[n])
  BY DEF ListsPart!Inv, ListsPart!Sound
<1>11. ASSUME NEW n \in N, ListsPart!Keep(n) \/ ListsPart!Stat(n) PROVE ListsPart!Inv'
  <2>1. keeper' \in K /\ keeper'.at \in {"wait", "check"} /\ listed' = listed /\ locked' = {}
    BY <1>6, <1>9, <1>11
  <2>2. \A k \in N : filename[k] => ListsPart!Faithful(k, listed[k])
    BY <1>6, <1>9, <1>10, <1>11
  <2>3. ListsPart!Sound'
    BY <1>2, <2>1, <2>2 DEF ListsPart!Sound
  <2>. QED
    BY <1>1, <1>3, <2>1, <2>3
<1>12. ASSUME NEW n \in N, ListsPart!Clear(n) PROVE ListsPart!Inv'
  <2>1. \A k \in N : k # n => listed'[k] = listed[k]
    BY <1>1, <1>7, <1>12
  <2>2. \A k \in N : filename[k] /\ k # n => ListsPart!Faithful(k, listed'[k])
    BY <1>7, <1>10, <1>12, <2>1
  <2>3. ListsPart!Sound'
    BY <1>2, <1>7, <1>12, <2>2 DEF ListsPart!Sound
  <2>. QED
    BY <1>1, <1>3, <1>7, <1>12, <2>3
<1>13. ASSUME NEW n \in N, ListsPart!Fill(n) PROVE ListsPart!Inv'
  <2>1. listed'[n] = keeper.read /\ \A k \in N : k # n => listed'[k] = listed[k]
    BY <1>1, <1>8, <1>13
  <2>2. \A k \in N : filename[k] /\ k # n => ListsPart!Faithful(k, listed'[k])
    BY <1>8, <1>10, <1>13, <2>1
  <2>3. ListsPart!Sound'
    BY <1>2, <1>8, <1>13, <2>1, <2>2 DEF ListsPart!Sound
  <2>. QED
    BY <1>1, <1>3, <1>8, <1>13, <2>3
<1>. QED
  BY <1>5, <1>11, <1>12, <1>13 DEF ListsPart!Thread

\* The list of a file that is not locked lets nobody pass whom no version does.
LEMMA ShutOutStays ==
  ASSUME ListsPart!Inv, NEW n \in ListsPart!Names, n \notin locked, NEW cs,
         ListsPart!Passes(n, listed[n], cs)
  PROVE  ~ListsPart!ShutOut(n, cs)
BY DEF ListsPart!Inv, ListsPart!Sound, ListsPart!Faithful, ListsPart!ShutOut

LEMMA AskKeepsInv ==
  ASSUME ListsPart!Inv, NEW n \in ListsPart!Names, ListsPart!IsNodeListedOk(n)
  PROVE  ListsPart!Inv'
<1>1. UNCHANGED <<file, filename, listed, locked, keeper>>
  BY DEF ListsPart!IsNodeListedOk, ListsPart!fileVars, ListsPart!setVars
<1>2. /\ asking \in [cs : Callers \cup {<<>>}, at : ListsPart!Names]
      /\ asking.cs # <<>> /\ asking.at = n
  BY DEF ListsPart!IsNodeListedOk, ListsPart!Inv, ListsPart!TypeOK
<1>3. "white" \in ListsPart!Names /\ "black" \in ListsPart!Names /\ n \in {"white", "black"}
  BY DEF ListsPart!Names
<1>4. ListsPart!Passes(n, listed[n], asking.cs) => ~ListsPart!ShutOut(n, asking.cs)
  BY ShutOutStays DEF ListsPart!IsNodeListedOk
<1>5. asking' \in [cs : Callers \cup {<<>>}, at : ListsPart!Names]
  BY <1>2, <1>3 DEF ListsPart!IsNodeListedOk, ListsPart!Nobody
<1>6. asking'.cs # <<>> /\ asking'.at = "black" => ~ListsPart!ShutOut("white", asking'.cs)
  BY <1>2, <1>3, <1>4 DEF ListsPart!IsNodeListedOk, ListsPart!Nobody
<1>7. \A cs \in admitted' : ~ListsPart!ShutOut("white", cs) /\ ~ListsPart!ShutOut("black", cs)
  <2>1. CASE admitted' = admitted
    BY <2>1 DEF ListsPart!Inv
  <2>2. CASE /\ n = "black" /\ ListsPart!Passes(n, listed[n], asking.cs)
             /\ admitted' = admitted \cup {asking.cs}
    BY <1>2, <1>4, <2>2 DEF ListsPart!Inv
  <2>. QED
    BY <1>3, <2>1, <2>2 DEF ListsPart!IsNodeListedOk
<1>8. \A k, cs : ListsPart!ShutOut(k, cs)' <=> ListsPart!ShutOut(k, cs)
  BY <1>1 DEF ListsPart!ShutOut
<1>9. ListsPart!TypeOK' /\ ListsPart!Sound'
  BY <1>1, <1>5 DEF ListsPart!Inv, ListsPart!TypeOK, ListsPart!Sound, ListsPart!Readings
<1>10. \A k \in ListsPart!Names : file'[k] \in Versions[k] \cup {NoFile}
  BY <1>1 DEF ListsPart!Inv
<1>. QED
  BY <1>6, <1>7, <1>8, <1>9, <1>10 DEF ListsPart!Inv

\* A file changes, time passes, or somebody begins to ask.
LEMMA OthersKeepInv ==
  ASSUME ListsPart!Inv,
         UNCHANGED <<filename, listed, locked, keeper, admitted>>,
         file' \in [ListsPart!Names -> (UNION {Versions[n] : n \in ListsPart!Names}) \cup {NoFile}],
         \A n \in ListsPart!Names : file'[n] \in Versions[n] \cup {NoFile},
         asking' \in [cs : Callers \cup {<<>>}, at : ListsPart!Names],
         asking' = asking \/ asking'.at = "white"
  PROVE  ListsPart!Inv'
<1>1. ListsPart!TypeOK' /\ ListsPart!Sound'
  BY DEF ListsPart!Inv, ListsPart!TypeOK, ListsPart!Sound, ListsPart!Readings
<1>2. \A k, cs : ListsPart!ShutOut(k, cs)' <=> ListsPart!ShutOut(k, cs)
  BY DEF ListsPart!ShutOut
<1>3. asking'.cs # <<>> /\ asking'.at = "black" => ~ListsPart!ShutOut("white", asking'.cs)
  BY DEF ListsPart!Inv
<1>4. \A cs \in admitted' : ~ListsPart!ShutOut("white", cs) /\ ~ListsPart!ShutOut("black", cs)
  BY DEF ListsPart!Inv
<1>. QED
  BY <1>1, <1>2, <1>3, <1>4 DEF ListsPart!Inv

LEMMA ListsInvariance ==
  ASSUME ListsPart!Inv, ListsPart!Next \/ UNCHANGED listsVars
  PROVE  ListsPart!Inv'
<1>1. /\ file \in [ListsPart!Names -> (UNION {Versions[n] : n \in ListsPart!Names}) \cup {NoFile}]
      /\ \A n \in ListsPart!Names : file[n] \in Versions[n] \cup {NoFile}
      /\ asking \in [cs : Callers \cup {<<>>}, at : ListsPart!Names]
  BY DEF ListsPart!Inv, ListsPart!TypeOK
<1>2. ASSUME NEW n \in ListsPart!Names, NEW t, NEW v \in Versions[n] \cup {NoFile},
             ListsPart!Write(n, v, t)
      PROVE  ListsPart!Inv'
  <2>1. /\ UNCHANGED <<filename, listed, locked, keeper, admitted, asking>>
        /\ file' = [file EXCEPT ![n] = v]
    BY <1>2 DEF ListsPart!Write, ListsPart!setVars
  <2>2. \A k \in ListsPart!Names : file'[k] \in Versions[k] \cup {NoFile}
    BY <1>1, <2>1
  <2>3. file' \in [ListsPart!Names -> (UNION {Versions[k] : k \in ListsPart!Names}) \cup {NoFile}]
    BY <1>1, <2>1
  <2>. QED
    BY <1>1, <2>1, <2>2, <2>3, OthersKeepInv
<1>3. CASE ListsPart!Tick \/ UNCHANGED listsVars
  BY <1>1, <1>3, OthersKeepInv DEF ListsPart!Tick, ListsPart!setVars, listsVars
<1>4. ASSUME NEW cs \in Callers, ListsPart!Ask(cs)
      PROVE  ListsPart!Inv'
  <2>1. UNCHANGED <<file, filename, listed, locked, keeper, admitted>>
    BY <1>4 DEF ListsPart!Ask, ListsPart!setVars, ListsPart!fileVars
  <2>2. /\ asking' \in [cs : Callers \cup {<<>>}, at : ListsPart!Names]
        /\ asking'.at = "white"
    BY <1>4 DEF ListsPart!Ask, ListsPart!Nobody, ListsPart!Names
  <2>. QED
    BY <1>1, <2>1, <2>2, OthersKeepInv
<1>. QED
  BY <1>2, <1>3, <1>4, AskKeepsInv, KeeperKeepsInv DEF ListsPart!Next

\* The white and the black list while they are loaded: see ListsPart!Inv.
ListsInv == part = "lists" => ListsPart!Inv

LEMMA ListsInductive == Spec => []ListsInv
<1>1. Init => ListsInv
  BY ListsInit DEF Init, ListsInv
<1>2. ASSUME ListsInv, [Next]_vars PROVE ListsInv'
  BY <1>2, PartStays, ListsSteps, ListsInvariance DEF ListsInv
<1>. QED
  BY <1>1, <1>2, PTL DEF Spec

\* Nobody is let in whom every version of a list shuts out, however the reload of
\* the lists and the questions of the protocol threads interleave (LoadFromFile,
\* CGateKeeper::IsNodeListedOk).
THEOREM NobodyUnlistedCorrect == Spec => []NobodyUnlisted
<1>1. \A cs : /\ filename["white"]
              /\ \A v \in Versions["white"] :
                   ListsPart!Loaded(v) # {} /\ ~ListsPart!IsMatched(ListsPart!Loaded(v), cs)
              => ListsPart!ShutOut("white", cs)
  BY DEF ListsPart!ShutOut, ListsPart!Passes
<1>2. \A cs : /\ filename["black"]
              /\ \A v \in Versions["black"] : ListsPart!IsMatched(ListsPart!Loaded(v), cs)
              => ListsPart!ShutOut("black", cs)
  BY DEF ListsPart!ShutOut, ListsPart!Passes
<1>3. ListsInv => NobodyUnlisted
  BY <1>1, <1>2 DEF ListsInv, ListsPart!Inv, NobodyUnlisted, ListsPart!NobodyUnlisted
<1>. QED
  BY <1>3, ListsInductive, PTL

-----------------------------------------------------------------------------
(***************************************************************************)
(* What urfd and tcd take from the ini file (Configuration).               *)
(***************************************************************************)

LEMMA ConfigurationSteps ==
  ASSUME [Next]_vars, part = "configuration"
  PROVE  Ini!Next \/ UNCHANGED configurationVars
BY DEF Next, InIds, InLists, InDirectory, InService, InSessions, InWiresX, InConfiguration,
       InCallsigns, vars

LEMMA DatabaseKeyIs ==
  /\ Ini!OfAll("URL") = {"dmrIdDbUrl", "nxdnIdDbUrl", "ysfIdDbUrl"}
  /\ Ini!OfAll("Mode") = {"dmrIdDbMode", "nxdnIdDbMode", "ysfIdDbMode"}
  /\ Ini!OfAll("RefreshMin") = {"dmrIdDbRefresh", "nxdnIdDbRefresh", "ysfIdDbRefresh"}
  /\ Ini!OfAll("Filename") = {"dmrIdDbFile", "nxdnIdDbFile", "ysfIdDbFile"}
  /\ Ini!OfAll("Backup") = {"dmrIdDbBkup", "nxdnIdDpBkup", "ysfIdDbBkup"}
<1>1. \A k \in {"URL", "Mode", "RefreshMin", "Filename", "Backup"} :
        Ini!OfAll(k) =
          {Ini!Of("dmriddb", k), Ini!Of("nxdniddb", k), Ini!Of("ysftxrxdb", k)}
  BY DEF Ini!OfAll, Ini!Databases
<1>. QED
  BY <1>1 DEF Ini!Of



\* The kinds of keys are apart.
OtherKeys == Ini!Strings \cup {"EnableDGID"} \cup Ini!OfAll("URL") \cup Ini!OfAll("Filename")
  \cup Ini!OfAll("Backup")
CountedKeys == Ini!Numbers \cup Ini!OfAll("RefreshMin")

LEMMA KindsApart ==
  ASSUME NEW k \in Ini!Keys
  PROVE  /\ k \in Ini!Plain =>
              k \notin CountedKeys /\ k \notin Ini!Gains /\ k \notin Ini!Autolinks
                /\ k \notin Ini!OfAll("Mode") /\ k # "Modules" /\ k # "Transcoded"
                     /\ k # "EnableDGID"
         /\ k \in CountedKeys =>
              k \notin Ini!Gains /\ k \notin Ini!Autolinks /\ k \notin Ini!OfAll("Mode")
                /\ k # "Modules" /\ k # "Transcoded" /\ k # "EnableDGID"
         /\ k \in Ini!Gains =>
              k \notin Ini!Autolinks /\ k \notin Ini!OfAll("Mode") /\ k # "Modules"
                /\ k # "Transcoded" /\ k # "EnableDGID"
         /\ k \in Ini!Autolinks =>
              k \notin Ini!OfAll("Mode") /\ k # "Modules" /\ k # "Transcoded" /\ k # "EnableDGID"
         /\ k \in Ini!OfAll("Mode") => k # "Modules" /\ k # "Transcoded" /\ k # "EnableDGID"
BY DatabaseKeyIs DEF CountedKeys, Ini!Plain, Ini!Numbers,
   Ini!Ports, Ini!Gains, Ini!Autolinks

LEMMA OthersApart ==
  ASSUME NEW k \in Ini!Keys, k \in OtherKeys
  PROVE k \notin Ini!Plain /\ k \notin CountedKeys /\ k \notin Ini!Gains
          /\ k \notin Ini!Autolinks /\ k \notin Ini!OfAll("Mode") /\ k # "Modules"
               /\ k # "Transcoded"
BY DatabaseKeyIs DEF OtherKeys, CountedKeys, Ini!Strings,
   Ini!Plain, Ini!Numbers, Ini!Ports,
   Ini!Gains, Ini!Autolinks

LEMMA KeysAre ==
  /\ Ini!Plain \subseteq Ini!Keys /\ CountedKeys \subseteq Ini!Keys
       /\ Ini!Gains \subseteq Ini!Keys /\ Ini!Autolinks \subseteq Ini!Keys
  /\ Ini!OfAll("Mode") \subseteq Ini!Keys /\ OtherKeys \subseteq Ini!Keys
       /\ "Modules" \in Ini!Keys /\ "Transcoded" \in Ini!Keys
BY DEF Ini!Keys, CountedKeys, OtherKeys, Ini!DatabaseKeys,
   Ini!ModuleSets

LEMMA LinesOf ==
  /\ \A k \in Ini!Plain : Ini!Lines(k) = {Ini!Absent, Ini!Right, Ini!Wrong}
  /\ \A k \in CountedKeys : Ini!Lines(k) = {Ini!Absent, Ini!Unsigned, Ini!Wrong}
  /\ \A k \in Ini!Gains :
       Ini!Lines(k)
         = {Ini!Absent, Ini!Whole("within"), Ini!Whole("above"), Ini!Whole("below"), Ini!Wrong}
  /\ Ini!Lines("Modules") = {Ini!Absent} \cup {Ini!Text(m) : m \in SUBSET Letters}
  /\ Ini!Lines("Transcoded") = {Ini!Absent} \cup UNION {{Ini!Text(m), Ini!Elsewhere(m)} :
       m \in SUBSET Letters}
  /\ \A k \in Ini!Autolinks :
       Ini!Lines(k) = {Ini!Absent} \cup {Ini!Text({m}) : m \in Letters} \cup {Ini!Text({})}
  /\ \A k \in Ini!OfAll("Mode") :
       Ini!Lines(k) = {Ini!Absent} \cup {Ini!Text({m}) : m \in {"http", "file", "both", "ftp"}}
  /\ \A k \in OtherKeys : Ini!Lines(k) = {Ini!Absent, Ini!Right}
<1>. USE KindsApart, OthersApart, KeysAre DEF Ini!Lines
<1>1. ASSUME NEW k \in Ini!Plain PROVE Ini!Lines(k) = {Ini!Absent, Ini!Right, Ini!Wrong}
  <2>1. Ini!Lines(k) = {Ini!Absent} \cup {Ini!Right, Ini!Wrong}
    BY DEF CountedKeys
  <2>. QED
    BY <2>1
<1>2. ASSUME NEW k \in CountedKeys PROVE Ini!Lines(k) = {Ini!Absent, Ini!Unsigned, Ini!Wrong}
  <2>1. Ini!Lines(k) = {Ini!Absent} \cup {Ini!Unsigned, Ini!Wrong}
    BY DEF CountedKeys
  <2>. QED
    BY <2>1
<1>3. ASSUME NEW k \in Ini!Gains
      PROVE  Ini!Lines(k)
               = {Ini!Absent, Ini!Whole("within"), Ini!Whole("above"), Ini!Whole("below"), Ini!Wrong}
  <2>1. Ini!Lines(k) = {Ini!Absent}
          \cup {Ini!Whole("within"), Ini!Whole("above"), Ini!Whole("below"), Ini!Wrong}
    BY DEF CountedKeys
  <2>. QED
    BY <2>1
<1>4. Ini!Lines("Modules") = {Ini!Absent} \cup {Ini!Text(m) : m \in SUBSET Letters}
  BY DEF CountedKeys
<1>5. Ini!Lines("Transcoded") = {Ini!Absent} \cup UNION {{Ini!Text(m), Ini!Elsewhere(m)} :
        m \in SUBSET Letters}
  BY DEF CountedKeys
<1>6. ASSUME NEW k \in Ini!Autolinks
      PROVE  Ini!Lines(k) = {Ini!Absent} \cup {Ini!Text({m}) : m \in Letters} \cup {Ini!Text({})}
  <2>1. Ini!Lines(k) = {Ini!Absent} \cup ({Ini!Text({m}) : m \in Letters} \cup {Ini!Text({})})
    BY DEF CountedKeys
  <2>. QED
    BY <2>1
<1>7. ASSUME NEW k \in Ini!OfAll("Mode")
      PROVE  Ini!Lines(k) = {Ini!Absent} \cup {Ini!Text({m}) :
               m \in {"http", "file", "both", "ftp"}}
  BY DEF CountedKeys
<1>8. ASSUME NEW k \in OtherKeys PROVE Ini!Lines(k) = {Ini!Absent, Ini!Right}
  <2>1. Ini!Lines(k) = {Ini!Absent} \cup {Ini!Right}
    BY DEF CountedKeys
  <2>. QED
    BY <2>1
<1>. QED
  BY <1>1, <1>2, <1>3, <1>4, <1>5, <1>6, <1>7, <1>8

\* What is read of a file that may be.
LEMMA LinesRead ==
  ASSUME \A k \in Ini!Keys : ini[k] \in Ini!Lines(k), ~Ini!BadGain
  PROVE  /\ \A k \in Ini!Plain : Ini!Data[k] \in {Ini!Absent, Ini!Right, Ini!Wrong}
         /\ \A k \in Ini!Strings \cup Ini!OfAll("URL") \cup Ini!OfAll("Filename")
                  \cup Ini!OfAll("Backup") :
              Ini!Data[k] \in {Ini!Absent, Ini!Right}
         /\ \A k \in CountedKeys : Ini!Data[k] \in {Ini!Absent, Ini!Unsigned}
         /\ \A k \in Ini!Gains : Ini!Data[k] \in {Ini!Absent, Ini!Whole("within")}
         /\ \A k \in Ini!Autolinks \cup Ini!ModuleSets :
              Ini!Data[k] = Ini!Absent \/ \E m \in SUBSET Letters : Ini!Data[k] = Ini!Text(m)
         /\ \A k \in Ini!OfAll("Mode") :
              Ini!Data[k] = Ini!Absent \/ \E m \in {"http", "file", "both"} :
                Ini!Data[k] = Ini!Text({m})
         /\ Ini!Data["EnableDGID"] = Ini!Absent \/ Ini!Data["EnableDGID"].type = "boolean"
         /\ Ini!Data["Transcoded"] # Ini!Absent => Ini!Data["Transcoded"] = ini["Transcoded"]
         /\ Ini!Data["Transcoded"] = Ini!Absent =>
              ini["Transcoded"] \in {Ini!Absent, Ini!Text({})}
                \/ ini["Transcoded"].type = "elsewhere"
<1>0. \A k \in Ini!Keys : Ini!Data[k] = Ini!Read(k)
  BY DEF Ini!Data
<1>1. ASSUME NEW k \in Ini!Plain PROVE Ini!Data[k] \in {Ini!Absent, Ini!Right, Ini!Wrong}
  <2>1. k \in Ini!Keys /\ k \notin Ini!ModuleSets
    BY KeysAre, KindsApart DEF Ini!ModuleSets
  <2>. QED
    BY <1>0, <2>1, LinesOf, KindsApart DEF Ini!Read, CountedKeys,
       Ini!Absent, Ini!Right, Ini!Wrong,
       Ini!Text, Ini!Unsigned, Ini!Whole,
       Ini!Elsewhere
<1>2. ASSUME NEW k \in Ini!Strings \cup Ini!OfAll("URL") \cup Ini!OfAll("Filename")
                  \cup Ini!OfAll("Backup")
      PROVE Ini!Data[k] \in {Ini!Absent, Ini!Right}
  <2>1. k \in Ini!Keys /\ k \in OtherKeys
    BY KeysAre DEF OtherKeys
  <2>2. k \notin Ini!ModuleSets /\ k # "EnableDGID"
    BY <2>1, OthersApart, DatabaseKeyIs DEF Ini!ModuleSets,
       Ini!Strings
  <2>. QED
    BY <1>0, <2>1, <2>2, LinesOf, OthersApart DEF Ini!Read, CountedKeys,
       Ini!Absent, Ini!Right, Ini!Wrong,
       Ini!Text, Ini!Unsigned, Ini!Whole,
       Ini!Elsewhere
<1>3. ASSUME NEW k \in CountedKeys PROVE Ini!Data[k] \in {Ini!Absent, Ini!Unsigned}
  <2>1. k \in Ini!Keys /\ k \notin Ini!ModuleSets
    BY KeysAre, KindsApart DEF Ini!ModuleSets
  <2>. QED
    BY <1>0, <2>1, LinesOf, KindsApart DEF Ini!Read, CountedKeys,
       Ini!Absent, Ini!Right, Ini!Wrong,
       Ini!Text, Ini!Unsigned, Ini!Whole,
       Ini!Elsewhere
<1>4. ASSUME NEW k \in Ini!Gains PROVE Ini!Data[k] \in {Ini!Absent, Ini!Whole("within")}
  <2>1. k \in Ini!Keys /\ k \notin Ini!ModuleSets /\ ini[k] # Ini!Wrong /\ k \notin CountedKeys
    BY KeysAre, KindsApart DEF Ini!ModuleSets, Ini!BadGain
  <2>. QED
    BY <1>0, <2>1, LinesOf, KindsApart DEF Ini!Read, CountedKeys,
       Ini!Absent, Ini!Right, Ini!Wrong,
       Ini!Text, Ini!Unsigned, Ini!Whole,
       Ini!Elsewhere
<1>5. ASSUME NEW k \in Ini!Autolinks \cup Ini!ModuleSets
      PROVE  /\ Ini!Data[k] = Ini!Absent \/ \E m \in SUBSET Letters : Ini!Data[k] = Ini!Text(m)
             /\ Ini!Data[k] # Ini!Absent => Ini!Data[k] = ini[k]
             /\ Ini!Data[k] = Ini!Absent =>
                  ini[k] \in {Ini!Absent, Ini!Text({})} \/ ini[k].type = "elsewhere"
  <2>1. k \in Ini!Keys /\ k \notin CountedKeys /\ k \notin Ini!Gains
          /\ k \notin Ini!OfAll("Mode") /\ k # "EnableDGID"
    BY KeysAre, KindsApart DEF Ini!ModuleSets
  <2>2. Ini!Data[k] = IF ini[k].type \in {"none", "elsewhere"}
          \/ ini[k] = Ini!Text({}) THEN Ini!Absent ELSE ini[k]
    BY <1>0, <2>1 DEF Ini!Read, CountedKeys
  <2>3. \E m \in SUBSET Letters : ini[k] \in {Ini!Absent, Ini!Text(m), Ini!Elsewhere(m)}
    <3>1. CASE k = "Modules"
      <4>1. Ini!Lines(k) = {Ini!Absent} \cup {Ini!Text(m) : m \in SUBSET Letters}
        BY <3>1, LinesOf
      <4>2. ini[k] \in {Ini!Absent} \cup {Ini!Text(m) :
              m \in SUBSET Letters} /\ {} \in SUBSET Letters
        BY <2>1, <4>1
      <4>. QED
        BY <4>2
    <3>2. CASE k = "Transcoded"
      <4>1. Ini!Lines(k) = {Ini!Absent} \cup UNION {{Ini!Text(m), Ini!Elsewhere(m)} :
              m \in SUBSET Letters}
        BY <3>2, LinesOf
      <4>2. /\ ini[k] \in {Ini!Absent} \cup UNION {{Ini!Text(m), Ini!Elsewhere(m)} :
                 m \in SUBSET Letters}
            /\ {} \in SUBSET Letters
        BY <2>1, <4>1
      <4>. QED
        BY <4>2
    <3>3. CASE k \in Ini!Autolinks
      <4>1. Ini!Lines(k) = {Ini!Absent} \cup {Ini!Text({m}) : m \in Letters} \cup {Ini!Text({})}
        BY <3>3, LinesOf
      <4>2. /\ ini[k] \in {Ini!Absent} \cup {Ini!Text({m}) : m \in Letters} \cup {Ini!Text({})}
            /\ {} \in SUBSET Letters /\ \A m \in Letters : {m} \in SUBSET Letters
        BY <2>1, <4>1
      <4>. QED
        BY <4>2
    <3>. QED
      BY <3>1, <3>2, <3>3 DEF Ini!ModuleSets
  <2>. QED
    BY <2>2, <2>3 DEF Ini!Absent, Ini!Right,
       Ini!Wrong, Ini!Text, Ini!Unsigned,
       Ini!Whole, Ini!Elsewhere
<1>6. ASSUME NEW k \in Ini!OfAll("Mode")
      PROVE  Ini!Data[k] = Ini!Absent \/ \E m \in {"http", "file", "both"} :
               Ini!Data[k] = Ini!Text({m})
  <2>1. /\ k \in Ini!Keys /\ k \notin CountedKeys /\ k \notin Ini!Gains /\ k # "EnableDGID"
        /\ k \notin Ini!Autolinks \cup Ini!ModuleSets
    BY KeysAre, KindsApart DEF Ini!ModuleSets
  <2>2. ini[k] = Ini!Absent \/ \E m \in {"http", "file", "both", "ftp"} : ini[k] = Ini!Text({m})
    <3>1. Ini!Lines(k) = {Ini!Absent} \cup {Ini!Text({m}) : m \in {"http", "file", "both", "ftp"}}
      BY LinesOf
    <3>2. ini[k] \in {Ini!Absent} \cup {Ini!Text({m}) : m \in {"http", "file", "both", "ftp"}}
      BY <2>1, <3>1
    <3>. QED
      BY <3>2
  <2>3. Ini!Data[k] = IF ini[k].type \in {"none", "elsewhere"} THEN Ini!Absent
                    ELSE IF ini[k] = Ini!Text({"ftp"}) THEN Ini!Text({"http"}) ELSE ini[k]
    BY <1>0, <2>1 DEF Ini!Read, CountedKeys
  <2>. QED
    BY <2>2, <2>3 DEF Ini!Absent, Ini!Right,
       Ini!Wrong, Ini!Text, Ini!Unsigned,
       Ini!Whole, Ini!Elsewhere
<1>7. Ini!Data["EnableDGID"] = Ini!Absent \/ Ini!Data["EnableDGID"].type = "boolean"
  <2>1. /\ "EnableDGID" \in Ini!Keys /\ "EnableDGID" \notin CountedKeys
             /\ "EnableDGID" \notin Ini!Gains
        /\ "EnableDGID" \notin Ini!ModuleSets \cup Ini!Autolinks
             /\ "EnableDGID" \notin Ini!OfAll("Mode")
    BY KindsApart, KeysAre DEF Ini!Keys, Ini!ModuleSets
  <2>. QED
    BY <1>0, <2>1 DEF Ini!Read, CountedKeys, Ini!Absent,
       Ini!Right, Ini!Wrong, Ini!Text,
       Ini!Unsigned, Ini!Whole, Ini!Elsewhere
<1>8. "Transcoded" \in Ini!ModuleSets
  BY DEF Ini!ModuleSets
<1>. QED
  BY <1>1, <1>2, <1>3, <1>4, <1>5, <1>6, <1>7, <1>8

LEMMA ConfigurationInit == ASSUME Ini!Init PROVE Ini!Inv
<1>1. ASSUME NEW k \in Ini!Keys PROVE Ini!Complete(k) \in Ini!Lines(k)
  <2>1. CASE k \in CountedKeys
    <3>1. Ini!Complete(k) = Ini!Unsigned
      BY <2>1, KindsApart DEF Ini!Complete, CountedKeys,
         Ini!ModuleSets
    <3>. QED
      BY <2>1, <3>1, LinesOf
  <2>2. CASE k \in Ini!Gains
    <3>1. Ini!Complete(k) = Ini!Whole("within")
      BY <2>2, KindsApart DEF Ini!Complete, CountedKeys,
         Ini!ModuleSets
    <3>. QED
      BY <2>2, <3>1, LinesOf
  <2>3. CASE k \in Ini!ModuleSets
    <3>1. Ini!Complete(k) = Ini!Text(ModuleLetters)
      BY <2>3, KindsApart DEF Ini!Complete, CountedKeys,
         Ini!ModuleSets
    <3>2. ModuleLetters \in SUBSET Letters
      BY PartsAssumption DEF PartsAssumption, Ini!ConfigurationAssumption
    <3>. QED
      BY <2>3, <3>1, <3>2, LinesOf DEF Ini!ModuleSets
  <2>4. CASE k \in Ini!Autolinks
    <3>1. Ini!Complete(k) = Ini!Text({CHOOSE m \in ModuleLetters : TRUE})
      BY <2>4, KindsApart DEF Ini!Complete, CountedKeys,
         Ini!ModuleSets
    <3>2. (CHOOSE m \in ModuleLetters : TRUE) \in Letters
      BY PartsAssumption DEF PartsAssumption, Ini!ConfigurationAssumption
    <3>3. Ini!Lines(k) = {Ini!Absent} \cup {Ini!Text({m}) : m \in Letters} \cup {Ini!Text({})}
      BY <2>4, LinesOf
    <3>. QED
      BY <3>1, <3>2, <3>3
  <2>5. CASE k \in Ini!OfAll("Mode")
    <3>1. Ini!Complete(k) = Ini!Text({"both"})
      BY <2>5, KindsApart DEF Ini!Complete, CountedKeys,
         Ini!ModuleSets
    <3>. QED
      BY <2>5, <3>1, LinesOf
  <2>6. CASE k \in Ini!Plain
    BY <2>6, LinesOf, KindsApart DEF Ini!Complete, CountedKeys,
       Ini!ModuleSets
  <2>7. CASE k \in OtherKeys
    BY <2>7, LinesOf, OthersApart DEF Ini!Complete, CountedKeys,
       Ini!ModuleSets
  <2>. QED
    BY <2>1, <2>2, <2>3, <2>4, <2>5, <2>6, <2>7 DEF Ini!Keys,
       Ini!DatabaseKeys, CountedKeys, OtherKeys
<1>2. \A k \in Ini!Keys : ini[k] \in Ini!Lines(k)
  BY <1>1 DEF Ini!Init
<1>. QED
  BY <1>2 DEF Ini!Init, Ini!Inv

LEMMA ConfigurationInvariance ==
  ASSUME Ini!Inv, Ini!Next \/ UNCHANGED configurationVars
  PROVE  Ini!Inv'
<1>1. CASE Ini!ReadUrfd
  <2>1. /\ UNCHANGED <<ini, tcd, tcmods, gains>>
        /\ \E found4, found6 \in BOOLEAN :
             /\ keys' = IF Ini!Throws THEN keys ELSE Ini!Checked(Ini!Data)
             /\ urfd' = IF Ini!Throws THEN "aborts"
                        ELSE IF Ini!Fails(Ini!Data, found4, found6) THEN "stops" ELSE "runs"
    BY <1>1 DEF Ini!ReadUrfd
  <2>2. Ini!Throws' = Ini!Throws /\ Ini!Data' = Ini!Data
    BY <2>1 DEF Ini!Throws, Ini!BadGain,
       Ini!NoAddress, Ini!Data, Ini!Read
  <2>3. \A d, f4, f6 : Ini!Fails(d, f4, f6)' = Ini!Fails(d, f4, f6)
    BY <2>1 DEF Ini!Fails, Ini!OutOfModules,
       Ini!AddressWrong, Ini!DatabaseWrong
  <2>. QED
    BY <2>1, <2>2, <2>3 DEF Ini!Inv, Ini!Checked
<1>2. CASE Ini!ReadTcd
  <2>1. /\ UNCHANGED <<ini, urfd, keys>>
        /\ tcd' = "runs" => /\ tcmods' = ini["Transcoded"].value
                            /\ \A k \in Ini!Gains : gains'[k] # "unset"
    BY <1>2 DEF Ini!ReadTcd
  <2>2. Ini!Throws' = Ini!Throws /\ Ini!Data' = Ini!Data
    BY <2>1 DEF Ini!Throws, Ini!BadGain,
       Ini!NoAddress, Ini!Data, Ini!Read
  <2>3. \A d, f4, f6 : Ini!Fails(d, f4, f6)' = Ini!Fails(d, f4, f6)
    BY <2>1 DEF Ini!Fails, Ini!OutOfModules,
       Ini!AddressWrong, Ini!DatabaseWrong
  <2>. QED
    BY <2>1, <2>2, <2>3 DEF Ini!Inv, Ini!Checked
<1>3. CASE UNCHANGED configurationVars
  <2>1. Ini!Throws' = Ini!Throws /\ Ini!Data' = Ini!Data
    BY <1>3 DEF Ini!Throws, Ini!BadGain,
       Ini!NoAddress, Ini!Data, Ini!Read,
       configurationVars
  <2>2. \A d, f4, f6 : Ini!Fails(d, f4, f6)' = Ini!Fails(d, f4, f6)
    BY <1>3 DEF Ini!Fails, Ini!OutOfModules,
       Ini!AddressWrong, Ini!DatabaseWrong, configurationVars
  <2>. QED
    BY <1>3, <2>1, <2>2 DEF Ini!Inv, Ini!Checked, configurationVars
<1>. QED
  BY <1>1, <1>2, <1>3 DEF Ini!Next

\* urfd and tcd at the same file: see Configuration!Inv.
ConfigurationInv == part = "configuration" => Ini!Inv

LEMMA ConfigurationInductive == Spec => []ConfigurationInv
<1>1. Init => ConfigurationInv
  BY ConfigurationInit DEF Init, ConfigurationInv
<1>2. ASSUME ConfigurationInv, [Next]_vars PROVE ConfigurationInv'
  BY <1>2, PartStays, ConfigurationSteps, ConfigurationInvariance DEF ConfigurationInv
<1>. QED
  BY <1>1, <1>2, PTL DEF Spec

\* Of a database urfd has looked for what the mode uses.
LEMMA UsedIsNeeded ==
  ASSUME NEW d \in Ini!Databases, NEW way
  PROVE  Ini!Used(d, way) \subseteq Ini!Needed(d, way)
<1>1. ASSUME way # "file" PROVE {Ini!Of(d, k) : k \in {"RefreshMin", "URL", "Backup"}} \subseteq Ini!Needed(d, way)
  BY <1>1 DEF Ini!Needed
<1>2. ASSUME way # "http" PROVE {Ini!Of(d, "Filename")} \subseteq Ini!Needed(d, way)
  BY <1>2 DEF Ini!Needed
<1>. QED
  BY <1>1, <1>2 DEF Ini!Used

LEMMA RightKeysThere == ASSUME Ini!Inv PROVE Ini!KeysThere
<1>. SUFFICES ASSUME urfd = "runs"
              PROVE  /\ \A t \in {"string", "unsigned", "boolean"} : \A k \in Ini!Asked(t) :
                          \/ Ini!Answered(k, t)
                          \/ k = "RegistrationID" /\ keys[k] = Ini!Null
                          \/ k \in Ini!Unused /\ keys[k] = Ini!Absent
                     /\ \A k \in Ini!Keys :
                          keys[k] = Ini!Null => k \in Ini!Mild \cup {"IPv6Binding", "IPv6External"}
                     /\ \A d \in Ini!Databases :
                          keys[Ini!Of(d, "Mode")]
                            \in {Ini!Text({way}) : way \in {"http", "file", "both"}}
                     /\ \A k \in Ini!Autolinks \cup {"Transcoded"} :
                          keys[k].value \subseteq keys["Modules"].value
                     /\ tcd = "runs" =>
                          /\ tcmods = keys["Transcoded"].value
                               \/ ini["Transcoded"].type = "elsewhere"
                          /\ \A k \in Ini!Gains : gains[k] # "unset"
  BY DEF Ini!KeysThere
<1>1. \A k \in Ini!Keys : ini[k] \in Ini!Lines(k)
  BY DEF Ini!Inv
<1>2. ~Ini!Throws /\ ~Ini!BadGain
  BY DEF Ini!Inv, Ini!Throws
<1>3. /\ \A k \in Ini!Plain : Ini!Data[k] \in {Ini!Absent, Ini!Right, Ini!Wrong}
      /\ \A k \in Ini!Strings \cup Ini!OfAll("URL") \cup Ini!OfAll("Filename")
               \cup Ini!OfAll("Backup") :
           Ini!Data[k] \in {Ini!Absent, Ini!Right}
      /\ \A k \in CountedKeys : Ini!Data[k] \in {Ini!Absent, Ini!Unsigned}
      /\ \A k \in Ini!Gains : Ini!Data[k] \in {Ini!Absent, Ini!Whole("within")}
      /\ \A k \in Ini!Autolinks \cup Ini!ModuleSets :
           Ini!Data[k] = Ini!Absent \/ \E m \in SUBSET Letters : Ini!Data[k] = Ini!Text(m)
      /\ \A k \in Ini!OfAll("Mode") :
           Ini!Data[k] = Ini!Absent \/ \E m \in {"http", "file", "both"} :
             Ini!Data[k] = Ini!Text({m})
      /\ Ini!Data["EnableDGID"] = Ini!Absent \/ Ini!Data["EnableDGID"].type = "boolean"
      /\ Ini!Data["Transcoded"] # Ini!Absent => Ini!Data["Transcoded"] = ini["Transcoded"]
      /\ Ini!Data["Transcoded"] = Ini!Absent =>
           ini["Transcoded"] \in {Ini!Absent, Ini!Text({})} \/ ini["Transcoded"].type = "elsewhere"
  BY <1>1, <1>2, LinesRead
<1>4. /\ \A k \in Ini!Fatal : Ini!Data[k] # Ini!Absent
      /\ ~Ini!OutOfModules(Ini!Data)
      /\ \A d \in Ini!Databases : ~Ini!DatabaseWrong(Ini!Data, d)
  BY DEF Ini!Inv, Ini!Fails
<1>5. \A k \in Ini!Keys : Ini!Checked(Ini!Data)[k] = keys[k]
  BY DEF Ini!Inv
<1>6. \A d \in Ini!Databases : \A k \in {"URL", "Mode", "RefreshMin", "Filename", "Backup"} :
        Ini!Of(d, k) \in Ini!OfAll(k)
  BY DEF Ini!OfAll
<1>7. \A k \in Ini!Keys :
        /\ Ini!Data[k] # Ini!Absent /\ k \notin {"IPv6Binding", "IPv6External"} =>
             keys[k] = Ini!Data[k]
        /\ Ini!Data[k] = Ini!Absent /\ k \in Ini!Mild => keys[k] = Ini!Null
  BY <1>5 DEF Ini!Checked, Ini!Mild
<1>8. "DBFolder" \in Ini!Strings /\ Ini!Data["DBFolder"] # Ini!Absent
  <2>1. "dmriddb" \in Ini!Databases
    BY DEF Ini!Databases
  <2>2. Ini!Of("dmriddb", "Mode") \in Ini!OfAll("Mode")
          /\ Ini!Data[Ini!Of("dmriddb", "Mode")] # Ini!Absent
    BY <1>4, <1>6, <2>1 DEF Ini!DatabaseWrong
  <2>3. PICK m \in {"http", "file", "both"} : Ini!Data[Ini!Of("dmriddb", "Mode")] = Ini!Text({m})
    BY <1>3, <2>2
  <2>4. m \in Ini!Data[Ini!Of("dmriddb", "Mode")].value /\ "DBFolder" \in Ini!Needed("dmriddb", m)
    BY <2>3 DEF Ini!Text, Ini!Needed
  <2>5. Ini!Data["DBFolder"] # Ini!Absent
    BY <1>4, <2>1, <2>4 DEF Ini!DatabaseWrong
  <2>. QED
    BY <2>5 DEF Ini!Strings
<1>9. ASSUME NEW k \in Ini!Plain \cup Ini!Strings \cup {"Modules"}, k # "JsonPath", k # "DHTSavePath"
      PROVE  Ini!Answered(k, "string")
  <2>. USE DEF Ini!Answered
  <2>1. k \in Ini!Keys
    BY DEF Ini!Keys, Ini!ModuleSets
  <2>2. CASE k \in Ini!Plain
    <3>1. CASE k \in {"Callsign", "IPv4Binding"}
      <4>1. Ini!Data[k] # Ini!Absent
        BY <1>4, <3>1 DEF Ini!Fatal
      <4>. QED
        BY <1>3, <1>7, <2>1, <2>2, <3>1, <4>1 DEF Ini!Right,
           Ini!Wrong, Ini!Text
    <3>2. CASE k \in {"IPv6Binding", "IPv6External"}
      <4>1. keys[k] \in {Ini!Null, Ini!Right, Ini!Data[k]} /\ (Ini!Data[k] = Ini!Absent =>
              keys[k] \in {Ini!Null, Ini!Right})
        BY <1>5, <2>1, <3>2 DEF Ini!Checked, Ini!Mild
      <4>. QED
        BY <1>3, <2>2, <3>2, <4>1 DEF Ini!Right, Ini!Wrong,
           Ini!Text
    <3>3. CASE k = "IPv4External"
      <4>1. keys[k] \in {Ini!Right, Ini!Data[k]} /\ (Ini!Data[k] = Ini!Absent =>
              keys[k] = Ini!Right)
        BY <1>5, <2>1, <3>3 DEF Ini!Checked, Ini!Mild
      <4>. QED
        BY <1>3, <2>2, <3>3, <4>1 DEF Ini!Right, Ini!Wrong,
           Ini!Text
    <3>. QED
      BY <2>2, <3>1, <3>2, <3>3 DEF Ini!Plain
  <2>3. CASE k \in Ini!Strings
    <3>1. k \notin {"IPv6Binding", "IPv6External"}
      BY <2>3 DEF Ini!Strings
    <3>2. Ini!Data[k] = Ini!Absent => k \in Ini!Mild
      BY <1>4, <1>8, <1>9, <2>3 DEF Ini!Strings, Ini!Fatal,
         Ini!Mild
    <3>. QED
      BY <1>3, <1>7, <2>1, <2>3, <3>1, <3>2 DEF Ini!Right, Ini!Text
  <2>4. CASE k = "Modules"
    <3>1. k \in Ini!Fatal /\ k \in Ini!ModuleSets
      BY <2>4 DEF Ini!Fatal, Ini!ModuleSets
    <3>2. keys[k] = Ini!Data[k] /\ Ini!Data[k] # Ini!Absent
      BY <1>4, <1>7, <2>1, <2>4, <3>1
    <3>3. PICK m \in SUBSET Letters : Ini!Data[k] = Ini!Text(m)
      BY <1>3, <3>1, <3>2
    <3>. QED
      BY <3>2, <3>3 DEF Ini!Text
  <2>. QED
    BY <1>9, <2>2, <2>3, <2>4
<1>10. ASSUME NEW k \in Ini!Numbers
       PROVE  Ini!Answered(k, "unsigned") \/ (k = "RegistrationID" /\ keys[k] = Ini!Null)
  <2>1. k \in CountedKeys /\ k \in Ini!Keys
    BY KeysAre DEF CountedKeys
  <2>2. Ini!Data[k] = Ini!Absent => k = "RegistrationID" /\ k \in Ini!Mild
    BY <1>4 DEF Ini!Numbers, Ini!Ports, Ini!Fatal, Ini!Mild
  <2>3. k \notin {"IPv6Binding", "IPv6External"}
    BY <2>1, KindsApart DEF Ini!Plain
  <2>. QED
    BY <1>3, <1>7, <2>1, <2>2, <2>3 DEF Ini!Unsigned, Ini!Answered
<1>11. ASSUME NEW k \in Ini!Keys, keys[k] = Ini!Null
       PROVE  k \in Ini!Mild \cup {"IPv6Binding", "IPv6External"}
  <2>1. CASE Ini!Data[k] = Ini!Absent
    BY <1>5, <1>11, <2>1 DEF Ini!Checked, Ini!Null, Ini!Absent, Ini!Right, Ini!Text
  <2>2. CASE Ini!Data[k] # Ini!Absent
    <3>1. k \in Ini!Plain \cup Ini!Strings \cup CountedKeys \cup Ini!Gains \cup Ini!Autolinks
               \cup Ini!ModuleSets \cup {"EnableDGID"} \cup Ini!OfAll("Mode") \cup Ini!OfAll("URL")
               \cup Ini!OfAll("Filename") \cup Ini!OfAll("Backup")
      BY DEF Ini!Keys, Ini!DatabaseKeys, CountedKeys
    <3>2. Ini!Data[k].type # "null"
      <4>1. CASE k \in Ini!Autolinks \cup Ini!ModuleSets \cup Ini!OfAll("Mode")
        <5>1. PICK said : Ini!Data[k] = Ini!Text(said)
          BY <1>3, <2>2, <4>1
        <5>. QED
          BY <5>1 DEF Ini!Text
      <4>2. CASE k = "EnableDGID"
        BY <1>3, <2>2, <4>2
      <4>3. CASE k \in CountedKeys \cup Ini!Gains
        BY <1>3, <2>2, <4>3 DEF Ini!Unsigned, Ini!Whole
      <4>4. CASE k \in Ini!Plain \cup Ini!Strings \cup Ini!OfAll("URL") \cup Ini!OfAll("Filename")
                        \cup Ini!OfAll("Backup")
        BY <1>3, <2>2, <4>4 DEF Ini!Right, Ini!Wrong, Ini!Text
      <4>. QED
        BY <3>1, <4>1, <4>2, <4>3, <4>4
    <3>3. Ini!Data[k] # Ini!Null
      BY <3>2 DEF Ini!Null
    <3>. QED
      BY <1>7, <1>11, <2>2, <3>3
  <2>. QED
    BY <2>1, <2>2
<1>12. Ini!Answered("EnableDGID", "boolean")
  <2>1. "EnableDGID" \in Ini!Fatal /\ "EnableDGID" \in Ini!Keys
    BY KeysAre DEF Ini!Fatal, OtherKeys
  <2>. QED
    BY <1>3, <1>4, <1>7, <2>1 DEF Ini!Answered
<1>13. ASSUME NEW k \in Ini!Autolinks \cup {"Transcoded"}
       PROVE  keys[k].value \subseteq keys["Modules"].value
  <2>1. k \in Ini!Keys /\ k \notin {"IPv6Binding", "IPv6External"} /\ "Modules" \in Ini!Keys
          /\ k \in Ini!Autolinks \cup Ini!ModuleSets
    BY KeysAre, KindsApart DEF Ini!Plain, Ini!ModuleSets
  <2>2. Ini!Data["Modules"] # Ini!Absent /\ keys["Modules"] = Ini!Data["Modules"]
    BY <1>4, <1>7, <2>1 DEF Ini!Fatal
  <2>3. Ini!Data[k].value \subseteq Ini!Data["Modules"].value
    BY <1>4 DEF Ini!OutOfModules
  <2>4. Ini!Data[k] = Ini!Absent => keys[k] \in {Ini!Absent, Ini!Null}
    <3>1. k # "IPv4External"
      BY <2>1, KindsApart DEF Ini!Plain
    <3>. QED
      BY <1>5, <2>1, <3>1 DEF Ini!Checked
  <2>. QED
    BY <1>7, <2>1, <2>2, <2>3, <2>4 DEF Ini!Absent, Ini!Null
<1>14. ASSUME NEW d \in Ini!Databases
       PROVE  \E way \in {"http", "file", "both"} :
                /\ Ini!Data[Ini!Of(d, "Mode")] = Ini!Text({way})
                /\ keys[Ini!Of(d, "Mode")] = Ini!Text({way})
                /\ \A k \in Ini!Used(d, way) : Ini!Data[k] # Ini!Absent
  <2>. DEFINE modekey == Ini!Of(d, "Mode")
  <2>1. modekey \in Ini!OfAll("Mode") /\ modekey \in Ini!Keys /\ Ini!Data[modekey] # Ini!Absent
    BY <1>4, <1>6, KeysAre DEF Ini!DatabaseWrong
  <2>2. modekey \notin {"IPv6Binding", "IPv6External"}
    BY <2>1, DatabaseKeyIs
  <2>3. PICK way \in {"http", "file", "both"} : Ini!Data[modekey] = Ini!Text({way})
    BY <1>3, <2>1
  <2>4. \A k \in Ini!Needed(d, way) : Ini!Data[k] # Ini!Absent
    BY <1>4, <2>3 DEF Ini!DatabaseWrong, Ini!Text
  <2>. QED
    BY <1>7, <2>1, <2>2, <2>3, <2>4, UsedIsNeeded
<1>15. ASSUME NEW k \in Ini!DatabaseKeys \ Ini!OfAll("Mode"),
              NEW t, Ini!Data[k].type = t \/ Ini!Data[k] = Ini!Absent
       PROVE  Ini!Answered(k, t) \/ (k \in Ini!Unused /\ keys[k] = Ini!Absent)
  <2>1. k \in Ini!Keys /\ k \notin Ini!Plain /\ k \notin Ini!Mild
    BY DatabaseKeyIs DEF Ini!Keys, Ini!DatabaseKeys, Ini!Plain, Ini!Mild
  <2>2. CASE Ini!Data[k] # Ini!Absent
    BY <1>7, <1>15, <2>1, <2>2 DEF Ini!Answered, Ini!Plain
  <2>3. CASE Ini!Data[k] = Ini!Absent
    <3>1. keys[k] = Ini!Absent
      BY <1>5, <2>1, <2>3 DEF Ini!Checked, Ini!Plain
    <3>2. ASSUME NEW d \in Ini!Databases, NEW way \in keys[Ini!Of(d, "Mode")].value
          PROVE k \notin Ini!Used(d, way)
      BY <1>14, <2>3, <3>2 DEF Ini!Text
    <3>. QED
      BY <3>1, <3>2 DEF Ini!Unused
  <2>. QED
    BY <2>2, <2>3
<1>16. ASSUME NEW k \in Ini!OfAll("URL") \cup Ini!OfAll("Filename") \cup Ini!OfAll("Backup")
       PROVE  Ini!Answered(k, "string") \/ (k \in Ini!Unused /\ keys[k] = Ini!Absent)
  <2>1. k \in Ini!DatabaseKeys \ Ini!OfAll("Mode")
    BY DatabaseKeyIs DEF Ini!DatabaseKeys
  <2>2. Ini!Data[k].type = "string" \/ Ini!Data[k] = Ini!Absent
    BY <1>3 DEF Ini!Right, Ini!Text
  <2>. QED
    BY <1>15, <2>1, <2>2
<1>17. ASSUME NEW k \in Ini!OfAll("RefreshMin")
       PROVE  Ini!Answered(k, "unsigned") \/ (k \in Ini!Unused /\ keys[k] = Ini!Absent)
  <2>1. k \in Ini!DatabaseKeys \ Ini!OfAll("Mode")
    BY DatabaseKeyIs DEF Ini!DatabaseKeys
  <2>2. Ini!Data[k].type = "unsigned" \/ Ini!Data[k] = Ini!Absent
    BY <1>3 DEF CountedKeys, Ini!Unsigned
  <2>. QED
    BY <1>15, <2>1, <2>2
<1>18. \A t \in {"string", "unsigned", "boolean"} : \A k \in Ini!Asked(t) :
         \/ Ini!Answered(k, t)
         \/ k = "RegistrationID" /\ keys[k] = Ini!Null
         \/ k \in Ini!Unused /\ keys[k] = Ini!Absent
  <2>1. \A k \in Ini!Asked("string") :
          Ini!Answered(k, "string") \/ (k \in Ini!Unused /\ keys[k] = Ini!Absent)
    BY <1>9, <1>16 DEF Ini!Asked
  <2>2. \A k \in Ini!Asked("unsigned") :
          \/ Ini!Answered(k, "unsigned")
          \/ k = "RegistrationID" /\ keys[k] = Ini!Null
          \/ k \in Ini!Unused /\ keys[k] = Ini!Absent
    BY <1>10, <1>17 DEF Ini!Asked
  <2>3. \A k \in Ini!Asked("boolean") : Ini!Answered(k, "boolean")
    BY <1>12 DEF Ini!Asked
  <2>. QED
    BY <2>1, <2>2, <2>3
<1>19. ASSUME tcd = "runs"
       PROVE  tcmods = keys["Transcoded"].value \/ ini["Transcoded"].type = "elsewhere"
  <2>1. tcmods = ini["Transcoded"].value /\ "Transcoded" \in Ini!Keys
          /\ "Transcoded" \notin Ini!Plain /\ "Transcoded" \in Ini!Mild
    BY <1>19, KeysAre, KindsApart DEF Ini!Inv, Ini!Mild
  <2>2. "Transcoded" \notin {"IPv6Binding", "IPv6External"}
    BY <2>1 DEF Ini!Plain
  <2>3. CASE Ini!Data["Transcoded"] # Ini!Absent
    <3>1. keys["Transcoded"] = Ini!Data["Transcoded"] /\ Ini!Data["Transcoded"] = ini["Transcoded"]
      BY <1>3, <1>7, <2>1, <2>2, <2>3
    <3>. QED
      BY <2>1, <3>1
  <2>4. CASE Ini!Data["Transcoded"] = Ini!Absent
    <3>1. /\ keys["Transcoded"] = Ini!Null
          /\ ini["Transcoded"] \in {Ini!Absent, Ini!Text({})}
               \/ ini["Transcoded"].type = "elsewhere"
      BY <1>3, <1>7, <2>1, <2>4
    <3>. QED
      BY <2>1, <3>1 DEF Ini!Absent, Ini!Text, Ini!Null
  <2>. QED
    BY <2>3, <2>4
<1>20. tcd = "runs" => \A k \in Ini!Gains : gains[k] # "unset"
  BY DEF Ini!Inv
<1>. QED
  BY <1>11, <1>13, <1>14, <1>18, <1>19, <1>20

\* Whatever file urfd takes: of all that the program asks for without looking
\* first (the callers of GetString, GetUnsigned and GetBoolean), it gets what it
\* makes use of, of its type; only the registration number may be a null, and of a
\* database only what its mode does not use (LoadParameters, CLookup::Thread) may
\* be missing.  And what is taken agrees with what tcd takes from the file
\* (CConfigure::ReadData of both).
THEOREM KeysThereCorrect == Spec => []KeysThere
<1>1. ConfigurationInv => KeysThere
  BY RightKeysThere DEF ConfigurationInv, KeysThere
<1>. QED
  BY <1>1, ConfigurationInductive, PTL

-----------------------------------------------------------------------------
(***************************************************************************)
(* The directories and their backup (Directory).                           *)
(***************************************************************************)

\* A set of numbers up to n has a greatest.
LEMMA GreatestOf ==
  ASSUME NEW n \in Nat, NEW I, I \subseteq 1..n, I # {}
  PROVE  LET g == CHOOSE x \in I : \A y \in I : x >= y
         IN  g \in I /\ \A y \in I : g >= y
<1>. DEFINE T == {n - i : i \in I}
<1>1. \A i \in I : i \in Nat /\ i <= n /\ n - i \in Nat
  OBVIOUS
<1>2. T \subseteq Nat /\ T # {}
  BY <1>1
<1>3. PICK t \in T : \A u \in T : ~(<<u, t>> \in OpToRel(<, Nat))
  BY <1>2, WFMin, NatLessThanWellFounded
<1>4. \A u \in T : ~(u < t)
  BY <1>2, <1>3 DEF OpToRel
<1>5. PICK x \in I : t = n - x
  BY DEF T
<1>6. ASSUME NEW y \in I PROVE x >= y
  <2>1. ~(n - y < n - x)
    BY <1>4, <1>5
  <2>2. x \in Nat /\ y \in Nat /\ n \in Nat
    BY <1>1
  <2>. QED
    BY <2>1, <2>2
<1>. QED
  BY <1>6

\* The map has also the keys of the lines, with the value of their last line.
Overlaid(new, map, lines, key, value) ==
  /\ DOMAIN new = DOMAIN map \cup {lines[i][key] : i \in 1..Len(lines)}
  /\ \A i \in 1..Len(lines) :
       (\A j \in i + 1..Len(lines) : lines[j][key] # lines[i][key])
         => new[lines[i][key]] = lines[i][value]

\* What Updated makes of a map: SelectLastInSeq finds the last line for a key.
LEMMA UpdatedIs ==
  ASSUME NEW S, NEW lines \in Seq(S), NEW map, NEW key, NEW value
  PROVE  Overlaid(Dir!Updated(map, lines, key, value), map, lines, key, value)
<1>. DEFINE keysOf == {lines[i][key] : i \in 1..Len(lines)}
            at(k) == {j \in 1..Len(lines) : lines[j][key] = k}
            last(k) == IF at(k) # {} THEN CHOOSE x \in at(k) : \A y \in at(k) : x >= y ELSE 0
            new == [k \in DOMAIN map \cup keysOf |->
                      IF k \in keysOf THEN lines[last(k)][value] ELSE map[k]]
<1>1. Dir!Updated(map, lines, key, value) = new
  BY DEF Dir!Updated, Dir!SelectLastInSeq, Dir!Max
<1>2. ASSUME NEW i \in 1..Len(lines),
             \A j \in i + 1..Len(lines) : lines[j][key] # lines[i][key]
      PROVE  new[lines[i][key]] = lines[i][value]
  <2>. DEFINE I == at(lines[i][key])
  <2>1. Len(lines) \in Nat /\ i \in I /\ I \subseteq 1..Len(lines)
    OBVIOUS
  <2>2. last(lines[i][key]) \in I /\ \A y \in I : last(lines[i][key]) >= y
    BY <2>1, GreatestOf
  <2>3. \A j \in I : j <= i
    BY <1>2, <2>1
  <2>4. last(lines[i][key]) \in 1..Len(lines) /\ last(lines[i][key]) <= i
        /\ last(lines[i][key]) >= i
    BY <2>1, <2>2, <2>3
  <2>5. last(lines[i][key]) = i
    BY <2>1, <2>4
  <2>. QED
    BY <2>5
<1>. QED
  BY <1>1, <1>2 DEF Overlaid

LEMMA DirectorySteps ==
  ASSUME [Next]_vars, part = "directory"
  PROVE  Dir!Next \/ UNCHANGED directoryVars
BY DEF Next, InIds, InLists, InDirectory, InService, InSessions, InWiresX, InConfiguration,
       InCallsigns, vars

LEMMA DirectoryIs ==
  /\ \A x \in Contents : /\ x # NoFile /\ x.bytes \in BOOLEAN /\ x.ended \in BOOLEAN
                         /\ x.lines \in Seq(Dir!Range(x.lines))
  /\ WaitCycles \in Nat /\ WaitCycles > 0
  /\ Modes \subseteq {"http", "file", "both"}
BY PartsAssumption DEF Dir!DirectoryAssumption

LEMMA OverItsRange == ASSUME NEW S, NEW s \in Seq(S) PROVE s \in Seq(Dir!Range(s))
BY DEF Dir!Range

\* The older lines, then those of x, the first of them perhaps swallowed (d = 1).
Joined(lines, older, x) ==
  \E d \in {0, 1} :
    /\ Len(lines) = Len(older) + Len(x) - d
    /\ d = 1 => x # <<>>
    /\ \A i \in 1..Len(older) : lines[i] = older[i]
    /\ \A i \in 1 + d..Len(x) : lines[Len(older) - d + i] = x[i]

\* What AddText makes of a stream.
LEMMA AddTextIs ==
  ASSUME NEW s, NEW x \in Contents,
         s \in [lines : Seq(Dir!Range(s.lines)), ended : BOOLEAN, fail : BOOLEAN]
  PROVE  LET r == Dir!AddText(s, x)
         IN  /\ r \in [lines : Seq(Dir!Range(r.lines)), ended : BOOLEAN, fail : BOOLEAN]
             /\ s.fail => r.fail
             /\ r.fail \/ Joined(r.lines, s.lines, x.lines)
<1>. DEFINE r == Dir!AddText(s, x)
            S == Dir!Range(s.lines) \cup Dir!Range(x.lines)
<1>1. x.lines \in Seq(Dir!Range(x.lines)) /\ x.bytes \in BOOLEAN /\ x.ended \in BOOLEAN
  BY DirectoryIs
<1>2. s.lines \in Seq(S) /\ x.lines \in Seq(S)
  BY <1>1 DEF Dir!Range
<1>3. CASE s.fail
  BY <1>3 DEF Dir!AddText
<1>4. CASE ~s.fail /\ ~x.bytes
  <2>1. r = [s EXCEPT !.fail = TRUE]
    BY <1>4 DEF Dir!AddText
  <2>. QED
    BY <2>1
<1>5. CASE ~s.fail /\ x.bytes /\ (s.ended \/ x.lines = <<>>)
  <2>1. r = [lines |-> s.lines \o x.lines, ended |-> x.ended, fail |-> FALSE]
    BY <1>5 DEF Dir!AddText
  <2>2. s.lines \o x.lines \in Seq(S)
    BY <1>2
  <2>3. r \in [lines : Seq(Dir!Range(r.lines)), ended : BOOLEAN, fail : BOOLEAN]
    <3>1. s.lines \o x.lines \in Seq(Dir!Range(s.lines \o x.lines))
      BY <2>2, OverItsRange
    <3>2. r.lines = s.lines \o x.lines
      BY <2>1
    <3>. QED
      BY <1>1, <2>1, <3>1, <3>2
  <2>4. /\ Len(r.lines) = Len(s.lines) + Len(x.lines) - 0
        /\ \A i \in 1..Len(s.lines) : r.lines[i] = s.lines[i]
        /\ \A i \in 1 + 0..Len(x.lines) : r.lines[Len(s.lines) - 0 + i] = x.lines[i]
    BY <1>2, <2>1
  <2>. QED
    BY <1>5, <2>3, <2>4 DEF Joined
<1>6. CASE ~s.fail /\ x.bytes /\ ~(s.ended \/ x.lines = <<>>)
  <2>1. r = [lines |-> s.lines \o Tail(x.lines), ended |-> x.ended, fail |-> FALSE]
    BY <1>6 DEF Dir!AddText
  <2>2. Tail(x.lines) \in Seq(S) /\ Len(Tail(x.lines)) = Len(x.lines) - 1
    BY <1>2, <1>6
  <2>3. s.lines \o Tail(x.lines) \in Seq(S)
    BY <1>2, <2>2
  <2>4. r \in [lines : Seq(Dir!Range(r.lines)), ended : BOOLEAN, fail : BOOLEAN]
    <3>1. s.lines \o Tail(x.lines) \in Seq(Dir!Range(s.lines \o Tail(x.lines)))
      BY <2>3, OverItsRange
    <3>2. r.lines = s.lines \o Tail(x.lines)
      BY <2>1
    <3>. QED
      BY <1>1, <2>1, <3>1, <3>2
  <2>5. /\ Len(r.lines) = Len(s.lines) + Len(x.lines) - 1
        /\ \A i \in 1..Len(s.lines) : r.lines[i] = s.lines[i]
    BY <1>2, <2>1, <2>2
  <2>6. ASSUME NEW i \in 1 + 1..Len(x.lines)
        PROVE  r.lines[Len(s.lines) - 1 + i] = x.lines[i]
    <3>1. i - 1 \in 1..Len(Tail(x.lines)) /\ Tail(x.lines)[i - 1] = x.lines[i]
      BY <1>2, <1>6, <2>2
    <3>. QED
      BY <1>2, <2>1, <2>2, <3>1
  <2>. QED
    BY <1>6, <2>4, <2>5, <2>6 DEF Joined
<1>. QED
  BY <1>1, <1>3, <1>4, <1>5, <1>6

LEMMA DirectoryInit == ASSUME Dir!Init PROVE Dir!Inv
BY DirectoryIs DEF Dir!Init, Dir!Inv, Dir!NoStream

LEMMA JoinedAt ==
  ASSUME NEW a \in Nat, NEW b \in Nat, NEW c \in Nat, NEW d \in {0, 1}, c = a + b - d,
         b - d >= 0
  PROVE  a - d \in -1..c /\ \A i \in 2..b : a - d + i \in 1..c
<1>1. CASE d = 0
  BY <1>1
<1>2. CASE d = 1
  BY <1>2
<1>. QED
  BY <1>1, <1>2

\* A download, or one that failed and left the backup instead, carries the lines
\* of the backup.
LEMMA DownloadsKeepInv ==
  ASSUME Dir!Inv, NEW x \in Contents \cup {NoFile},
         (x # NoFile /\ Dir!Download(x)) \/ Dir!DownloadFails(x)
  PROVE  Dir!Inv'
<1>1. /\ step = "http" /\ loaded = {} /\ ss = Dir!NoStream /\ step' = "file"
      /\ loaded' = {} \/ loaded' = {"http"}
      /\ UNCHANGED <<mode, folder, local, callsigns, ids, spoiled>>
      /\ count' = (count + 1) % WaitCycles
  BY DEF Dir!Inv, Dir!Download, Dir!DownloadFails, Dir!worldVars, Dir!mapVars
<1>2. count' \in 0..WaitCycles - 1
  BY <1>1, DirectoryIs DEF Dir!Inv
<1>3. CASE x # NoFile /\ Dir!Download(x)
  <2>1. /\ ss' = [lines |-> x.lines, ended |-> x.ended, fail |-> FALSE]
        /\ backup' = IF folder THEN x ELSE backup
        /\ loaded' = {"http"} /\ x \in Contents
    BY <1>3 DEF Dir!Download, Dir!BackupHttp
  <2>2. x.lines \in Seq(Dir!Range(x.lines)) /\ x.ended \in BOOLEAN /\ x # NoFile
    BY <2>1, DirectoryIs
  <2>3. folder => Dir!Carried'
    <3>1. SUFFICES ASSUME folder PROVE Dir!Carried'
      OBVIOUS
    <3>2. backup' = x /\ ss'.lines = x.lines
      BY <2>1, <3>1
    <3>3. /\ 0 \in -1..Len(ss'.lines)
          /\ \A i \in 2..Len(backup'.lines) :
               0 + i \in DOMAIN ss'.lines /\ ss'.lines[0 + i] = backup'.lines[i]
          /\ 0 + Len(backup'.lines) = Len(ss'.lines)
      BY <2>2, <3>2
    <3>. QED
      BY <3>3 DEF Dir!Carried
  <2>4. ss' \in [lines : Seq(Dir!Range(ss'.lines)), ended : BOOLEAN, fail : BOOLEAN]
    BY <2>1, <2>2
  <2>. QED
    BY <1>1, <1>2, <2>1, <2>2, <2>3, <2>4 DEF Dir!Inv
<1>4. CASE Dir!DownloadFails(x)
  <2>. DEFINE got == IF x = NoFile THEN Dir!NoStream
                     ELSE [lines |-> x.lines, ended |-> FALSE, fail |-> FALSE]
  <2>1. /\ ss' = IF backup = NoFile THEN got ELSE Dir!AddText(got, backup)
        /\ loaded' = IF backup = NoFile THEN {} ELSE {"http"}
        /\ backup' = backup
    BY <1>4 DEF Dir!DownloadFails
  <2>2. got \in [lines : Seq(Dir!Range(got.lines)), ended : BOOLEAN, fail : BOOLEAN]
    BY DirectoryIs, OverItsRange DEF Dir!NoStream
  <2>. HIDE DEF got
  <2>3. CASE backup = NoFile
    BY <1>1, <1>2, <2>1, <2>2, <2>3 DEF Dir!Inv
  <2>4. CASE backup # NoFile
    <3>1. backup \in Contents /\ backup.lines \in Seq(Dir!Range(backup.lines))
      BY <2>4, DirectoryIs DEF Dir!Inv
    <3>2. ss' = Dir!AddText(got, backup)
      BY <2>1, <2>4
    <3>3. ss' \in [lines : Seq(Dir!Range(ss'.lines)), ended : BOOLEAN, fail : BOOLEAN]
      BY <2>2, <3>1, <3>2, AddTextIs
    <3>4. ss'.fail \/ Joined(ss'.lines, got.lines, backup.lines)
      BY <2>2, <3>1, <3>2, AddTextIs
    <3>5. ss'.fail \/ Dir!Carried'
      <4>1. SUFFICES ASSUME ~ss'.fail PROVE Dir!Carried'
        OBVIOUS
      <4>2. PICK d \in {0, 1} :
              /\ Len(ss'.lines) = Len(got.lines) + Len(backup.lines) - d
              /\ d = 1 => backup.lines # <<>>
              /\ \A i \in 1 + d..Len(backup.lines) :
                   ss'.lines[Len(got.lines) - d + i] = backup.lines[i]
        BY <3>4, <4>1 DEF Joined
      <4>3. Len(got.lines) \in Nat /\ Len(backup.lines) \in Nat
            /\ Len(backup.lines) - d >= 0 /\ DOMAIN ss'.lines = 1..Len(ss'.lines)
            /\ Len(ss'.lines) \in Nat /\ ss'.lines \in Seq(Dir!Range(ss'.lines))
        BY <2>2, <3>1, <3>3, <4>2
      <4>4. Len(got.lines) - d \in -1..Len(ss'.lines)
        BY <4>2, <4>3, JoinedAt
      <4>5. ASSUME NEW i \in 2..Len(backup.lines)
            PROVE  /\ Len(got.lines) - d + i \in DOMAIN ss'.lines
                   /\ ss'.lines[Len(got.lines) - d + i] = backup.lines[i]
        <5>1. i \in 1 + d..Len(backup.lines)
          BY <4>3
        <5>2. Len(got.lines) - d + i \in 1..Len(ss'.lines)
          BY <4>2, <4>3, JoinedAt
        <5>. QED
          BY <4>2, <4>3, <5>1, <5>2
      <4>6. Len(got.lines) - d + Len(backup.lines) = Len(ss'.lines)
        BY <4>2, <4>3
      <4>. QED
        BY <2>1, <4>4, <4>5, <4>6 DEF Dir!Carried
    <3>. QED
      BY <1>1, <1>2, <2>1, <2>4, <3>3, <3>5 DEF Dir!Inv
  <2>. QED
    BY <2>3, <2>4
<1>. QED
  BY <1>3, <1>4

\* The file goes to the end of the stream.
LEMMA LoadKeepsInv == ASSUME Dir!Inv, Dir!LoadContentFile PROVE Dir!Inv'
<1>1. /\ step = "file" /\ step' \in {"stamp", "update"}
      /\ UNCHANGED <<mode, folder, local, backup, count, callsigns, ids, spoiled>>
      /\ mode = "http" => step' = "update"
  BY DEF Dir!LoadContentFile, Dir!WantFile, Dir!worldVars, Dir!mapVars
<1>2. CASE UNCHANGED <<ss, loaded>>
  <2>1. Dir!Carried' <=> Dir!Carried
    BY <1>1, <1>2 DEF Dir!Carried
  <2>2. Dir!Holds(backup, 2)' <=> Dir!Holds(backup, 2)
    BY <1>1 DEF Dir!Holds
  <2>3. Dir!Knows(backup, 2)' <=> Dir!Knows(backup, 2)
    BY <1>1 DEF Dir!Knows
  <2>. QED
    BY <1>1, <1>2, <2>1, <2>2, <2>3 DEF Dir!Inv
<1>3. CASE ~UNCHANGED <<ss, loaded>>
  <2>1. /\ local # NoFile /\ mode # "http" /\ ss' = Dir!AddText(ss, local)
        /\ loaded' = loaded \cup {"file"}
    BY <1>3 DEF Dir!LoadContentFile, Dir!WantFile
  <2>2. local \in Contents /\ local.lines \in Seq(Dir!Range(local.lines))
    BY <2>1, DirectoryIs DEF Dir!Inv
  <2>3. /\ ss' \in [lines : Seq(Dir!Range(ss'.lines)), ended : BOOLEAN, fail : BOOLEAN]
        /\ ss'.fail \/ Joined(ss'.lines, ss.lines, local.lines)
        /\ ss.fail => ss'.fail
    BY <2>1, <2>2, AddTextIs DEF Dir!Inv
  <2>4. ASSUME folder, "http" \in loaded PROVE backup # NoFile /\ (ss'.fail \/ Dir!Carried')
    <3>1. backup # NoFile /\ (ss.fail \/ Dir!Carried)
      BY <2>4 DEF Dir!Inv
    <3>2. backup \in Contents /\ Len(backup.lines) \in Nat
      BY <3>1, DirectoryIs DEF Dir!Inv
    <3>3. SUFFICES ASSUME ~ss'.fail PROVE Dir!Carried'
      BY <3>1
    <3>4. PICK before \in -1..Len(ss.lines) :
            \A i \in 2..Len(backup.lines) :
              before + i \in DOMAIN ss.lines /\ ss.lines[before + i] = backup.lines[i]
      BY <2>3, <3>1, <3>3 DEF Dir!Carried
    <3>5. PICK d \in {0, 1} :
            /\ Len(ss'.lines) = Len(ss.lines) + Len(local.lines) - d
            /\ d = 1 => local.lines # <<>>
            /\ \A i \in 1..Len(ss.lines) : ss'.lines[i] = ss.lines[i]
      BY <2>3, <3>3 DEF Joined
    <3>6. /\ ss.lines \in Seq(Dir!Range(ss.lines)) /\ ss'.lines \in Seq(Dir!Range(ss'.lines))
          /\ Len(ss.lines) \in Nat /\ DOMAIN ss.lines = 1..Len(ss.lines)
          /\ Len(ss'.lines) \in Nat /\ DOMAIN ss'.lines = 1..Len(ss'.lines)
          /\ Len(ss.lines) <= Len(ss'.lines)
      <4>1. Len(local.lines) \in Nat /\ Len(local.lines) - d >= 0
        BY <2>2, <3>5
      <4>2. ss.lines \in Seq(Dir!Range(ss.lines)) /\ ss'.lines \in Seq(Dir!Range(ss'.lines))
        BY <2>3 DEF Dir!Inv
      <4>3. Len(ss.lines) \in Nat /\ Len(ss'.lines) \in Nat
        BY <4>2
      <4>4. Len(ss.lines) <= Len(ss.lines) + Len(local.lines) - d
        BY <4>1, <4>3
      <4>5. Len(ss.lines) <= Len(ss'.lines)
        BY <3>5, <4>4
      <4>6. DOMAIN ss.lines = 1..Len(ss.lines) /\ DOMAIN ss'.lines = 1..Len(ss'.lines)
        BY <4>2
      <4>. QED
        BY <4>2, <4>3, <4>5, <4>6
    <3>7. before \in -1..Len(ss'.lines)
      <4>1. \A a, b \in Nat : a <= b /\ before \in -1..a => before \in -1..b
        OBVIOUS
      <4>. QED
        BY <3>6, <4>1
    <3>8. ASSUME NEW i \in 2..Len(backup.lines)
          PROVE  before + i \in DOMAIN ss'.lines /\ ss'.lines[before + i] = backup.lines[i]
      <4>1. before + i \in 1..Len(ss.lines) /\ ss.lines[before + i] = backup.lines[i]
        BY <3>4, <3>6
      <4>2. before + i \in 1..Len(ss'.lines)
        BY <3>6, <4>1
      <4>. QED
        BY <3>5, <3>6, <4>1, <4>2
    <3>. QED
      BY <1>1, <2>1, <3>7, <3>8 DEF Dir!Carried
  <2>5. Dir!Knows(backup, 2)' <=> Dir!Knows(backup, 2)
    BY <1>1 DEF Dir!Knows
  <2>. QED
    BY <1>1, <2>1, <2>3, <2>4, <2>5 DEF Dir!Inv
<1>. QED
  BY <1>2, <1>3

\* What the stream carries comes into the directory.
LEMMA UpdateKeepsInv == ASSUME Dir!Inv, Dir!Update PROVE Dir!Inv'
<1>1. /\ step' = "http" /\ ss' = Dir!NoStream /\ loaded' = {}
      /\ UNCHANGED <<mode, folder, local, backup, count>>
      /\ spoiled' = IF "http" \in loaded THEN ss.fail ELSE spoiled
  BY DEF Dir!Update, Dir!worldVars
<1>2. CASE loaded = {}
  <2>1. callsigns' = callsigns /\ spoiled' = spoiled
    BY <1>1, <1>2 DEF Dir!Update
  <2>2. Dir!Holds(backup, 2)' <=> Dir!Holds(backup, 2)
    BY <1>1, <2>1 DEF Dir!Holds
  <2>3. Dir!Knows(backup, 2)' <=> Dir!Knows(backup, 2)
    BY <1>1, <2>1 DEF Dir!Knows
  <2>. QED
    BY <1>1, <1>2, <2>1, <2>2, <2>3 DEF Dir!Inv, Dir!NoStream
<1>3. CASE loaded # {}
  <2>. DEFINE lines == IF ss.fail THEN <<>> ELSE ss.lines
              older == IF Dir!ClearContents THEN Dir!NoMap ELSE callsigns
              read == {lines[i][1] : i \in 1..Len(lines)}
  <2>1. callsigns' = Dir!Updated(older, lines, 1, 2)
    BY <1>3 DEF Dir!Update
  <2>2. lines \in Seq(Dir!Range(ss.lines))
    BY DEF Dir!Inv
  <2>3. /\ DOMAIN callsigns' = DOMAIN older \cup read
        /\ \A i \in 1..Len(lines) :
             (\A j \in i + 1..Len(lines) : lines[j][1] # lines[i][1])
               => callsigns'[lines[i][1]] = lines[i][2]
    <3>1. Overlaid(callsigns', older, lines, 1, 2)
      BY <2>1, <2>2, UpdatedIs
    <3>. QED
      BY <3>1 DEF Overlaid
  <2>4. ASSUME folder, ~ss.fail, "http" \in loaded
        PROVE  /\ mode = "http" => Dir!Holds(backup, 2)'
               /\ mode = "both" => Dir!Knows(backup, 2)'
    <3>1. lines = ss.lines /\ Dir!Carried /\ backup # NoFile
      BY <2>4 DEF Dir!Inv
    <3>. HIDE DEF lines
    <3>2. backup \in Contents /\ Len(backup.lines) \in Nat /\ Len(lines) \in Nat
          /\ DOMAIN lines = 1..Len(lines)
      BY <2>2, <3>1, DirectoryIs DEF Dir!Inv
    <3>3. PICK before \in -1..Len(lines) :
            /\ \A i \in 2..Len(backup.lines) :
                 before + i \in DOMAIN lines /\ lines[before + i] = backup.lines[i]
            /\ mode = "http" => before + Len(backup.lines) = Len(lines)
      BY <3>1 DEF Dir!Carried
    <3>4. \A i \in 2..Len(backup.lines) : backup.lines[i][1] \in DOMAIN callsigns'
      BY <2>3, <3>2, <3>3
    <3>5. ASSUME mode = "http", NEW i \in 2..Len(backup.lines),
                 \A j \in i + 1..Len(backup.lines) : backup.lines[j][1] # backup.lines[i][1]
          PROVE  callsigns'[backup.lines[i][1]] = backup.lines[i][2]
      <4>1. before + i \in 1..Len(lines) /\ lines[before + i] = backup.lines[i]
        BY <3>2, <3>3
      <4>2. ASSUME NEW j \in before + i + 1..Len(lines)
            PROVE  lines[j][1] # lines[before + i][1]
        <5>1. j - before \in i + 1..Len(backup.lines) /\ before + (j - before) = j
          BY <3>2, <3>3, <3>5, <4>1
        <5>2. j - before \in 2..Len(backup.lines)
          BY <3>2, <5>1
        <5>. QED
          BY <3>3, <3>5, <4>1, <5>1, <5>2
      <4>. QED
        BY <2>3, <4>1, <4>2
    <3>. QED
      BY <1>1, <3>4, <3>5 DEF Dir!Holds, Dir!Knows
  <2>5. ASSUME "http" \notin loaded, mode = "both", Dir!Knows(backup, 2)
        PROVE  Dir!Knows(backup, 2)'
    <3>1. older = callsigns
      BY <2>5 DEF Dir!ClearContents
    <3>. QED
      BY <1>1, <2>3, <2>5, <3>1 DEF Dir!Knows
  <2>6. "http" \notin loaded => mode # "http"
    BY <1>3 DEF Dir!Inv
  <2>. QED
    BY <1>1, <2>4, <2>5, <2>6 DEF Dir!Inv, Dir!NoStream
<1>. QED
  BY <1>2, <1>3

\* What only others change, and what is not due.
LEMMA OthersKeepDirectory ==
  ASSUME Dir!Inv,
         \/ Dir!Tick \/ Dir!NoDownload \/ Dir!Stamp \/ UNCHANGED directoryVars
         \/ \E t \in 1..second : \E x \in Contents \cup {NoFile} : Dir!Edit(x, t)
  PROVE  Dir!Inv'
<1>1. /\ UNCHANGED <<mode, folder, backup, ss, loaded, callsigns, ids, spoiled>>
      /\ local' \in Contents \cup {NoFile}
  BY DEF Dir!Inv, Dir!Tick, Dir!NoDownload, Dir!Stamp, Dir!Edit, directoryVars,
         Dir!worldVars, Dir!mapVars, Dir!threadVars
<1>2. \/ step' = step /\ count' = count
      \/ step' = "update" /\ step = "stamp" /\ count' = count
      \/ /\ step = "http" /\ step' = "file" /\ count' \in 0..WaitCycles - 1
         /\ mode # "file" => count # 0
         /\ mode = "file" => count' = count
  <2>1. CASE Dir!NoDownload
    <3>1. (count + 1) % WaitCycles \in 0..WaitCycles - 1
      BY DirectoryIs DEF Dir!Inv
    <3>. QED
      BY <2>1, <3>1 DEF Dir!NoDownload, Dir!Inv, Dir!Due
  <2>2. CASE ~Dir!NoDownload
    BY <2>2 DEF Dir!Tick, Dir!Stamp, Dir!Edit, directoryVars, Dir!threadVars
  <2>. QED
    BY <2>1, <2>2
<1>3. Dir!Carried' <=> Dir!Carried
  BY <1>1 DEF Dir!Carried
<1>4. Dir!Holds(backup, 2)' <=> Dir!Holds(backup, 2)
  BY <1>1 DEF Dir!Holds
<1>5. Dir!Knows(backup, 2)' <=> Dir!Knows(backup, 2)
  BY <1>1 DEF Dir!Knows
<1>. QED
  BY <1>1, <1>2, <1>3, <1>4, <1>5 DEF Dir!Inv

LEMMA DirectoryInvariance ==
  ASSUME Dir!Inv, Dir!Next \/ UNCHANGED directoryVars PROVE Dir!Inv'
<1>1. ASSUME NEW x \in Contents, Dir!Download(x) PROVE Dir!Inv'
  BY <1>1, DirectoryIs, DownloadsKeepInv
<1>2. ASSUME NEW x \in Contents \cup {NoFile}, Dir!DownloadFails(x) PROVE Dir!Inv'
  BY <1>2, DownloadsKeepInv
<1>. QED
  BY <1>1, <1>2, LoadKeepsInv, UpdateKeepsInv, OthersKeepDirectory
  DEF Dir!Next, Dir!Thread

\* The lines of the backup are in the stream or in the directory: see
\* Directory!Inv.
DirectoryInv == part = "directory" => Dir!Inv

LEMMA DirectoryInductive == Spec => []DirectoryInv
<1>1. Init => DirectoryInv
  BY DirectoryInit DEF Init, DirectoryInv
<1>2. ASSUME DirectoryInv, [Next]_vars PROVE DirectoryInv'
  BY <1>2, PartStays, DirectorySteps, DirectoryInvariance DEF DirectoryInv
<1>. QED
  BY <1>1, <1>2, PTL DEF Spec

\* After a download, failed or not, the directory has all that the server last
\* sent, and the backup holds it: see Directory!BackupHeld.
THEOREM BackupHeldCorrect == Spec => []BackupHeld
<1>1. DirectoryInv => BackupHeld
  BY DEF DirectoryInv, Dir!Inv, BackupHeld, Dir!BackupHeld
<1>. QED
  BY <1>1, DirectoryInductive, PTL

-----------------------------------------------------------------------------
(***************************************************************************)
(* A callsign and its address (Callsigns).                                 *)
(***************************************************************************)

LEMMA CallsignsSteps ==
  ASSUME [Next]_vars, part = "callsigns"
  PROVE  Calls!Next \/ UNCHANGED callsignsVars
BY DEF Next, InIds, InLists, InDirectory, InService, InSessions, InWiresX, InConfiguration,
       InCallsigns, vars

LEMMA CallsignsAre ==
  /\ \A s \in Spellings \cup Addresses \cup Patches \cup {Reflector} : s \in Seq(Calls!Range(s))
  /\ \A t \in Addresses : Len(t) \in {0, 9}
  /\ \A p \in Patches : Len(p) = 3
  /\ \A d \in Directories : \A n \in {d.dmr, d.nxdn} : \A i \in DOMAIN n.names :
       n.names[i] \in [1..8 -> Calls!Range(n.names[i])] /\ n.names[i][8] = Calls!Space
BY PartsAssumption DEF Calls!CallsignsAssumption

\* What Sound says of the letters alone, and of the fields.
Word(l) == l \in [1..8 -> Calls!Range(l)] /\ l[8] = Calls!Space
Fields == {"letters", "module", "coded", "dmrid", "nxdnid"}

LEMMA SoundIs ==
  ASSUME NEW x
  PROVE  /\ Calls!Sound(x) <=> /\ DOMAIN x = Fields /\ Word(x.letters)
                               /\ x.coded \in {Calls!TooLarge, Calls!Code(x)}
BY DEF Calls!Sound, Word, Fields

LEMMA WordIn == ASSUME NEW S, NEW l \in [1..8 -> S], l[8] = Calls!Space PROVE Word(l)
BY DEF Word, Calls!Range

LEMMA CodeOf ==
  ASSUME NEW x, NEW y, x.letters = y.letters, x.module = y.module
  PROVE  Calls!Code(x) = Calls!Code(y)
BY DEF Calls!Code

LEMMA CSInSound ==
  ASSUME NEW x, DOMAIN x = Fields, Word(x.letters)
  PROVE  Calls!Sound(Calls!CSIn(x))
<1>. DEFINE y == Calls!CSIn(x)
<1>1. DOMAIN y = Fields /\ y.letters = x.letters /\ y.module = x.module
      /\ y.coded = Calls!Code(x)
  BY DEF Calls!CSIn, Fields
<1>2. Calls!Code(y) = Calls!Code(x)
  BY <1>1, CodeOf
<1>. QED
  BY <1>1, <1>2, SoundIs

LEMMA PaddedIs ==
  ASSUME NEW S, NEW s \in Seq(S), NEW n \in Nat
  PROVE  LET p == Calls!Padded(s, n)
         IN  /\ p \in [1..n -> S \cup {Calls!Space}] /\ p \in Seq(S \cup {Calls!Space}) /\ Len(p) = n
             /\ \A i \in 1..n : (i <= Len(s) => p[i] = s[i]) /\ (i > Len(s) => p[i] = Calls!Space)
<1>. DEFINE p == Calls!Padded(s, n)
<1>1. p = [i \in 1..n |-> IF i <= Len(s) THEN s[i] ELSE Calls!Space] /\ Len(s) \in Nat
  BY DEF Calls!Padded
<1>2. ASSUME NEW i \in 1..n
      PROVE  (i <= Len(s) => p[i] = s[i]) /\ (i > Len(s) => p[i] = Calls!Space)
  BY <1>1
<1>3. ASSUME NEW i \in 1..n PROVE p[i] \in S \cup {Calls!Space}
  <2>1. CASE i <= Len(s)
    <3>1. s[i] \in S
      BY <2>1
    <3>. QED
      BY <1>2, <2>1, <3>1
  <2>2. CASE i > Len(s)
    BY <1>2, <2>2
  <2>. QED
    BY <1>1, <2>1, <2>2
<1>4. p \in [1..n -> S \cup {Calls!Space}]
  BY <1>1, <1>3
<1>. HIDE DEF p
<1>5. p \in Seq(S \cup {Calls!Space}) /\ Len(p) = n
  BY <1>4
<1>. QED
  BY <1>2, <1>4, <1>5 DEF p

LEMMA WordIsSeq == ASSUME NEW S, NEW s \in [1..8 -> S] PROVE s \in Seq(S) /\ Len(s) = 8
<1>1. PICK n \in Nat : n = 8
  OBVIOUS
<1>2. s \in [1..n -> S]
  BY <1>1
<1>3. s \in Seq(S) /\ Len(s) = n
  BY <1>2
<1>. QED
  BY <1>1, <1>3

LEMMA PaddedWord ==
  ASSUME NEW S, NEW s \in Seq(S)
  PROVE  LET p == Calls!Padded(s, 8)
         IN  /\ p \in [1..8 -> S \cup {Calls!Space}]
             /\ p \in Seq(S \cup {Calls!Space}) /\ Len(p) = 8
             /\ \A i \in 1..8 : /\ i <= Len(s) => p[i] = s[i]
                                /\ i > Len(s) => p[i] = Calls!Space
<1>1. PICK n \in Nat : n = 8
  OBVIOUS
<1>. DEFINE p == Calls!Padded(s, n)
<1>2. /\ p \in [1..n -> S \cup {Calls!Space}]
      /\ p \in Seq(S \cup {Calls!Space}) /\ Len(p) = n
      /\ \A i \in 1..n : (i <= Len(s) => p[i] = s[i]) /\ (i > Len(s) => p[i] = Calls!Space)
  BY PaddedIs
<1>3. p = Calls!Padded(s, 8)
  BY <1>1
<1>. HIDE DEF p
<1>. QED
  BY <1>1, <1>2, <1>3

LEMMA PrefixIs ==
  ASSUME NEW S, NEW s \in Seq(S), NEW k \in Nat, k <= Len(s)
  PROVE  LET t == SubSeq(s, 1, k)
         IN  t \in Seq(S) /\ Len(t) = k /\ \A i \in 1..k : t[i] = s[i]
<1>. DEFINE t == SubSeq(s, 1, k)
<1>1. \A i \in 1..k : s[i] \in S
  OBVIOUS
<1>2. /\ t \in Seq(S)
      /\ Len(t) = IF 1 <= k THEN k - 1 + 1 ELSE 0
      /\ \A i \in 1..k - 1 + 1 : t[i] = s[1 + i - 1]
  BY <1>1, SubSeqProperties
<1>3. Len(t) = k /\ k - 1 + 1 = k
  BY <1>2
<1>4. \A i \in 1..k : 1 + i - 1 = i
  OBVIOUS
<1>. QED
  BY <1>2, <1>3, <1>4

\* WithText takes seven letters of a text, and its last one as the module.
Takes(x, s) ==
  /\ \A i \in 1..7 : /\ i <= Len(s) => x.letters[i] = s[i]
                     /\ i > Len(s) => x.letters[i] = Calls!Space
  /\ x.module = IF Len(s) >= 8 THEN s[Len(s)] ELSE Calls!Space

LEMMA WithTextSound ==
  ASSUME NEW x, DOMAIN x = Fields, NEW S, NEW s \in Seq(S)
  PROVE  Calls!Sound(Calls!WithText(x, s)) /\ Takes(Calls!WithText(x, s), s)
<1>. DEFINE k == IF Len(s) < 7 THEN Len(s) ELSE 7
            t == SubSeq(s, 1, k)
            l == Calls!Padded(t, 8)
            y == [x EXCEPT !.letters = l,
                           !.module = IF Len(s) >= 8 THEN Calls!Last(s) ELSE Calls!Space]
<1>1. Len(s) \in Nat /\ k \in 0..7 /\ k <= Len(s) /\ (k = Len(s) \/ k = 7)
  <2>1. Len(s) \in Nat
    OBVIOUS
  <2>2. CASE Len(s) < 7
    <3>1. k = Len(s)
      BY <2>2
    <3>. QED
      BY <2>1, <2>2, <3>1
  <2>3. CASE ~(Len(s) < 7)
    <3>1. k = 7
      BY <2>3
    <3>. QED
      BY <2>1, <2>3, <3>1
  <2>. QED
    BY <2>1, <2>2, <2>3
<1>. HIDE DEF k
<1>2. t \in Seq(S) /\ Len(t) = k /\ \A i \in 1..k : t[i] = s[i]
  BY <1>1, PrefixIs
<1>. HIDE DEF t
<1>3. /\ l \in [1..8 -> S \cup {Calls!Space}]
      /\ \A i \in 1..8 : (i <= Len(t) => l[i] = t[i]) /\ (i > Len(t) => l[i] = Calls!Space)
  BY <1>2, PaddedIs
<1>. HIDE DEF l
<1>4. \A i \in 1..8 : (i <= k => l[i] = s[i]) /\ (i > k => l[i] = Calls!Space)
  BY <1>1, <1>2, <1>3
<1>5. Word(l)
  <2>1. l[8] = Calls!Space
    BY <1>1, <1>4
  <2>. QED
    BY <1>3, <2>1, WordIn
<1>6. DOMAIN y = Fields /\ y.letters = l
      /\ y.module = IF Len(s) >= 8 THEN s[Len(s)] ELSE Calls!Space
  BY DEF Fields, Calls!Last
<1>. HIDE DEF y
<1>7. Calls!WithText(x, s) = Calls!CSIn(y)
  BY DEF Calls!WithText, y, l, t, k
<1>8. Calls!CSIn(y).letters = l /\ Calls!CSIn(y).module = y.module
  BY <1>6 DEF Calls!CSIn, Fields
<1>9. ASSUME NEW i \in 1..7
      PROVE  (i <= Len(s) => l[i] = s[i]) /\ (i > Len(s) => l[i] = Calls!Space)
  BY <1>1, <1>4
<1>. QED
  BY <1>5, <1>6, <1>7, <1>8, <1>9, CSInSound DEF Takes

LEMMA BlankSound == ASSUME NEW nr PROVE Calls!Sound(Calls!Blank(nr))
<1>. DEFINE x == Calls!Blank(nr)
<1>1. /\ x = [letters |-> [i \in 1..8 |-> Calls!Space], module |-> Calls!Space,
              coded |-> [i \in 1..9 |-> Calls!Space], dmrid |-> 0, nxdnid |-> nr]
  BY DEF Calls!Blank, Calls!Padded
<1>2. DOMAIN x = Fields /\ Word(x.letters)
  BY <1>1 DEF Fields, Word, Calls!Range
<1>3. Calls!Digit(Calls!Space) = Calls!Space
  BY DEF Calls!Digit
<1>4. Calls!Code(x) = x.coded
  BY <1>1, <1>3 DEF Calls!Code
<1>. QED
  BY <1>2, <1>4, SoundIs

LEMMA WithIdsSound ==
  ASSUME NEW x, Calls!Sound(x)
  PROVE  LET y == Calls!WithIds(x)
         IN  /\ Calls!Sound(y)
             /\ y.letters = x.letters /\ y.module = x.module /\ y.coded = x.coded
<1>. DEFINE y == Calls!WithIds(x)
<1>1. DOMAIN x = Fields /\ Word(x.letters) /\ x.coded \in {Calls!TooLarge, Calls!Code(x)}
  BY SoundIs
<1>2. DOMAIN y = Fields /\ y.letters = x.letters /\ y.module = x.module /\ y.coded = x.coded
  BY <1>1 DEF Calls!WithIds, Fields
<1>3. Calls!Code(y) = Calls!Code(x)
  BY <1>2, CodeOf
<1>. QED
  BY <1>1, <1>2, <1>3, SoundIs

\* The directories have names of eight letters, the eighth blank.
LEMMA LettersOfWord ==
  ASSUME directory \in Directories, NEW nr, NEW l, Word(l),
         NEW d \in {directory.dmr, directory.nxdn}
  PROVE  Word(Calls!LettersOf(d, nr, l))
BY CallsignsAre DEF Word, Calls!LettersOf

LEMMA NamedSound ==
  ASSUME directory \in Directories, NEW S, NEW s \in Seq(S), NEW dmrid, NEW nxdnid
  PROVE  Calls!Sound(Calls!Named(s, dmrid, nxdnid))
<1>. DEFINE y == [Calls!Blank(0) EXCEPT !.letters =
                    IF dmrid # 0 THEN Calls!LettersOf(directory.dmr, dmrid, @)
                                 ELSE Calls!LettersOf(directory.nxdn, nxdnid, @)]
            x == IF s # <<>> THEN Calls!WithText(Calls!Blank(0), s) ELSE Calls!CSIn(y)
            r == [x EXCEPT !.dmrid = IF dmrid # 0 THEN dmrid ELSE Calls!WithIds(x).dmrid,
                           !.nxdnid = IF nxdnid # 0 THEN nxdnid ELSE Calls!WithIds(x).nxdnid]
<1>1. Calls!Named(s, dmrid, nxdnid) = r
  BY DEF Calls!Named
<1>2. DOMAIN Calls!Blank(0) = Fields /\ Word(Calls!Blank(0).letters)
  BY BlankSound, SoundIs
<1>3. DOMAIN y = Fields /\ Word(y.letters)
  BY <1>2, LettersOfWord DEF Fields
<1>. HIDE DEF y
<1>4. Calls!Sound(x)
  BY <1>2, <1>3, WithTextSound, CSInSound
<1>. HIDE DEF x
<1>5. DOMAIN x = Fields /\ Word(x.letters) /\ x.coded \in {Calls!TooLarge, Calls!Code(x)}
  BY <1>4, SoundIs
<1>6. DOMAIN r = Fields /\ r.letters = x.letters /\ r.module = x.module /\ r.coded = x.coded
  BY <1>5 DEF Fields
<1>. HIDE DEF r
<1>7. Calls!Code(r) = Calls!Code(x)
  BY <1>6, CodeOf
<1>. QED
  BY <1>1, <1>5, <1>6, <1>7, SoundIs

LEMMA WithModuleSound ==
  ASSUME NEW x, Calls!Sound(x), NEW m PROVE Calls!Sound(Calls!WithModule(x, m))
<1>. DEFINE y == [x EXCEPT !.module = m]
<1>1. DOMAIN y = Fields /\ Word(y.letters)
  BY SoundIs DEF Fields
<1>. QED
  BY <1>1, CSInSound DEF Calls!WithModule

LEMMA WithBufferSound ==
  ASSUME NEW x, DOMAIN x = Fields, NEW S, NEW s \in Seq(S)
  PROVE  LET p == Calls!Padded(s, 8)
         IN  Calls!Sound(Calls!WithBuffer(x, s)) /\ Takes(Calls!WithBuffer(x, s), p)
<1>1. Calls!Padded(s, 8) \in Seq(S \cup {Calls!Space})
  BY PaddedIs
<1>. QED
  BY <1>1, WithTextSound DEF Calls!WithBuffer

\* Over the interlink a callsign is read as it was.
LEMMA OverLinkSound ==
  ASSUME NEW x, Calls!Sound(x), NEW nr
  PROVE  LET y == Calls!OverLink(x, nr)
         IN  Calls!Sound(y) /\ y.letters = x.letters /\ y.module = x.module
<1>. DEFINE s == Calls!ToBuffer(x)
            S == Calls!Range(x.letters) \cup {x.module}
            p == Calls!Padded(s, 8)
            y == Calls!WithBuffer(Calls!Blank(nr), s)
<1>1. x.letters \in [1..8 -> Calls!Range(x.letters)] /\ x.letters[8] = Calls!Space
  BY DEF Calls!Sound
<1>2. s \in [1..8 -> S] /\ s[8] = x.module /\ \A i \in 1..7 : s[i] = x.letters[i]
  BY <1>1 DEF Calls!ToBuffer
<1>. HIDE DEF s, S
<1>3. s \in Seq(S) /\ Len(s) = 8
  BY <1>2, WordIsSeq
<1>4. /\ p \in [1..8 -> S \cup {Calls!Space}]
      /\ p \in Seq(S \cup {Calls!Space}) /\ Len(p) = 8
      /\ \A i \in 1..8 : (i <= Len(s) => p[i] = s[i]) /\ (i > Len(s) => p[i] = Calls!Space)
  <2>1. s \in Seq(S)
    BY <1>3
  <2>. QED
    BY <2>1, PaddedWord
<1>5. DOMAIN Calls!Blank(nr) = Fields
  BY BlankSound, SoundIs
<1>6. Calls!Sound(y) /\ Takes(y, p)
  BY <1>3, <1>5, WithBufferSound
<1>. HIDE DEF p, y
<1>7. \A i \in 1..8 : p[i] = s[i]
  BY <1>3, <1>4
<1>8. y.module = x.module
  BY <1>2, <1>4, <1>6, <1>7 DEF Takes
<1>9. ASSUME NEW i \in 1..8 PROVE y.letters[i] = x.letters[i]
  <2>1. CASE i \in 1..7
    <3>1. i <= Len(p)
      BY <1>4, <2>1
    <3>2. y.letters[i] = p[i]
      BY <1>6, <2>1, <3>1 DEF Takes
    <3>. QED
      BY <1>2, <1>7, <2>1, <3>2
  <2>2. CASE i = 8
    BY <1>1, <1>6, <2>2 DEF Calls!Sound
  <2>. QED
    BY <2>1, <2>2
<1>10. y.letters = x.letters
  <2>1. y.letters \in [1..8 -> Calls!Range(y.letters)]
    BY <1>6 DEF Calls!Sound
  <2>. QED
    BY <1>1, <1>9, <2>1
<1>11. Calls!OverLink(x, nr) = Calls!WithIds(y)
  BY DEF Calls!OverLink, y, s
<1>. QED
  BY <1>6, <1>8, <1>10, <1>11, WithIdsSound

\* TextOf cuts off the digits 0 at the end of an address.
CutAt(t, a, k) ==
  /\ Len(t) = k /\ \A i \in 1..k : t[i] = a[i]
  /\ k > 0 => a[k] # Calls!Space
  /\ \A i \in k + 1..Len(a) : a[i] = Calls!Space

LEMMA TextOfIs ==
  ASSUME NEW S, NEW a \in Seq(S)
  PROVE  /\ Calls!TextOf(a) \in Seq(S)
         /\ \E k \in 0..Len(a) : CutAt(Calls!TextOf(a), a, k)
<1>. DEFINE I == {i \in 1..Len(a) : a[i] # Calls!Space}
            g == CHOOSE x \in I : \A y \in I : x >= y
            k == IF I # {} THEN g ELSE 0
<1>1. Calls!TextOf(a) = SubSeq(a, 1, k)
  BY DEF Calls!TextOf, Calls!SelectLastInSeq, Calls!Max
<1>2. Len(a) \in Nat /\ I \subseteq 1..Len(a)
  OBVIOUS
<1>3. I # {} => g \in I /\ \A y \in I : g >= y
  BY <1>2, GreatestOf
<1>. HIDE DEF g
<1>4. /\ k \in Nat /\ k <= Len(a)
      /\ k > 0 => a[k] # Calls!Space
      /\ \A i \in k + 1..Len(a) : a[i] = Calls!Space
  <2>1. CASE I = {}
    BY <1>2, <2>1
  <2>2. CASE I # {}
    <3>1. k = g /\ g \in 1..Len(a) /\ a[g] # Calls!Space /\ \A y \in I : g >= y
      BY <1>3, <2>2
    <3>2. ASSUME NEW i \in k + 1..Len(a) PROVE a[i] = Calls!Space
      <4>1. i \in 1..Len(a) /\ ~(g >= i)
        BY <1>2, <3>1
      <4>. QED
        BY <3>1, <4>1
    <3>. QED
      BY <1>2, <3>1, <3>2
  <2>. QED
    BY <2>1, <2>2
<1>. HIDE DEF k
<1>5. SubSeq(a, 1, k) \in Seq(S) /\ Len(SubSeq(a, 1, k)) = k
      /\ \A i \in 1..k : SubSeq(a, 1, k)[i] = a[i]
  BY <1>4, PrefixIs
<1>6. k \in 0..Len(a)
  BY <1>2, <1>4
<1>. QED
  BY <1>1, <1>4, <1>5, <1>6 DEF CutAt

LEMMA WithAddressSound ==
  ASSUME NEW x, Calls!Sound(x), NEW S, NEW a \in Seq(S)
  PROVE  Calls!Sound(Calls!WithAddress(x, a))
<1>1. DOMAIN x = Fields /\ Word(x.letters)
  BY SoundIs
<1>2. CASE a = Calls!TooLarge
  <2>. DEFINE y == [x EXCEPT !.coded = Calls!TooLarge]
  <2>1. DOMAIN y = Fields /\ y.letters = x.letters /\ y.coded = Calls!TooLarge
    BY <1>1 DEF Fields
  <2>. HIDE DEF y
  <2>2. Calls!Sound(y)
    BY <1>1, <2>1, SoundIs
  <2>. QED
    BY <1>2, <2>2 DEF Calls!WithAddress, y
<1>3. CASE a # Calls!TooLarge
  <2>1. Calls!TextOf(a) \in Seq(S)
    BY TextOfIs
  <2>2. Calls!Sound(Calls!WithText(x, Calls!TextOf(a)))
    BY <1>1, <2>1, WithTextSound
  <2>. QED
    BY <1>3, <2>2, WithIdsSound DEF Calls!WithAddress
<1>. QED
  BY <1>2, <1>3

LEMMA RemoveAtSeq ==
  ASSUME NEW S, NEW s \in Seq(S), Len(s) \in {8, 9}
  PROVE  Calls!RemoveAt(s, 4) \in Seq(S)
<1>1. Calls!RemoveAt(s, 4) = SubSeq(s, 1, 4 - 1) \o SubSeq(s, 4 + 1, Len(s))
  BY DEF Calls!RemoveAt
<1>2. SubSeq(s, 1, 4 - 1) \in Seq(S)
  <2>1. \A i \in 1..4 - 1 : s[i] \in S
    OBVIOUS
  <2>. QED
    BY <2>1, SubSeqProperties
<1>3. SubSeq(s, 4 + 1, Len(s)) \in Seq(S)
  <2>1. \A i \in 4 + 1..Len(s) : s[i] \in S
    OBVIOUS
  <2>. QED
    BY <2>1, SubSeqProperties
<1>. QED
  BY <1>1, <1>2, <1>3

LEMMA WithoutHyphenSound ==
  ASSUME directory \in Directories, NEW x, Calls!Sound(x)
  PROVE  Calls!Sound(Calls!WithoutHyphen(x))
<1>. DEFINE S == Calls!Range(x.letters) \cup {x.module}
            s == [i \in 1..8 |-> x.letters[i]]
            text == IF x.module = Calls!Space THEN s ELSE Append(s, x.module)
<1>1. x.letters \in [1..8 -> Calls!Range(x.letters)]
  BY DEF Calls!Sound
<1>2. s \in [1..8 -> S]
  BY <1>1
<1>. HIDE DEF s, S
<1>3. s \in Seq(S) /\ Len(s) = 8
  BY <1>2, WordIsSeq
<1>4. x.module \in S
  BY DEF S
<1>5. text \in Seq(S) /\ Len(text) \in {8, 9}
  <2>1. Append(s, x.module) \in Seq(S) /\ Len(Append(s, x.module)) = Len(s) + 1
    <3>1. s \in Seq(S)
      BY <1>3
    <3>. QED
      BY <3>1, <1>4
  <2>2. Len(s) + 1 = 9
    BY <1>3
  <2>. QED
    BY <1>3, <2>1, <2>2
<1>. HIDE DEF text
<1>6. Calls!RemoveAt(text, 4) \in Seq(S)
  BY <1>5, RemoveAtSeq
<1>7. Calls!Sound(Calls!Named(Calls!RemoveAt(text, 4), 0, 0))
  BY <1>6, NamedSound
<1>. QED
  BY <1>7 DEF Calls!WithoutHyphen, text, s

LEMMA HeadersSound ==
  ASSUME directory \in Directories, NEW x, Calls!Sound(x), NEW s \in Spellings, NEW m,
         NEW h \in Calls!Headers(x, s, m), NEW f \in DOMAIN h
  PROVE  Calls!Sound(h[f])
<1>1. s \in Seq(Calls!Range(s)) /\ Reflector \in Seq(Calls!Range(Reflector))
  BY CallsignsAre
<1>2. Calls!Sound(Calls!Named(s, 0, 0)) /\ Calls!Sound(Calls!Named(Reflector, 0, 0))
  BY <1>1, NamedSound
<1>3. Calls!Sound(Calls!CQ)
  <2>1. <<"C", "Q", "C", "Q", "C", "Q">> \in Seq({"C", "Q"})
    OBVIOUS
  <2>. QED
    BY <2>1, NamedSound DEF Calls!CQ
<1>4. \A n : Calls!Sound(Calls!OwnModule(n))
  BY <1>2, WithModuleSound DEF Calls!OwnModule
<1>5. CASE h = Calls!StationHeader(x, Calls!Named(s, 0, 0), m)
  <2>1. Calls!Sound(Calls!WithModule(Calls!Named(s, 0, 0), "B"))
    BY <1>2, WithModuleSound
  <2>2. h = [my |-> x, ur |-> Calls!CQ, rpt1 |-> Calls!WithModule(Calls!Named(s, 0, 0), "B"),
             rpt2 |-> Calls!OwnModule(m)]
    BY <1>5 DEF Calls!StationHeader, Calls!Header
  <2>. QED
    BY <1>3, <1>4, <2>1, <2>2
<1>6. CASE h = Calls!M17Header(Calls!WithModule(Calls!Named(s, 0, 0), m), x)
  <2>. DEFINE d == Calls!WithModule(Calls!Named(s, 0, 0), m)
  <2>1. Calls!Sound(d)
    BY <1>2, WithModuleSound
  <2>2. Calls!Sound(Calls!WithoutHyphen(d))
    BY <2>1, WithoutHyphenSound
  <2>3. Calls!Sound(Calls!WithModule(Calls!WithoutHyphen(d), "G"))
    BY <2>2, WithModuleSound
  <2>4. h = [my |-> x, ur |-> Calls!CQ, rpt1 |-> Calls!WithModule(Calls!WithoutHyphen(d), "G"),
             rpt2 |-> Calls!WithoutHyphen(d)]
    BY <1>6 DEF Calls!M17Header, Calls!Header
  <2>. HIDE DEF d
  <2>. QED
    BY <1>3, <2>2, <2>3, <2>4
<1>7. CASE h = Calls!DStarHeader(Calls!ToBuffer(x), s, s, Calls!ToBuffer(Calls!OwnModule(m)))
  <2>. DEFINE read(b) == Calls!WithIds(Calls!WithBuffer(Calls!Blank(0), b))
  <2>1. ASSUME NEW S, NEW b \in Seq(S) PROVE Calls!Sound(read(b))
    <3>1. DOMAIN Calls!Blank(0) = Fields
      BY BlankSound, SoundIs
    <3>. QED
      BY <3>1, WithBufferSound, WithIdsSound
  <2>2. ASSUME NEW y, Calls!Sound(y)
        PROVE  Calls!ToBuffer(y) \in Seq(Calls!Range(y.letters) \cup {y.module})
    <3>1. y.letters \in [1..8 -> Calls!Range(y.letters)]
      BY <2>2 DEF Calls!Sound
    <3>2. Calls!ToBuffer(y) \in [1..8 -> Calls!Range(y.letters) \cup {y.module}]
      BY <3>1 DEF Calls!ToBuffer
    <3>. QED
      BY <3>2, WordIsSeq
  <2>3. Calls!Sound(read(s))
    BY <1>1, <2>1
  <2>4. Calls!Sound(read(Calls!ToBuffer(x)))
    BY <2>1, <2>2
  <2>5. Calls!Sound(read(Calls!ToBuffer(Calls!OwnModule(m))))
    BY <1>4, <2>1, <2>2
  <2>6. h = [my |-> read(Calls!ToBuffer(x)), ur |-> read(s), rpt1 |-> read(s),
             rpt2 |-> read(Calls!ToBuffer(Calls!OwnModule(m)))]
    BY <1>7 DEF Calls!DStarHeader, Calls!Header
  <2>. HIDE DEF read
  <2>. QED
    BY <2>3, <2>4, <2>5, <2>6
<1>. QED
  BY <1>5, <1>6, <1>7 DEF Calls!Headers

LEMMA CallsignsInit == ASSUME Calls!Init PROVE Calls!Inv
BY BlankSound DEF Calls!Init, Calls!Inv

LEMMA PatchedWord ==
  ASSUME NEW p \in Patches, NEW l, Word(l)
  PROVE  Word(p \o SubSeq(l, 4, 8))
<1>. DEFINE S == Calls!Range(p) \cup Calls!Range(l)
            t == SubSeq(l, 4, 8)
<1>1. p \in Seq(S) /\ Len(p) = 3
  <2>1. p \in Seq(Calls!Range(p)) /\ Len(p) = 3
    BY CallsignsAre
  <2>2. p \in Seq(S)
    BY <2>1
  <2>. QED
    BY <2>1, <2>2
<1>2. l \in [1..8 -> S] /\ l[8] = Calls!Space
  BY DEF Word
<1>. HIDE DEF S
<1>3. t \in Seq(S) /\ Len(t) = 5 /\ t[5] = Calls!Space
  <2>1. \A i \in 4..8 : l[i] \in S
    BY <1>2
  <2>2. /\ t \in Seq(S) /\ Len(t) = IF 4 <= 8 THEN 8 - 4 + 1 ELSE 0
        /\ \A i \in 1..8 - 4 + 1 : t[i] = l[4 + i - 1]
    BY <2>1, SubSeqProperties
  <2>. QED
    BY <1>2, <2>2
<1>. HIDE DEF t
<1>4. PICK m \in Nat, n \in Nat : m = 3 /\ n = 5
  OBVIOUS
<1>5. Len(p) = m /\ Len(t) = n /\ n > 0
  BY <1>1, <1>3, <1>4
<1>6. p \o t \in [1..m + n -> S] /\ (p \o t)[m + n] = t[n]
  <2>1. p \in Seq(S) /\ t \in Seq(S)
    BY <1>1, <1>3
  <2>2. p \o t \in Seq(S) /\ Len(p \o t) = m + n
    BY <1>5, <2>1
  <2>3. p \o t \in [1..Len(p \o t) -> S]
    BY <2>2, LenProperties
  <2>4. /\ m + n \in Len(p) + 1..Len(p) + Len(t)
        /\ (p \o t)[m + n] = t[m + n - Len(p)] /\ m + n - Len(p) = n
    BY <1>5, <2>1, ConcatProperties
  <2>. QED
    BY <2>2, <2>3, <2>4
<1>7. m + n = 8 /\ (p \o t)[8] = Calls!Space /\ p \o t \in [1..8 -> S]
  BY <1>3, <1>4, <1>6
<1>. QED
  BY <1>7, WordIn DEF t

LEMMA CallsignsInvariance ==
  ASSUME Calls!Inv, Calls!Next \/ UNCHANGED callsignsVars PROVE Calls!Inv'
<1>1. directory \in Directories /\ Calls!Sound(callsign)
  BY DEF Calls!Inv
<1>2. DOMAIN callsign = Fields /\ Word(callsign.letters)
      /\ callsign.coded \in {Calls!TooLarge, Calls!Code(callsign)}
  BY <1>1, SoundIs
<1>3. ASSUME NEW x, Calls!Sound(x), Calls!Becomes(x) PROVE Calls!Inv'
  <2>1. callsign' = x /\ directory' \in Directories
    BY <1>1, <1>3 DEF Calls!Becomes
  <2>. QED
    BY <1>3, <2>1 DEF Calls!Inv, Calls!Sound, Calls!Code, Calls!Digit
<1>4. ASSUME NEW s \in Spellings \cup {<<>>}, NEW i, NEW j, Calls!Construct(s, i, j)
      PROVE  Calls!Inv'
  <2>1. s \in Seq(Calls!Range(s))
    <3>1. <<>> \in Seq(Calls!Range(<<>>))
      OBVIOUS
    <3>. QED
      BY <3>1, CallsignsAre
  <2>. QED
    BY <1>1, <1>3, <1>4, <2>1, NamedSound DEF Calls!Construct
<1>5. ASSUME NEW s \in Spellings, NEW u \in BOOLEAN, Calls!SetCallsign(s, u) PROVE Calls!Inv'
  <2>1. s \in Seq(Calls!Range(s))
    BY CallsignsAre
  <2>2. PICK x \in {Calls!WithText(callsign, s), Calls!WithBuffer(callsign, s)} :
          Calls!Becomes(IF u THEN Calls!WithIds(x) ELSE x)
    BY <1>5 DEF Calls!SetCallsign
  <2>3. Calls!Sound(x)
    BY <1>2, <2>1, WithTextSound, WithBufferSound
  <2>. QED
    BY <1>3, <2>2, <2>3, WithIdsSound
<1>6. ASSUME NEW i, NEW u \in BOOLEAN, Calls!SetDmrid(i, u) PROVE Calls!Inv'
  <2>. DEFINE x == [callsign EXCEPT !.dmrid = i]
              y == [x EXCEPT !.letters = Calls!LettersOf(directory.dmr, i, @)]
  <2>1. DOMAIN x = Fields /\ x.letters = callsign.letters /\ x.module = callsign.module
        /\ x.coded = callsign.coded
    BY <1>2 DEF Fields
  <2>2. DOMAIN y = Fields /\ Word(y.letters)
    BY <1>1, <1>2, <2>1, LettersOfWord DEF Fields
  <2>3. Calls!Becomes(IF u THEN Calls!CSIn(y) ELSE x)
    BY <1>6 DEF Calls!SetDmrid
  <2>. HIDE DEF x, y
  <2>4. Calls!Sound(x)
    BY <1>2, <2>1, CodeOf, SoundIs
  <2>. QED
    BY <1>3, <2>2, <2>3, <2>4, CSInSound
<1>7. ASSUME NEW i, NEW u \in BOOLEAN, Calls!SetNXDNid(i, u) PROVE Calls!Inv'
  <2>. DEFINE x == [callsign EXCEPT !.nxdnid = i]
              y == [x EXCEPT !.letters = Calls!LettersOf(directory.nxdn, i, @)]
  <2>1. DOMAIN x = Fields /\ x.letters = callsign.letters /\ x.module = callsign.module
        /\ x.coded = callsign.coded
    BY <1>2 DEF Fields
  <2>2. DOMAIN y = Fields /\ Word(y.letters)
    BY <1>1, <1>2, <2>1, LettersOfWord DEF Fields
  <2>3. Calls!Becomes(IF u THEN Calls!CSIn(y) ELSE x)
    BY <1>7 DEF Calls!SetNXDNid
  <2>. HIDE DEF x, y
  <2>4. Calls!Sound(x)
    BY <1>2, <2>1, CodeOf, SoundIs
  <2>. QED
    BY <1>3, <2>2, <2>3, <2>4, CSInSound
<1>8. ASSUME NEW m, Calls!SetCSModule(m) PROVE Calls!Inv'
  BY <1>1, <1>3, <1>8, WithModuleSound DEF Calls!SetCSModule
<1>9. ASSUME NEW p \in Patches, Calls!PatchCallsign(p) PROVE Calls!Inv'
  <2>. DEFINE l == p \o SubSeq(callsign.letters, 4, 8)
              x == [callsign EXCEPT !.letters = l]
  <2>1. Word(l)
    BY <1>2, PatchedWord
  <2>2. DOMAIN x = Fields /\ x.letters = l
    BY <1>2 DEF Fields
  <2>3. Calls!Becomes(Calls!CSIn(x))
    BY <1>9 DEF Calls!PatchCallsign
  <2>. HIDE DEF l, x
  <2>. QED
    BY <1>3, <2>1, <2>2, <2>3, CSInSound
<1>10. ASSUME NEW t \in Addresses, Calls!CodeIn(t) PROVE Calls!Inv'
  <2>1. t \in Seq(Calls!Range(t))
    BY CallsignsAre
  <2>. QED
    BY <1>1, <1>3, <1>10, <2>1, WithAddressSound DEF Calls!CodeIn
<1>11. ASSUME NEW s \in Spellings, NEW m, Calls!TakeHeader(s, m) PROVE Calls!Inv'
  BY <1>1, <1>3, <1>11, HeadersSound DEF Calls!TakeHeader
<1>12. ASSUME NEW i, Calls!Interlink(i) PROVE Calls!Inv'
  BY <1>1, <1>3, <1>12, OverLinkSound DEF Calls!Interlink
<1>13. CASE Calls!Reload \/ UNCHANGED callsignsVars
  <2>1. callsign' = callsign /\ directory' \in Directories
    BY <1>1, <1>13 DEF Calls!Reload, callsignsVars
  <2>. QED
    BY <1>1, <2>1 DEF Calls!Inv, Calls!Sound, Calls!Code, Calls!Digit
<1>. QED
  BY <1>4, <1>5, <1>6, <1>7, <1>8, <1>9, <1>10, <1>11, <1>12, <1>13 DEF Calls!Next

\* Its address and its bytes are those of the callsign: see Callsigns!Inv.
CallsignsInv == part = "callsigns" => Calls!Inv

LEMMA CallsignsInductive == Spec => []CallsignsInv
<1>1. Init => CallsignsInv
  BY CallsignsInit DEF Init, CallsignsInv
<1>2. ASSUME CallsignsInv, [Next]_vars PROVE CallsignsInv'
  BY <1>2, PartStays, CallsignsSteps, CallsignsInvariance DEF CallsignsInv
<1>. QED
  BY <1>1, <1>2, PTL DEF Spec

\* The address that CSIn makes is read by CodeIn as the letters and the module.
LEMMA AddressRead ==
  ASSUME NEW x, Calls!Sound(x), x.coded # Calls!TooLarge
  PROVE  LET read == Calls!WithAddress(Calls!Blank(0), x.coded)
         IN  read.letters = Calls!Coded(x) /\ read.module = Calls!Digit(x.module)
<1>. DEFINE a == Calls!Code(x)
            S == {a[i] : i \in 1..9}
            t == Calls!TextOf(a)
            y == Calls!WithText(Calls!Blank(0), t)
<1>1. x.coded = a /\ a # Calls!TooLarge /\ x.letters[8] = Calls!Space
  BY DEF Calls!Sound
<1>2. /\ a = [i \in 1..9 |-> a[i]]
      /\ \A i \in 1..7 : a[i] = Calls!Digit(x.letters[i])
      /\ a[8] = Calls!Space /\ a[9] = Calls!Digit(x.module)
  BY DEF Calls!Code
<1>. HIDE DEF a
<1>3. a \in [1..9 -> S]
  BY <1>2
<1>. HIDE DEF S
<1>4. a \in Seq(S) /\ Len(a) = 9
  <2>1. PICK n \in Nat : n = 9
    OBVIOUS
  <2>2. a \in [1..n -> S]
    BY <1>3, <2>1
  <2>3. a \in Seq(S) /\ Len(a) = n
    BY <2>2
  <2>. QED
    BY <2>1, <2>3
<1>5. t \in Seq(S) /\ \E k \in 0..Len(a) : CutAt(t, a, k)
  BY <1>4, TextOfIs
<1>6. PICK k \in 0..Len(a) : CutAt(t, a, k)
  BY <1>5
<1>7. k \in 0..9 /\ Len(t) = k
  BY <1>4, <1>6 DEF CutAt
<1>8. /\ \A i \in 1..9 : i <= k => t[i] = a[i]
      /\ \A i \in 1..9 : i > k => a[i] = Calls!Space
      /\ k > 0 => a[k] # Calls!Space
  BY <1>4, <1>6, <1>7 DEF CutAt
<1>9. Calls!Sound(y) /\ Takes(y, t)
  BY <1>5, BlankSound, SoundIs, WithTextSound
<1>. HIDE DEF t, y
<1>10. \A i \in 1..7 : y.letters[i] = a[i]
  <2>1. ASSUME NEW i \in 1..7 PROVE y.letters[i] = a[i]
    <3>1. CASE i <= k
      BY <1>7, <1>8, <1>9, <3>1 DEF Takes
    <3>2. CASE i > k
      BY <1>7, <1>8, <1>9, <3>2 DEF Takes
    <3>. QED
      BY <1>7, <3>1, <3>2
  <2>. QED
    BY <2>1
<1>11. y.letters = Calls!Coded(x)
  <2>1. y.letters \in [1..8 -> Calls!Range(y.letters)] /\ y.letters[8] = Calls!Space
    BY <1>9 DEF Calls!Sound
  <2>2. Calls!Digit(x.letters[8]) = Calls!Space
    BY <1>1 DEF Calls!Digit
  <2>3. \A i \in 1..8 : y.letters[i] = Calls!Digit(x.letters[i])
    <3>1. \A i \in 1..8 : i \in 1..7 \/ i = 8
      OBVIOUS
    <3>. QED
      BY <1>2, <1>10, <2>1, <2>2, <3>1
  <2>4. Calls!Coded(x) = [i \in 1..8 |-> Calls!Digit(x.letters[i])]
    BY DEF Calls!Coded
  <2>. QED
    BY <2>1, <2>3, <2>4
<1>12. y.module = a[9]
  <2>1. CASE k >= 8
    <3>1. k # 8
      BY <1>2, <1>8
    <3>2. k = 9
      BY <1>7, <2>1, <3>1
    <3>3. t[9] = a[9]
      BY <1>8, <3>2
    <3>. QED
      BY <1>7, <1>9, <3>2, <3>3 DEF Takes
  <2>2. CASE ~(k >= 8)
    <3>1. a[9] = Calls!Space
      BY <1>7, <1>8, <2>2
    <3>. QED
      BY <1>7, <1>9, <2>2, <3>1 DEF Takes
  <2>. QED
    BY <2>1, <2>2
<1>13. Calls!WithAddress(Calls!Blank(0), x.coded) = Calls!WithIds(y)
  BY <1>1 DEF Calls!WithAddress, y, t
<1>. QED
  BY <1>2, <1>9, <1>11, <1>12, <1>13, WithIdsSound

\* Who reads the M17 address of a callsign, or the bytes of it, gets the callsign
\* and the module, whatever it went through: see Callsigns!HeardAsSent.
THEOREM HeardAsSentCorrect == Spec => []HeardAsSent
<1>1. ASSUME CallsignsInv PROVE HeardAsSent
  <2>1. SUFFICES ASSUME part = "callsigns" PROVE Calls!HeardAsSent
    BY DEF HeardAsSent
  <2>2. Calls!Sound(callsign)
    BY <1>1, <2>1 DEF CallsignsInv, Calls!Inv
  <2>. QED
    BY <2>2, AddressRead, OverLinkSound DEF Calls!HeardAsSent
<1>. QED
  BY <1>1, CallsignsInductive, PTL

-----------------------------------------------------------------------------
(***************************************************************************)
(* The answers of Wires-X (WiresX).                                        *)
(***************************************************************************)

LEMMA WiresXSteps ==
  ASSUME [Next]_vars, part = "wires_x"
  PROVE  Wirex!Next \/ UNCHANGED wiresXVars
BY DEF Next, InIds, InLists, InDirectory, InService, InSessions, InWiresX, InConfiguration,
       InCallsigns, vars

LEMMA WiresXIs == Rooms \in Nat /\ FirstRoom \in 0..Rooms /\ Starts \subseteq Int
BY PartsAssumption DEF Wirex!WiresXAssumption

\* The sizes of answers; the blocks and frames hold all of the bytes.
LEMMA SizesAre ==
  ASSUME NEW size \in Wirex!Sizes
  PROVE  size \in 33..1033 /\ size % 40 > 0
<1>1. size = 91 \/ size = 129 \/ \E n \in 0..20 : size = 29 + 50 * n + 4
  BY DEF Wirex!Sizes, Wirex!ListSize
<1>2. ASSUME NEW n \in 0..20, size = 29 + 50 * n + 4 PROVE size \in 33..1033 /\ size % 40 > 0
  BY <1>2
<1>3. CASE size = 91 \/ size = 129
  BY <1>3
<1>. QED
  BY <1>1, <1>2, <1>3

LEMMA BlocksAre ==
  ASSUME NEW size \in Wirex!Sizes
  PROVE  /\ Wirex!LaterBlocks(size) \in 0..3
         /\ Wirex!LaterBlocks(size) = 0 => size <= 260
         /\ Wirex!LaterBlocks(size) > 0 => 260 + 259 * Wirex!LaterBlocks(size) >= size
                                           /\ size > 260
<1>1. size \in 33..1033
  BY SizesAre
<1>2. CASE size > 260
  <2>1. (size - 260) \div 259 \in 0..2 /\ 259 * ((size - 260) \div 259) + 258 >= size - 260
    BY <1>1, <1>2
  <2>2. Wirex!LaterBlocks(size) = 1 + (size - 260) \div 259
    BY <1>2 DEF Wirex!LaterBlocks
  <2>. QED
    BY <1>1, <1>2, <2>1, <2>2
<1>3. CASE size <= 260
  BY <1>1, <1>3 DEF Wirex!LaterBlocks
<1>. QED
  BY <1>1, <1>2, <1>3

LEMMA FramesAre ==
  ASSUME NEW size \in Wirex!Sizes
  PROVE  LET bt == Wirex!LaterBlocks(size)
             ft == Wirex!Frames(size) - 1
         IN  /\ ft \in 1..7 /\ Wirex!CalcFt(Wirex!Filled(size)) = ft
             /\ bt = 0 => 40 * ft - 20 >= size
             /\ bt > 0 => ft = 7 /\ 260 + 259 * bt >= size
<1>. DEFINE bt == Wirex!LaterBlocks(size)
            l == Wirex!Filled(size)
            q == (size + bt - 20) \div 40
<1>1. size \in 33..1033 /\ size % 40 > 0 /\ bt \in 0..3
  BY SizesAre, BlocksAre
<1>2. bt = 0 => size <= 260
  BY BlocksAre
<1>3. bt > 0 => 260 + 259 * bt >= size /\ size > 260
  BY BlocksAre
<1>4. Wirex!Frames(size) = Wirex!CalcFt(l) + 1
  BY DEF Wirex!Frames
<1>5. l = IF size + bt > 20
          THEN 40 * (((size + bt) - 20) \div 40 + IF (size + bt) % 40 > 0 THEN 1 ELSE 0) + 20
          ELSE 20
  BY DEF Wirex!Filled
<1>. HIDE DEF bt, l
<1>6. q \in Nat /\ 40 * q <= size + bt - 20 /\ size + bt - 20 < 40 * q + 40
  BY <1>1
<1>7. CASE bt = 0
  <2>1. l = 40 * (q + 1) + 20 /\ size + bt = size
    BY <1>1, <1>5, <1>7
  <2>2. q \in 0..6
    BY <1>1, <1>2, <1>6, <1>7
  <2>. HIDE DEF q
  <2>3. q = 0 \/ q = 1 \/ q = 2 \/ q = 3 \/ q = 4 \/ q = 5 \/ q = 6
    BY <2>2
  <2>4. /\ Wirex!CalcFt(l) \in 1..7
        /\ 40 * Wirex!CalcFt(l) - 20 >= size
    BY <1>1, <1>2, <1>6, <1>7, <2>1, <2>3 DEF Wirex!CalcFt
  <2>. QED
    BY <1>4, <1>7, <2>4 DEF l, bt
<1>8. CASE bt > 0
  <2>1. q >= 6
    BY <1>1, <1>3, <1>8
  <2>2. l \in Nat /\ l > 220
    <3>. HIDE DEF q
    <3>1. l = 40 * q + 20 \/ l = 40 * (q + 1) + 20
      BY <1>1, <1>5, <1>8 DEF q
    <3>. QED
      BY <1>6, <2>1, <3>1
  <2>3. Wirex!CalcFt(l) = 7
    BY <2>2 DEF Wirex!CalcFt
  <2>. QED
    BY <1>3, <1>4, <1>8, <2>3 DEF l, bt
<1>. QED
  BY <1>1, <1>7, <1>8

\* Where a frame of the data stands among all.
LEMMA PositionIs ==
  ASSUME NEW frames \in 2..8, NEW bn \in 0..3, NEW fn \in 0..frames - 1
  PROVE  LET k == bn * frames + fn
         IN  /\ k \in Nat /\ k \div frames = bn /\ k % frames = fn
             /\ k + 1 = bn * frames + (fn + 1)
             /\ fn = frames - 1 => k + 1 = (bn + 1) * frames + 0
             /\ \A bt \in 0..3 : bn <= bt => k < frames * (bt + 1)
             /\ fn = frames - 1 => k + 1 = frames * (bn + 1)
<1>1. frames = 2 \/ frames = 3 \/ frames = 4 \/ frames = 5 \/ frames = 6 \/ frames = 7 \/ frames = 8
  OBVIOUS
<1>2. CASE frames = 2 BY <1>2
<1>3. CASE frames = 3 BY <1>3
<1>4. CASE frames = 4 BY <1>4
<1>5. CASE frames = 5 BY <1>5
<1>6. CASE frames = 6 BY <1>6
<1>7. CASE frames = 7 BY <1>7
<1>8. CASE frames = 8 BY <1>8
<1>. QED
  BY <1>1, <1>2, <1>3, <1>4, <1>5, <1>6, <1>7, <1>8

LEMMA PositionOf ==
  ASSUME NEW frames \in 2..8, NEW bt \in 0..3, NEW k \in 0..frames * (bt + 1) - 1
  PROVE  /\ k \div frames \in 0..bt /\ k % frames \in 0..frames - 1
         /\ k = (k \div frames) * frames + (k % frames)
<1>1. frames = 2 \/ frames = 3 \/ frames = 4 \/ frames = 5 \/ frames = 6 \/ frames = 7 \/ frames = 8
  OBVIOUS
<1>2. CASE frames = 2 BY <1>2
<1>3. CASE frames = 3 BY <1>3
<1>4. CASE frames = 4 BY <1>4
<1>5. CASE frames = 5 BY <1>5
<1>6. CASE frames = 6 BY <1>6
<1>7. CASE frames = 7 BY <1>7
<1>8. CASE frames = 8 BY <1>8
<1>. QED
  BY <1>1, <1>2, <1>3, <1>4, <1>5, <1>6, <1>7, <1>8

\* The frames follow one another without a gap.
LEMMA OffsetsAre ==
  ASSUME NEW ft \in 1..7, NEW bn \in 0..3, NEW fn \in 0..ft
  PROVE  LET here == Wirex!Offset(bn, fn, ft)
         IN  /\ here \in Nat
             /\ fn < ft => here + Wirex!Piece(bn, fn) = Wirex!Offset(bn, fn + 1, ft)
             /\ fn = ft => here + Wirex!Piece(bn, fn) = Wirex!Offset(bn + 1, 0, ft)
<1>. DEFINE base(b) == IF b = 0 THEN 0 ELSE 40 * ft - 20 + (b - 1) * (40 * ft - 21)
            within(b, f) == IF f < 2 THEN 0 ELSE (IF b = 0 THEN 20 ELSE 19) + 40 * (f - 2)
<1>1. \A b, f : Wirex!Offset(b, f, ft) = base(b) + within(b, f)
  BY DEF Wirex!Offset
<1>2. /\ base(0) = 0 /\ base(1) = 40 * ft - 20 /\ base(2) = 80 * ft - 41
      /\ base(3) = 120 * ft - 62 /\ base(4) = 160 * ft - 83
  OBVIOUS
<1>3. /\ base(bn) \in Nat /\ base(bn + 1) \in Nat
      /\ base(bn + 1) = base(bn) + 40 * ft - IF bn = 0 THEN 20 ELSE 21
  <2>1. bn = 0 \/ bn = 1 \/ bn = 2 \/ bn = 3
    OBVIOUS
  <2>2. CASE bn = 0 BY <1>2, <2>2
  <2>3. CASE bn = 1 BY <1>2, <2>3
  <2>4. CASE bn = 2 BY <1>2, <2>4
  <2>5. CASE bn = 3 BY <1>2, <2>5
  <2>. QED
    BY <2>1, <2>2, <2>3, <2>4, <2>5
<1>4. /\ within(bn, fn) \in Nat /\ within(bn + 1, 0) = 0
      /\ fn < ft => within(bn, fn + 1) = within(bn, fn) + Wirex!Piece(bn, fn)
      /\ fn = ft => within(bn, fn) + Wirex!Piece(bn, fn) = 40 * ft - IF bn = 0 THEN 20 ELSE 21
  <2>1. CASE fn = 0
    BY <2>1 DEF Wirex!Piece
  <2>2. CASE fn = 1
    BY <2>2 DEF Wirex!Piece
  <2>3. CASE fn > 1
    BY <2>3 DEF Wirex!Piece
  <2>. QED
    BY <2>1, <2>2, <2>3
<1>5. Wirex!Piece(bn, fn) \in Nat
  BY DEF Wirex!Piece
<1>. HIDE DEF base, within
<1>. QED
  BY <1>1, <1>3, <1>4, <1>5

Tasks == [at : {"header", "payload", "trailer", "move"}, size : Wirex!Sizes,
          again : Wirex!Sizes \cup {0}, room : Int, bn : 0..3, fn : 0..7, offset : Nat]
Asked == [cmd : {"DX_REQ", "DISC_REQ", "UNKNOWN", "ALL_REQ", "SEARCH_REQ", "CONN_REQ"},
          arg : Int, ripe : BOOLEAN]

LEMMA TaskIs ==
  Wirex!Inv => /\ cmds \in Seq(Asked)
               /\ handler = Wirex!Idle \/ handler \in Tasks
               /\ handler.at # "idle" => handler \in Tasks
BY DEF Wirex!Inv, Tasks, Asked, Wirex!Idle

LEMMA AnswerIs ==
  ASSUME NEW c \in Asked
  PROVE  \/ Wirex!Answer(c) = Wirex!Idle
         \/ /\ Wirex!Answer(c) \in Tasks /\ Wirex!Answer(c).at = "header"
            /\ Wirex!Answer(c).bn = 0 /\ Wirex!Answer(c).fn = 0 /\ Wirex!Answer(c).offset = 0
<1>. DEFINE Good(t) == \/ t = Wirex!Idle
                       \/ t \in Tasks /\ t.at = "header" /\ t.bn = 0 /\ t.fn = 0 /\ t.offset = 0
<1>1. ASSUME NEW size \in Wirex!Sizes, NEW again \in Wirex!Sizes \cup {0}, NEW room \in Int
      PROVE  Good(Wirex!Answering(size, again, room))
  BY DEF Wirex!Answering, Tasks
<1>2. 91 \in Wirex!Sizes /\ 129 \in Wirex!Sizes /\ 1033 \in Wirex!Sizes
  BY DEF Wirex!Sizes, Wirex!ListSize
<1>3. Wirex!Nowhere \in Int /\ c.arg \in Int
  BY DEF Wirex!Nowhere, Asked
<1>4. Wirex!ListSize(Wirex!Entries(c.arg)) \in Wirex!Sizes
  <2>1. Wirex!Entries(c.arg) \in 0..20
    BY <1>3, WiresXIs DEF Wirex!Entries
  <2>. QED
    BY <2>1 DEF Wirex!Sizes
<1>. HIDE DEF Good
<1>5. ASSUME c.cmd = "DX_REQ" PROVE Good(Wirex!Answer(c))
  BY <1>1, <1>2, <1>3, <1>5 DEF Wirex!Answer
<1>6. ASSUME c.cmd \in {"ALL_REQ", "SEARCH_REQ"} PROVE Good(Wirex!Answer(c))
  <2>. DEFINE n == Wirex!Entries(c.arg)
  <2>1. Wirex!Answer(c) = IF n < 20 THEN Wirex!Answering(1033, Wirex!ListSize(n), Wirex!Nowhere)
                          ELSE Wirex!Answering(Wirex!ListSize(n), 0, Wirex!Nowhere)
    BY <1>6 DEF Wirex!Answer
  <2>. QED
    BY <1>1, <1>2, <1>3, <1>4, <2>1
<1>7. ASSUME c.cmd = "CONN_REQ" /\ c.arg \in 1..Rooms PROVE Good(Wirex!Answer(c))
  <2>1. Wirex!Answer(c) = Wirex!Answering(91, 0, c.arg)
    BY <1>7 DEF Wirex!Answer
  <2>. QED
    BY <1>1, <1>2, <1>3, <2>1
<1>8. ASSUME c.cmd = "DISC_REQ" PROVE Good(Wirex!Answer(c))
  <2>1. Wirex!Answer(c) = Wirex!Answering(91, 0, 0)
    BY <1>8 DEF Wirex!Answer
  <2>. QED
    BY <1>1, <1>2, <2>1
<1>9. ASSUME ~(\/ c.cmd = "DX_REQ" \/ c.cmd \in {"ALL_REQ", "SEARCH_REQ"} \/ c.cmd = "DISC_REQ"
               \/ c.cmd = "CONN_REQ" /\ c.arg \in 1..Rooms)
      PROVE  Good(Wirex!Answer(c))
  <2>1. Wirex!Answer(c) = Wirex!Idle
    BY <1>9 DEF Wirex!Answer
  <2>. QED
    BY <2>1 DEF Good
<1>10. Good(Wirex!Answer(c))
  BY <1>5, <1>6, <1>7, <1>8, <1>9
<1>. QED
  BY <1>10 DEF Good

LEMMA TotalIs ==
  ASSUME NEW size \in Wirex!Sizes
  PROVE  /\ Wirex!Frames(size) \in 2..8 /\ Wirex!LaterBlocks(size) \in 0..3
         /\ Wirex!Total(size) = Wirex!Frames(size) * (Wirex!LaterBlocks(size) + 1)
         /\ Wirex!Total(size) \in Nat
<1>1. Wirex!Frames(size) - 1 \in 1..7 /\ Wirex!Frames(size) = Wirex!CalcFt(Wirex!Filled(size)) + 1
  BY FramesAre DEF Wirex!Frames
<1>2. Wirex!Frames(size) \in 2..8
  BY <1>1, FramesAre
<1>. QED
  BY <1>2, BlocksAre DEF Wirex!Total

\* A frame more of an answer, and the first of the next.
LEMMA AnswerGrows ==
  ASSUME NEW S, NEW s \in Seq(S), NEW f, NEW from \in 1..Len(s), NEW size \in Wirex!Sizes,
         Wirex!IsAnswer(s, from, size), Len(s) - from <= Wirex!Total(size),
         Wirex!IsFrame(f, size, Len(s) + 1 - from)
  PROVE  /\ Wirex!IsAnswer(Append(s, f), from, size)
         /\ from \in 1..Len(Append(s, f)) /\ Len(Append(s, f)) = Len(s) + 1
<1>1. Wirex!Total(size) \in Nat
  BY TotalIs
<1>2. Len(Append(s, f)) = Len(s) + 1 /\ Len(s) \in Nat
  OBVIOUS
<1>3. ASSUME NEW i \in from..Len(s) + 1 PROVE Wirex!IsFrame(Append(s, f)[i], size, i - from)
  <2>1. CASE i <= Len(s)
    <3>1. Append(s, f)[i] = s[i]
      BY <2>1
    <3>. QED
      BY <2>1, <3>1 DEF Wirex!IsAnswer
  <2>2. CASE i = Len(s) + 1
    <3>1. Append(s, f)[i] = f
      BY <2>2
    <3>. QED
      BY <2>2, <3>1
  <2>. QED
    BY <1>2, <2>1, <2>2
<1>. QED
  BY <1>1, <1>2, <1>3 DEF Wirex!IsAnswer

LEMMA AnswerBegins ==
  ASSUME NEW S, NEW s \in Seq(S), NEW f, NEW size \in Wirex!Sizes, Wirex!IsFrame(f, size, 0)
  PROVE  /\ Wirex!IsAnswer(Append(s, f), Len(s) + 1, size)
         /\ Len(s) + 1 \in 1..Len(Append(s, f)) /\ Len(Append(s, f)) = Len(s) + 1
<1>1. Wirex!Total(size) \in Nat
  BY TotalIs
<1>2. Len(Append(s, f)) = Len(s) + 1 /\ Len(s) \in Nat /\ Append(s, f)[Len(s) + 1] = f
  OBVIOUS
<1>. QED
  BY <1>1, <1>2 DEF Wirex!IsAnswer

LEMMA OverRange == ASSUME NEW S, NEW s \in Seq(S) PROVE s \in Seq(Wirex!Range(s))
BY DEF Wirex!Range

LEMMA JoinAppend ==
  ASSUME NEW S, NEW s \in Seq(S), NEW t \in Seq(S), NEW f \in S
  PROVE  s \o Append(t, f) = Append(s \o t, f)
<1>. DEFINE l == s \o Append(t, f)
            r == Append(s \o t, f)
<1>1. /\ l \in Seq(S) /\ r \in Seq(S)
      /\ Len(l) = Len(s) + Len(t) + 1 /\ Len(r) = Len(s) + Len(t) + 1
  OBVIOUS
<1>2. ASSUME NEW i \in 1..Len(s) + Len(t) + 1 PROVE l[i] = r[i]
  <2>1. CASE i <= Len(s)
    BY <2>1
  <2>2. CASE i \in Len(s) + 1..Len(s) + Len(t)
    <3>1. l[i] = Append(t, f)[i - Len(s)] /\ r[i] = (s \o t)[i]
      BY <2>2
    <3>. QED
      BY <2>2, <3>1
  <2>3. CASE i = Len(s) + Len(t) + 1
    <3>1. l[i] = Append(t, f)[i - Len(s)] /\ r[i] = f
      BY <2>3
    <3>. QED
      BY <2>3, <3>1
  <2>. QED
    BY <2>1, <2>2, <2>3
<1>. HIDE DEF l, r
<1>3. l = r
  BY <1>1, <1>2, SeqEqual
<1>. QED
  BY <1>3 DEF l, r

\* What the radio has got and what is on its way.
Answered == heard \o toClient

LEMMA AnsweredIs ==
  ASSUME Wirex!Inv
  PROVE  /\ Answered \in Seq(Wirex!Range(heard) \cup Wirex!Range(toClient))
         /\ \A f : heard \o Append(toClient, f) = Append(Answered, f)
         /\ \A f : Append(toClient, f) \in Seq(Wirex!Range(Append(toClient, f)))
<1>. DEFINE S == Wirex!Range(heard) \cup Wirex!Range(toClient)
<1>1. heard \in Seq(Wirex!Range(heard)) /\ toClient \in Seq(Wirex!Range(toClient))
  BY DEF Wirex!Inv
<1>2. heard \in Seq(S) /\ toClient \in Seq(S)
  BY <1>1 DEF Wirex!Range
<1>. HIDE DEF S
<1>3. Answered \in Seq(S)
  BY <1>2 DEF Answered
<1>4. ASSUME NEW f
      PROVE  /\ heard \o Append(toClient, f) = Append(Answered, f)
             /\ Append(toClient, f) \in Seq(Wirex!Range(Append(toClient, f)))
  <2>. DEFINE U == S \cup {f}
  <2>1. heard \in Seq(U) /\ toClient \in Seq(U) /\ f \in U
    BY <1>2
  <2>. HIDE DEF U
  <2>2. Append(toClient, f) \in Seq(U)
    BY <2>1
  <2>3. heard \o Append(toClient, f) = Append(heard \o toClient, f)
    BY ONLY <2>1, JoinAppend
  <2>4. Append(toClient, f) \in Seq(Wirex!Range(Append(toClient, f)))
    BY ONLY <2>2, OverRange
  <2>. QED
    BY <2>3, <2>4 DEF Answered
<1>. QED
  BY <1>3, <1>4 DEF S

\* An answer that has begun with an index, and is as far as the thread.
AsFar(from, size) ==
  /\ from \in DOMAIN Answered /\ size \in Wirex!Sizes
  /\ Wirex!IsAnswer(Answered, from, size)
  /\ Wirex!Sending => size = handler.size /\ Len(Answered) - from = Wirex!Sent

LEMMA StartedIs ==
  Wirex!Started(heard \o toClient)
    <=> (Answered = <<>> /\ ~Wirex!Sending) \/ \E from, size : AsFar(from, size)
BY DEF Wirex!Started, Answered, AsFar

LEMMA WiresXInit == ASSUME Wirex!Init PROVE Wirex!Inv
<1>1. heard \o toClient = <<>> /\ heard = <<>> /\ toClient = <<>> /\ cmds = <<>>
  BY DEF Wirex!Init
<1>2. handler = Wirex!Idle /\ handler.at = "idle"
  BY DEF Wirex!Init, Wirex!Idle
<1>. QED
  BY <1>1, <1>2 DEF Wirex!Inv, Wirex!Started, Wirex!Sending

\* Nothing is heard or sent, and the thread is not sending.
LEMMA QuietStep ==
  ASSUME Wirex!Inv, UNCHANGED <<toClient, heard>>, cmds' \in Seq(Asked),
         \/ handler' = handler
         \/ handler' = Wirex!Idle
         \/ /\ handler' \in Tasks /\ handler'.at = "header"
            /\ handler'.bn = 0 /\ handler'.fn = 0 /\ handler'.offset = 0
  PROVE  Wirex!Inv'
<1>1. CASE handler' = handler
  BY <1>1 DEF Wirex!Inv, Wirex!Started, Wirex!Sending, Wirex!Sent, Asked
<1>2. CASE handler' = Wirex!Idle \/ handler'.at = "header"
  <2>1. ~Wirex!Sending'
    BY <1>2 DEF Wirex!Sending, Wirex!Idle
  <2>2. Wirex!Started(heard \o toClient)'
    BY <2>1 DEF Wirex!Inv, Wirex!Started
  <2>3. handler'.at # "payload"
    BY <1>2 DEF Wirex!Idle
  <2>. QED
    BY <1>2, <2>2, <2>3 DEF Wirex!Inv, Tasks, Asked, Wirex!Idle
<1>. QED
  BY <1>1, <1>2

LEMMA FrameIs ==
  ASSUME NEW fi, NEW bn, NEW fn, NEW bytes, handler \in Tasks
  PROVE  LET f == Wirex!Frame(fi, bn, fn, bytes)
         IN  /\ f.fi = fi /\ f.bn = bn /\ f.fn = fn /\ f.size = handler.size
             /\ f.bt = Wirex!LaterBlocks(handler.size) /\ f.ft = Wirex!Frames(handler.size) - 1
             /\ f.from = handler.offset /\ f.to = handler.offset + bytes
<1>1. handler.size \in Wirex!Sizes
  BY DEF Tasks
<1>2. Wirex!CalcFt(Wirex!Filled(handler.size)) = Wirex!Frames(handler.size) - 1
  BY <1>1, FramesAre
<1>. QED
  BY <1>2 DEF Wirex!Frame

LEMMA SendIs ==
  ASSUME Wirex!Inv, NEW f, Wirex!SendPacket(f), UNCHANGED heard
  PROVE  /\ Answered' = Append(Answered, f)
         /\ toClient' \in Seq(Wirex!Range(toClient'))
         /\ heard \in Seq(Wirex!Range(heard))
         /\ heard # <<>> => \E size \in Wirex!Sizes : Wirex!IsAnswer(heard, 1, size)
<1>1. toClient' = Append(toClient, f) /\ heard' = heard
  BY DEF Wirex!SendPacket
<1>2. Answered' = heard \o Append(toClient, f)
  BY <1>1 DEF Answered
<1>. QED
  BY <1>1, <1>2, AnsweredIs DEF Wirex!Inv

LEMMA HeaderKeepsInv == ASSUME Wirex!Inv, Wirex!SendHeader PROVE Wirex!Inv'
<1>. DEFINE f == Wirex!Frame("header", 0, 0, 0)
            size == handler.size
            from == Len(Answered) + 1
<1>1. /\ handler \in Tasks /\ size \in Wirex!Sizes /\ handler.at = "header"
      /\ handler.bn = 0 /\ handler.fn = 0 /\ handler.offset = 0
  BY TaskIs DEF Wirex!Inv, Wirex!SendHeader, Tasks
<1>2. Wirex!SendPacket(f) /\ UNCHANGED <<client, cmds, heard>>
  BY DEF Wirex!SendHeader
<1>3. handler' = [handler EXCEPT !.at = "payload"]
  BY DEF Wirex!SendHeader
<1>4. /\ handler' \in Tasks /\ handler'.at = "payload" /\ handler'.size = size
      /\ handler'.bn = 0 /\ handler'.fn = 0 /\ handler'.offset = 0
  BY <1>1, <1>3 DEF Tasks
<1>5. Answered' = Append(Answered, f)
  BY <1>2, SendIs
<1>6. Wirex!Total(size) \in Nat /\ Wirex!Frames(size) \in 2..8 /\ Wirex!LaterBlocks(size) \in 0..3
  BY <1>1, TotalIs
<1>7. Wirex!IsFrame(f, size, 0)
  <2>1. f.fi = "header" /\ f.size = size /\ f.bt = Wirex!LaterBlocks(size)
        /\ f.ft = Wirex!Frames(size) - 1
    BY <1>1, FrameIs
  <2>. HIDE DEF f
  <2>. QED
    BY <1>6, <2>1 DEF Wirex!IsFrame
<1>. HIDE DEF f, size
<1>8. /\ Wirex!IsAnswer(Answered', from, size) /\ from \in 1..Len(Answered')
      /\ Len(Answered') = Len(Answered) + 1 /\ Len(Answered) \in Nat
      /\ from \in DOMAIN Answered'
  BY <1>1, <1>5, <1>7, AnsweredIs, AnswerBegins
<1>9. Wirex!Sent' = 0
  <2>1. Wirex!Sent' = 0 * Wirex!Frames(size) + 0
    BY <1>4 DEF Wirex!Sent
  <2>. QED
    BY <1>6, <2>1
<1>10. Wirex!Started(heard \o toClient)'
  <2>1. Len(Answered') - from = Wirex!Sent'
    BY <1>8, <1>9
  <2>. QED
    BY <1>1, <1>4, <1>8, <2>1 DEF Wirex!Started, Answered
<1>11. handler'.offset = Wirex!Offset(0, 0, Wirex!Frames(size) - 1)
  BY <1>4 DEF Wirex!Offset
<1>12. /\ toClient' \in Seq(Wirex!Range(toClient')) /\ heard \in Seq(Wirex!Range(heard))
       /\ heard # <<>> => \E s \in Wirex!Sizes : Wirex!IsAnswer(heard, 1, s)
  BY <1>2, SendIs
<1>13. handler'.bn <= Wirex!LaterBlocks(size) /\ handler'.fn < Wirex!Frames(size)
  BY <1>4, <1>6
<1>. QED
  BY <1>2, <1>4, <1>10, <1>11, <1>12, <1>13, TaskIs DEF Wirex!Inv, Tasks, Asked

\* While the thread sends, the answer is as far as it has come.
LEMMA SendingIs ==
  ASSUME Wirex!Inv, Wirex!Sending
  PROVE  /\ handler \in Tasks /\ handler.size \in Wirex!Sizes
         /\ \E from \in 1..Len(Answered) :
              /\ Wirex!IsAnswer(Answered, from, handler.size)
              /\ Len(Answered) - from = Wirex!Sent
<1>1. handler \in Tasks /\ handler.size \in Wirex!Sizes
  BY TaskIs DEF Wirex!Sending, Tasks
<1>2. \E from, size : AsFar(from, size)
  BY StartedIs DEF Wirex!Inv
<1>3. DOMAIN Answered = 1..Len(Answered)
  BY AnsweredIs
<1>. QED
  BY <1>1, <1>2, <1>3 DEF AsFar

\* The thread sends a frame more of the answer that it is sending.
LEMMA AnswerGoesOn ==
  ASSUME Wirex!Inv, Wirex!Sending, NEW f, Wirex!SendPacket(f), UNCHANGED <<cmds, heard>>,
         Wirex!Sent <= Wirex!Total(handler.size),
         Wirex!IsFrame(f, handler.size, Wirex!Sent + 1),
         handler' \in Tasks \cup {Wirex!Idle},
         Wirex!Sending' => handler'.size = handler.size /\ Wirex!Sent' = Wirex!Sent + 1,
         handler'.at = "header" => handler'.bn = 0 /\ handler'.fn = 0 /\ handler'.offset = 0,
         handler'.at = "payload" =>
           /\ handler'.bn <= Wirex!LaterBlocks(handler'.size)
           /\ handler'.fn < Wirex!Frames(handler'.size)
           /\ handler'.offset
                = Wirex!Offset(handler'.bn, handler'.fn, Wirex!Frames(handler'.size) - 1)
  PROVE  Wirex!Inv'
<1>. DEFINE size == handler.size
<1>1. PICK from \in 1..Len(Answered) :
        Wirex!IsAnswer(Answered, from, size) /\ Len(Answered) - from = Wirex!Sent
  BY SendingIs
<1>2. size \in Wirex!Sizes
  BY SendingIs
<1>3. Answered' = Append(Answered, f)
  BY SendIs
<1>4. PICK S : Answered \in Seq(S)
  BY AnsweredIs
<1>5. Wirex!IsFrame(f, size, Len(Answered) + 1 - from)
  <2>1. Len(Answered) + 1 - from = Wirex!Sent + 1
    BY <1>1, <1>4
  <2>. QED
    BY <2>1
<1>. HIDE DEF size
<1>6. /\ Wirex!IsAnswer(Answered', from, size) /\ from \in 1..Len(Answered')
      /\ Len(Answered') = Len(Answered) + 1 /\ Len(Answered) \in Nat
      /\ from \in DOMAIN Answered'
  <2>1. Len(Answered) - from <= Wirex!Total(size)
    BY <1>1 DEF size
  <2>. QED
    BY <1>1, <1>2, <1>3, <1>4, <1>5, <2>1, AnswerGrows
<1>7. Wirex!Started(heard \o toClient)'
  <2>1. Wirex!Sending' => size = handler'.size /\ Len(Answered') - from = Wirex!Sent'
    BY <1>1, <1>6 DEF size
  <2>. QED
    BY <1>2, <1>6, <2>1 DEF Wirex!Started, Answered
<1>8. /\ toClient' \in Seq(Wirex!Range(toClient')) /\ heard \in Seq(Wirex!Range(heard))
      /\ heard # <<>> => \E s \in Wirex!Sizes : Wirex!IsAnswer(heard, 1, s)
  BY SendIs
<1>. QED
  BY <1>7, <1>8, TaskIs DEF Wirex!Inv, Tasks, Asked

LEMMA PayloadKeepsInv == ASSUME Wirex!Inv, Wirex!SendPayload PROVE Wirex!Inv'
<1>. DEFINE bytes == Wirex!Piece(handler.bn, handler.fn)
            f == Wirex!Frame("communications", handler.bn, handler.fn, bytes)
            size == handler.size
            bn == handler.bn
            fn == handler.fn
            frames == Wirex!Frames(size)
            ft == frames - 1
            bt == Wirex!LaterBlocks(size)
            next == [handler EXCEPT !.offset = @ + bytes]
<1>1. handler.at = "payload" /\ Wirex!Sending
  BY DEF Wirex!SendPayload, Wirex!Sending
<1>2. handler \in Tasks /\ size \in Wirex!Sizes
  BY <1>1, SendingIs
<1>3. Wirex!SendPacket(f) /\ UNCHANGED <<client, cmds, heard>>
  BY DEF Wirex!SendPayload
<1>4. handler' = IF fn < Wirex!CalcFt(Wirex!Filled(size)) THEN [next EXCEPT !.fn = @ + 1]
                 ELSE IF bn < bt THEN [next EXCEPT !.fn = 0, !.bn = @ + 1]
                 ELSE [next EXCEPT !.at = "trailer"]
  BY DEF Wirex!SendPayload
<1>5. /\ Wirex!Total(size) = frames * (bt + 1) /\ Wirex!Total(size) \in Nat
      /\ frames \in 2..8 /\ bt \in 0..3
  BY <1>2, TotalIs
<1>6. /\ bn \in 0..3 /\ bn <= bt /\ fn \in 0..ft /\ handler.offset = Wirex!Offset(bn, fn, ft)
      /\ Wirex!CalcFt(Wirex!Filled(size)) = ft /\ ft \in 1..7
  <2>1. /\ bn <= bt /\ fn < frames /\ handler.offset = Wirex!Offset(bn, fn, ft)
    BY <1>1 DEF Wirex!Inv
  <2>2. bn \in 0..3 /\ fn \in 0..7
    BY <1>2 DEF Tasks
  <2>3. Wirex!CalcFt(Wirex!Filled(size)) = ft
    BY <1>2, FramesAre
  <2>. QED
    BY <1>5, <2>1, <2>2, <2>3
<1>7. Wirex!Sent = bn * frames + fn
  BY <1>1 DEF Wirex!Sent
<1>8. /\ f.fi = "communications" /\ f.bn = bn /\ f.fn = fn /\ f.size = size /\ f.bt = bt
      /\ f.ft = ft /\ f.from = Wirex!Offset(bn, fn, ft) /\ f.to = f.from + bytes
  BY <1>2, <1>6, FrameIs
<1>9. /\ handler.offset \in Nat /\ bytes \in Nat
      /\ fn < ft => handler.offset + bytes = Wirex!Offset(bn, fn + 1, ft)
      /\ fn = ft => handler.offset + bytes = Wirex!Offset(bn + 1, 0, ft)
  <2>1. bytes \in Nat
    BY <1>6 DEF Wirex!Piece
  <2>. QED
    BY <1>6, <2>1, OffsetsAre
<1>. HIDE DEF bytes, f
<1>10. /\ Wirex!Sent \in Nat /\ Wirex!Sent \div frames = bn /\ Wirex!Sent % frames = fn
       /\ fn < ft => Wirex!Sent + 1 = bn * frames + (fn + 1)
       /\ fn = ft => Wirex!Sent + 1 = (bn + 1) * frames + 0 /\ Wirex!Sent + 1 = frames * (bn + 1)
       /\ Wirex!Sent < Wirex!Total(size)
  BY <1>5, <1>6, <1>7, PositionIs
<1>11. Wirex!IsFrame(f, size, Wirex!Sent + 1)
  <2>1. Wirex!IsData(f, size, Wirex!Sent)
    BY <1>8, <1>10 DEF Wirex!IsData, bytes
  <2>2. /\ Wirex!Sent + 1 # 0 /\ Wirex!Sent + 1 # Wirex!Total(size) + 1
        /\ (Wirex!Sent + 1) - 1 = Wirex!Sent
    BY <1>5, <1>10
  <2>. QED
    BY <1>8, <2>1, <2>2 DEF Wirex!IsFrame
<1>12. Wirex!Sent <= Wirex!Total(size)
  BY <1>5, <1>10
<1>13. handler.offset + bytes \in Nat /\ fn + 1 \in Nat
  BY <1>6, <1>9
<1>14. CASE fn < ft
  <2>1. handler' = [next EXCEPT !.fn = @ + 1]
    BY <1>4, <1>6, <1>14
  <2>2. fn + 1 \in 0..7 /\ fn + 1 < frames
    BY <1>5, <1>6, <1>14
  <2>3. /\ handler' \in Tasks /\ handler'.at = "payload" /\ handler'.size = size
        /\ handler'.bn = bn /\ handler'.fn = fn + 1
        /\ handler'.offset = handler.offset + bytes
    BY <1>1, <1>2, <1>13, <2>1, <2>2 DEF Tasks
  <2>4. Wirex!Sent' = Wirex!Sent + 1
    BY <1>10, <1>14, <2>3 DEF Wirex!Sent
  <2>. QED
    BY <1>1, <1>3, <1>6, <1>9, <1>11, <1>12, <1>14, <2>2, <2>3, <2>4, AnswerGoesOn
<1>15. CASE fn = ft /\ bn < bt
  <2>1. handler' = [next EXCEPT !.fn = 0, !.bn = @ + 1]
    BY <1>4, <1>6, <1>15
  <2>2. bn + 1 \in 0..3 /\ bn + 1 <= bt
    BY <1>5, <1>6, <1>15
  <2>3. /\ handler' \in Tasks /\ handler'.at = "payload" /\ handler'.size = size
        /\ handler'.bn = bn + 1 /\ handler'.fn = 0
        /\ handler'.offset = handler.offset + bytes
    <3>1. next \in Tasks /\ next.bn = bn
      BY <1>2, <1>13 DEF Tasks
    <3>2. handler' = [next EXCEPT !.fn = 0, !.bn = bn + 1]
      BY <2>1, <3>1
    <3>. HIDE DEF next
    <3>3. \A b \in 0..3, v \in 0..7 :
            LET new == [next EXCEPT !.fn = v, !.bn = b]
            IN  /\ new \in Tasks /\ new.at = next.at /\ new.size = next.size
                /\ new.bn = b /\ new.fn = v /\ new.offset = next.offset
      BY <3>1 DEF Tasks
    <3>4. 0 \in 0..7
      OBVIOUS
    <3>5. next.at = "payload" /\ next.size = size /\ next.offset = handler.offset + bytes
      BY <1>1, <1>2 DEF next, Tasks
    <3>. QED
      BY <2>2, <3>2, <3>3, <3>4, <3>5
  <2>4. Wirex!Sent' = Wirex!Sent + 1
    BY <1>10, <1>15, <2>3 DEF Wirex!Sent
  <2>. QED
    BY <1>1, <1>3, <1>5, <1>9, <1>11, <1>12, <1>15, <2>2, <2>3, <2>4, AnswerGoesOn
<1>16. CASE fn = ft /\ bn = bt
  <2>1. handler' = [next EXCEPT !.at = "trailer"]
    BY <1>4, <1>6, <1>16
  <2>2. handler' \in Tasks /\ handler'.at = "trailer" /\ handler'.size = size
    BY <1>1, <1>2, <1>13, <2>1 DEF Tasks
  <2>3. Wirex!Sent' = Wirex!Sent + 1
    BY <1>5, <1>10, <1>16, <2>2 DEF Wirex!Sent
  <2>. QED
    BY <1>1, <1>3, <1>11, <1>12, <2>2, <2>3, AnswerGoesOn
<1>. QED
  BY <1>5, <1>6, <1>14, <1>15, <1>16

LEMMA TrailerKeepsInv == ASSUME Wirex!Inv, Wirex!SendTrailer PROVE Wirex!Inv'
<1>. DEFINE size == handler.size
            f == Wirex!Frame("terminator", Wirex!LaterBlocks(size),
                             Wirex!CalcFt(Wirex!Filled(size)), 0)
<1>1. handler.at = "trailer" /\ Wirex!Sending /\ Wirex!Sent = Wirex!Total(size)
  BY DEF Wirex!SendTrailer, Wirex!Sending, Wirex!Sent
<1>2. handler \in Tasks /\ size \in Wirex!Sizes
  BY <1>1, SendingIs
<1>3. Wirex!SendPacket(f) /\ UNCHANGED <<client, cmds, heard>>
  BY DEF Wirex!SendTrailer
<1>4. Wirex!Total(size) \in Nat
  BY <1>2, TotalIs
<1>5. Wirex!IsFrame(f, size, Wirex!Sent + 1)
  <2>1. f.fi = "terminator" /\ f.size = size /\ f.bt = Wirex!LaterBlocks(size)
        /\ f.ft = Wirex!Frames(size) - 1
    BY <1>2, FrameIs
  <2>. HIDE DEF f
  <2>2. /\ Wirex!Sent + 1 # 0 /\ Wirex!Sent + 1 = Wirex!Total(size) + 1
        /\ Wirex!Sent + 1 \notin 1..Wirex!Total(size)
    BY <1>1, <1>4
  <2>. QED
    BY <2>1, <2>2 DEF Wirex!IsFrame
<1>6. /\ handler' \in Tasks \cup {Wirex!Idle} /\ handler'.at \in {"header", "move", "idle"}
      /\ handler'.at = "header" => handler'.bn = 0 /\ handler'.fn = 0 /\ handler'.offset = 0
  <2>1. handler' = IF handler.again # 0 THEN Wirex!Answering(handler.again, 0, Wirex!Nowhere)
                   ELSE IF handler.room # Wirex!Nowhere THEN [handler EXCEPT !.at = "move"]
                   ELSE Wirex!Idle
    BY DEF Wirex!SendTrailer
  <2>2. CASE handler.again # 0
    <3>1. handler.again \in Wirex!Sizes /\ Wirex!Nowhere \in Int
      BY <1>2, <2>2 DEF Tasks, Wirex!Nowhere
    <3>. QED
      BY <2>1, <2>2, <3>1 DEF Wirex!Answering, Tasks
  <2>3. CASE handler.again = 0 /\ handler.room # Wirex!Nowhere
    BY <1>2, <2>1, <2>3 DEF Tasks
  <2>4. CASE handler.again = 0 /\ handler.room = Wirex!Nowhere
    BY <2>1, <2>4 DEF Wirex!Idle
  <2>. QED
    BY <2>2, <2>3, <2>4
<1>7. ~Wirex!Sending' /\ handler'.at # "payload"
  BY <1>6 DEF Wirex!Sending
<1>8. Wirex!Sent <= Wirex!Total(size)
  BY <1>1, <1>4
<1>. HIDE DEF f
<1>. QED
  BY <1>1, <1>3, <1>5, <1>6, <1>7, <1>8, AnswerGoesOn

\* What follows the last header is the answer that the radio then has got.
LEMMA FlushKeepsInv == ASSUME Wirex!Inv, Wirex!Flush PROVE Wirex!Inv'
<1>. DEFINE headers == {i \in DOMAIN Answered : Answered[i].fi = "header"}
<1>1. /\ toClient # <<>> /\ toClient' = <<>> /\ UNCHANGED <<client, cmds, handler>>
      /\ heard' = SubSeq(Answered, Wirex!Max(headers), Len(Answered))
  BY DEF Wirex!Flush, Answered
<1>2. PICK S : Answered \in Seq(S)
  BY AnsweredIs
<1>3. Answered # <<>>
  BY <1>1 DEF Wirex!Inv, Answered
<1>4. PICK from \in 1..Len(Answered), size \in Wirex!Sizes : AsFar(from, size)
  BY <1>2, <1>3, StartedIs DEF Wirex!Inv, AsFar
<1>5. Wirex!Total(size) \in Nat
  BY TotalIs
<1>6. \A i \in from..Len(Answered) : Wirex!IsFrame(Answered[i], size, i - from)
  BY <1>4 DEF AsFar, Wirex!IsAnswer
<1>7. from \in headers /\ \A i \in headers : from >= i
  <2>1. Answered[from].fi = "header"
    BY <1>2, <1>6 DEF Wirex!IsFrame
  <2>2. ASSUME NEW i \in from + 1..Len(Answered) PROVE Answered[i].fi # "header"
    <3>1. Wirex!IsFrame(Answered[i], size, i - from) /\ i - from # 0
      BY <1>2, <1>6
    <3>. QED
      BY <3>1 DEF Wirex!IsFrame
  <2>. QED
    BY <1>2, <2>1, <2>2
<1>8. headers \subseteq Int
  BY <1>2
<1>. HIDE DEF headers
<1>9. Wirex!Max(headers) = from
  <2>. DEFINE max == Wirex!Max(headers)
  <2>1. max = CHOOSE x \in headers : \A y \in headers : x >= y
    BY DEF Wirex!Max
  <2>. HIDE DEF max
  <2>2. max \in headers /\ \A y \in headers : max >= y
    BY ONLY <1>7, <2>1
  <2>3. max >= from /\ from >= max /\ max \in Int /\ from \in Int
    BY <1>7, <1>8, <2>2
  <2>4. max = from
    BY <2>3
  <2>. QED
    BY <2>4 DEF max
<1>10. /\ heard' \in Seq(S) /\ Len(heard') = Len(Answered) - from + 1 /\ Len(Answered) \in Nat
       /\ \A i \in 1..Len(Answered) - from + 1 : heard'[i] = Answered[from + i - 1]
  BY <1>1, <1>2, <1>9
<1>11. Wirex!IsAnswer(heard', 1, size)
  <2>1. ASSUME NEW i \in 1..Len(heard') PROVE Wirex!IsFrame(heard'[i], size, i - 1)
    <3>1. /\ heard'[i] = Answered[from + i - 1] /\ from + i - 1 \in from..Len(Answered)
          /\ (from + i - 1) - from = i - 1
      BY <1>2, <1>10
    <3>. QED
      BY <1>6, <3>1
  <2>2. 1 \in 1..Len(heard') /\ Len(heard') - 1 = Len(Answered) - from
    BY <1>10
  <2>3. Len(Answered) - from <= Wirex!Total(size) + 1
    BY <1>4 DEF AsFar, Wirex!IsAnswer
  <2>. QED
    BY <2>1, <2>2, <2>3 DEF Wirex!IsAnswer
<1>12. /\ heard' \o toClient' = heard' /\ heard' \in Seq(Wirex!Range(heard'))
       /\ toClient' \in Seq(Wirex!Range(toClient'))
  <2>1. heard' \o <<>> = heard'
    BY ONLY <1>10, ConcatEmptySeq
  <2>2. heard' \in Seq(Wirex!Range(heard'))
    BY ONLY <1>10, OverRange
  <2>3. toClient' \in Seq(Wirex!Range(toClient'))
    BY <1>1
  <2>. QED
    BY <1>1, <2>1, <2>2, <2>3
<1>13. Wirex!Started(heard \o toClient)'
  <2>1. Wirex!Sending' = Wirex!Sending /\ Wirex!Sent' = Wirex!Sent
    BY <1>1 DEF Wirex!Sending, Wirex!Sent
  <2>2. 1 \in DOMAIN heard' /\ Len(heard') - 1 = Len(Answered) - from
    BY <1>10
  <2>3. Wirex!Sending' => size = handler'.size /\ Len(heard') - 1 = Wirex!Sent'
    BY <1>1, <1>4, <2>1, <2>2 DEF AsFar
  <2>. QED
    BY <1>11, <1>12, <2>2, <2>3 DEF Wirex!Started
<1>. QED
  BY <1>1, <1>11, <1>12, <1>13 DEF Wirex!Inv

LEMMA WiresXInvariance ==
  ASSUME Wirex!Inv, Wirex!Next \/ UNCHANGED wiresXVars
  PROVE  Wirex!Inv'
<1>1. cmds \in Seq(Asked) /\ (handler = Wirex!Idle \/ handler \in Tasks)
  BY TaskIs
<1>2. CASE Wirex!Connect \/ Wirex!Leave \/ Wirex!Talk \/ UNCHANGED wiresXVars
  BY <1>1, <1>2, QuietStep DEF Wirex!Connect, Wirex!Leave, Wirex!Talk, wiresXVars
<1>3. CASE Wirex!Ask
  <2>1. PICK c \in Wirex!Commands :
          cmds' = Append(cmds, [cmd |-> c.cmd, arg |-> c.arg, ripe |-> FALSE])
    BY <1>3 DEF Wirex!Ask
  <2>2. [cmd |-> c.cmd, arg |-> c.arg, ripe |-> FALSE] \in Asked
    BY WiresXIs DEF Wirex!Commands, Asked
  <2>3. cmds' \in Seq(Asked)
    BY <1>1, <2>1, <2>2
  <2>. QED
    BY <1>3, <2>3, QuietStep DEF Wirex!Ask
<1>4. CASE Wirex!Ripen
  <2>1. cmds' = [i \in DOMAIN cmds |-> [cmds[i] EXCEPT !.ripe = TRUE]]
    BY <1>4 DEF Wirex!Ripen
  <2>2. \A i \in DOMAIN cmds : [cmds[i] EXCEPT !.ripe = TRUE] \in Asked
    <3>1. \A c \in Asked : [c EXCEPT !.ripe = TRUE] \in Asked
      BY DEF Asked
    <3>2. \A i \in DOMAIN cmds : cmds[i] \in Asked
      BY <1>1
    <3>. QED
      BY <3>1, <3>2
  <2>3. cmds' \in Seq(Asked)
    BY <1>1, <2>1, <2>2
  <2>. QED
    BY <1>4, <2>3, QuietStep DEF Wirex!Ripen
<1>5. CASE Wirex!TakeCommand
  <2>1. cmds # <<>> /\ cmds' = Tail(cmds) /\ handler' = Wirex!Answer(Head(cmds))
    BY <1>5 DEF Wirex!TakeCommand
  <2>2. Head(cmds) \in Asked /\ cmds' \in Seq(Asked)
    BY <1>1, <2>1
  <2>. QED
    BY <1>5, <2>1, <2>2, AnswerIs, QuietStep DEF Wirex!TakeCommand
<1>6. CASE Wirex!MoveClient
  BY <1>1, <1>6, QuietStep DEF Wirex!MoveClient
<1>. QED
  BY <1>2, <1>3, <1>4, <1>5, <1>6, FlushKeepsInv, HeaderKeepsInv, PayloadKeepsInv,
     TrailerKeepsInv DEF Wirex!Next

\* What the radio has got is the beginning of an answer: see WiresX!Inv.
WiresXInv == part = "wires_x" => Wirex!Inv

LEMMA WiresXInductive == Spec => []WiresXInv
<1>1. Init => WiresXInv
  BY WiresXInit DEF Init, WiresXInv
<1>2. ASSUME WiresXInv, [Next]_vars PROVE WiresXInv'
  BY <1>2, PartStays, WiresXSteps, WiresXInvariance DEF WiresXInv
<1>. QED
  BY <1>1, <1>2, PTL DEF Spec

\* A frame of the data begins where the one before it ended.
LEMMA NextOffset ==
  ASSUME NEW size \in Wirex!Sizes, NEW k \in 1..Wirex!Total(size) - 1
  PROVE  LET frames == Wirex!Frames(size)
             bn == (k - 1) \div frames
             fn == (k - 1) % frames
         IN  Wirex!Offset(k \div frames, k % frames, frames - 1)
               = Wirex!Offset(bn, fn, frames - 1) + Wirex!Piece(bn, fn)
<1>. DEFINE frames == Wirex!Frames(size)
            ft == frames - 1
            bt == Wirex!LaterBlocks(size)
            bn == (k - 1) \div frames
            fn == (k - 1) % frames
<1>1. /\ frames \in 2..8 /\ bt \in 0..3 /\ Wirex!Total(size) = frames * (bt + 1)
      /\ ft \in 1..7
  BY TotalIs
<1>2. k - 1 \in 0..frames * (bt + 1) - 1 /\ k \in 0..frames * (bt + 1) - 1
  BY <1>1
<1>. HIDE DEF frames, bt
<1>3. bn \in 0..bt /\ fn \in 0..frames - 1 /\ k - 1 = bn * frames + fn
  BY <1>1, <1>2, PositionOf
<1>. HIDE DEF bn, fn
<1>4. bn \in 0..3 /\ fn \in 0..ft
  BY <1>1, <1>3
<1>5. CASE fn < ft
  <2>1. k = bn * frames + (fn + 1)
    BY <1>1, <1>3, <1>4, <1>5, PositionIs
  <2>2. fn + 1 \in 0..frames - 1
    BY <1>1, <1>4, <1>5
  <2>3. k \div frames = bn /\ k % frames = fn + 1
    BY <1>1, <1>4, <2>1, <2>2, PositionIs
  <2>. QED
    BY <1>1, <1>4, <1>5, <2>3, OffsetsAre DEF frames, bn, fn
<1>6. CASE fn = ft
  <2>1. k = (bn + 1) * frames + 0 /\ k = frames * (bn + 1)
    BY <1>1, <1>3, <1>4, <1>6, PositionIs
  <2>2. bn + 1 \in 0..3 /\ 0 \in 0..frames - 1
    <3>1. k \div frames \in 0..bt /\ k % frames \in 0..frames - 1
          /\ k = (k \div frames) * frames + (k % frames)
      BY <1>1, <1>2, PositionOf
    <3>. QED
      BY <1>1, <1>2, <1>3, <2>1
  <2>3. k \div frames = bn + 1 /\ k % frames = 0
    BY <1>1, <2>1, <2>2, PositionIs
  <2>. QED
    BY <1>1, <1>4, <1>6, <2>3, OffsetsAre DEF frames, bn, fn
<1>. QED
  BY <1>1, <1>4, <1>5, <1>6

\* The last frame reaches to the end.
LEMMA EndReached ==
  ASSUME NEW size \in Wirex!Sizes
  PROVE  LET frames == Wirex!Frames(size)
             k == Wirex!Total(size) - 1
             bn == k \div frames
             fn == k % frames
         IN  Wirex!Offset(bn, fn, frames - 1) + Wirex!Piece(bn, fn) >= size
<1>. DEFINE frames == Wirex!Frames(size)
            ft == frames - 1
            bt == Wirex!LaterBlocks(size)
            k == Wirex!Total(size) - 1
<1>1. /\ frames \in 2..8 /\ bt \in 0..3 /\ Wirex!Total(size) = frames * (bt + 1)
      /\ ft \in 1..7 /\ ft \in 0..frames - 1
  BY TotalIs
<1>2. size \in Nat /\ (bt = 0 => 40 * ft - 20 >= size)
      /\ (bt > 0 => ft = 7 /\ 260 + 259 * bt >= size)
  BY SizesAre, FramesAre
<1>. HIDE DEF frames, bt
<1>3. k \div frames = bt /\ k % frames = ft
  <2>. DEFINE m == bt * frames + ft
  <2>1. m \in Nat /\ m \div frames = bt /\ m % frames = ft /\ m + 1 = frames * (bt + 1)
    BY <1>1, PositionIs
  <2>. HIDE DEF m
  <2>2. k = m
    BY <1>1, <2>1
  <2>. QED
    BY <2>1, <2>2
<1>4. Wirex!Offset(bt, ft, ft) + Wirex!Piece(bt, ft) = Wirex!Offset(bt + 1, 0, ft)
  BY <1>1, OffsetsAre
<1>5. Wirex!Offset(bt + 1, 0, ft) = 40 * ft - 20 + bt * (40 * ft - 21)
  <2>1. bt + 1 # 0 /\ (bt + 1) - 1 = bt
    BY <1>1
  <2>2. Wirex!Offset(bt + 1, 0, ft) = (40 * ft - 20 + bt * (40 * ft - 21)) + 0
    BY <2>1 DEF Wirex!Offset
  <2>3. bt = 0 \/ bt = 1 \/ bt = 2 \/ bt = 3
    BY <1>1
  <2>4. bt * (40 * ft - 21) \in Int
    BY <1>1, <2>3
  <2>. QED
    BY <1>1, <2>2, <2>4
<1>6. Wirex!Offset(bt + 1, 0, ft) >= size
  BY <1>1, <1>2, <1>5
<1>. QED
  BY <1>3, <1>4, <1>6 DEF frames

\* A radio that has heard an answer to its end has got each of its blocks and
\* frames once, and all the bytes of the answer, in their order: see
\* WiresX!WholeAnswers.
THEOREM WholeAnswersCorrect == Spec => []WholeAnswers
<1>1. ASSUME WiresXInv PROVE WholeAnswers
  <2>1. SUFFICES ASSUME part = "wires_x", heard # <<>>, Wirex!Last(heard).fi = "terminator"
                 PROVE  LET data == SubSeq(heard, 2, Len(heard) - 1)
                            frames == heard[1].ft + 1
                        IN  /\ Len(data) = frames * (heard[1].bt + 1)
                            /\ \A i \in DOMAIN data :
                                 /\ data[i].bn = (i - 1) \div frames
                                 /\ data[i].fn = (i - 1) % frames
                                 /\ data[i].from = IF i = 1 THEN 0 ELSE data[i - 1].to
                            /\ Wirex!Last(data).to >= heard[1].size
    BY DEF WholeAnswers, Wirex!WholeAnswers
  <2>2. PICK size \in Wirex!Sizes : Wirex!IsAnswer(heard, 1, size)
    BY <1>1, <2>1 DEF WiresXInv, Wirex!Inv
  <2>3. PICK S : heard \in Seq(S)
    BY <1>1, <2>1 DEF WiresXInv, Wirex!Inv
  <2>. DEFINE data == SubSeq(heard, 2, Len(heard) - 1)
              frames == Wirex!Frames(size)
              total == Wirex!Total(size)
  <2>4. /\ total = frames * (Wirex!LaterBlocks(size) + 1) /\ total \in Nat /\ frames \in 2..8
        /\ Wirex!LaterBlocks(size) \in 0..3
    BY TotalIs
  <2>5. /\ Len(heard) \in Nat /\ Len(heard) >= 1
        /\ \A i \in 1..Len(heard) : Wirex!IsFrame(heard[i], size, i - 1)
    BY <2>2, <2>3 DEF Wirex!IsAnswer
  <2>6. Len(heard) = total + 2
    <3>1. Wirex!Last(heard) = heard[Len(heard)]
      BY DEF Wirex!Last
    <3>2. Wirex!IsFrame(heard[Len(heard)], size, Len(heard) - 1)
      BY <2>5
    <3>3. Len(heard) - 1 = total + 1
      BY <2>1, <3>1, <3>2 DEF Wirex!IsFrame
    <3>. QED
      BY <2>4, <2>5, <3>3
  <2>7. heard[1].ft + 1 = frames /\ heard[1].bt = Wirex!LaterBlocks(size) /\ heard[1].size = size
    <3>1. Wirex!IsFrame(heard[1], size, 1 - 1)
      BY <2>5
    <3>. QED
      BY <2>4, <3>1 DEF Wirex!IsFrame
  <2>. HIDE DEF total, frames
  <2>8. Len(data) = total /\ \A i \in 1..total : data[i] = heard[i + 1]
    BY <2>3, <2>4, <2>6
  <2>9. DOMAIN data = 1..total
    BY <2>3, <2>4, <2>6
  <2>. HIDE DEF data
  <2>10. ASSUME NEW i \in 1..total PROVE Wirex!IsData(data[i], size, i - 1)
    <3>1. Wirex!IsFrame(heard[i + 1], size, (i + 1) - 1) /\ (i + 1) - 1 = i
      BY <2>4, <2>5, <2>6
    <3>. QED
      BY <2>8, <3>1 DEF Wirex!IsFrame, total
  <2>11. ASSUME NEW i \in 1..total
         PROVE  data[i].from = IF i = 1 THEN 0 ELSE data[i - 1].to
    <3>1. CASE i = 1
      <4>1. (i - 1) \div frames = 0 /\ (i - 1) % frames = 0
        BY <2>4, <3>1
      <4>2. data[i].from = Wirex!Offset(0, 0, frames - 1)
        BY <2>10, <4>1 DEF Wirex!IsData, frames
      <4>. QED
        BY <3>1, <4>2 DEF Wirex!Offset
    <3>2. CASE i > 1
      <4>1. i - 1 \in 1..total /\ i - 1 \in 1..total - 1
        BY <2>4, <3>2
      <4>. DEFINE bn == ((i - 1) - 1) \div frames
                  fn == ((i - 1) - 1) % frames
      <4>2. Wirex!Offset((i - 1) \div frames, (i - 1) % frames, frames - 1)
              = Wirex!Offset(bn, fn, frames - 1) + Wirex!Piece(bn, fn)
        BY <4>1, NextOffset DEF frames, total
      <4>3. data[i - 1].to = Wirex!Offset(bn, fn, frames - 1) + Wirex!Piece(bn, fn)
        BY <2>10, <4>1 DEF Wirex!IsData, frames
      <4>4. data[i].from = Wirex!Offset((i - 1) \div frames, (i - 1) % frames, frames - 1)
        BY <2>10 DEF Wirex!IsData, frames
      <4>. QED
        BY <3>2, <4>2, <4>3, <4>4
    <3>. QED
      BY <3>1, <3>2
  <2>12. Wirex!Last(data).to >= size
    <3>1. total \in 1..total
      BY <2>4
    <3>2. Wirex!Last(data) = data[total]
      BY <2>8 DEF Wirex!Last
    <3>3. data[total].to = Wirex!Offset((total - 1) \div frames, (total - 1) % frames, frames - 1)
                           + Wirex!Piece((total - 1) \div frames, (total - 1) % frames)
      BY <2>10, <3>1 DEF Wirex!IsData, frames
    <3>. QED
      BY <3>2, <3>3, EndReached DEF frames, total
  <2>13. \A i \in 1..total : data[i].bn = (i - 1) \div frames /\ data[i].fn = (i - 1) % frames
    BY <2>10 DEF Wirex!IsData, frames
  <2>. QED
    BY <2>4, <2>7, <2>8, <2>9, <2>11, <2>12, <2>13 DEF data
<1>. QED
  BY <1>1, WiresXInductive, PTL
=============================================================================
