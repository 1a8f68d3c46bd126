------------------------------ MODULE PartProps ------------------------------
(***************************************************************************)
(* The parts of the reflector that are modelled each on its own, side by   *)
(* side, and their properties.  The initial state chooses one part; the    *)
(* variables of the others stay 0.                                         *)
(***************************************************************************)
EXTENDS Naturals, Sequences, FiniteSets

CONSTANTS
  Parts,        \* the parts that are looked at
  None, NoFile  \* as in the modules

VARIABLE part

-----------------------------------------------------------------------------
\* Stream ids of NXDN and P25.
CONSTANTS Watched, Stations, Modules, Linked, StreamIds, NoId, ZeroId
VARIABLES protocol, talking, voice, id, sid, owner, fresh, handles, noHeader

IdsPart == INSTANCE SharedIds WITH Ids <- StreamIds

idsVars == <<protocol, talking, voice, id, sid, owner, fresh, handles, noHeader>>
NoIds ==
  /\ protocol = 0 /\ talking = 0 /\ voice = 0 /\ id = 0 /\ sid = 0 /\ owner = 0
  /\ fresh = 0 /\ handles = 0 /\ noHeader = 0

-----------------------------------------------------------------------------
\* White and black list.
CONSTANTS Callers, Versions, MaxTime, MaxWrites
VARIABLES file, mtime, clock, writes, filename, modTime, listed, locked, keeper, asking,
          admitted, raced

ListsPart == INSTANCE Lists WITH Callsigns <- Callers

listsVars == <<file, mtime, clock, writes, filename, modTime, listed, locked, keeper, asking,
               admitted, raced>>
NoLists ==
  /\ file = 0 /\ mtime = 0 /\ clock = 0 /\ writes = 0 /\ filename = 0 /\ modTime = 0
  /\ listed = 0 /\ locked = 0 /\ keeper = 0 /\ asking = 0 /\ admitted = 0 /\ raced = 0

-----------------------------------------------------------------------------
\* Directories.
CONSTANTS Modes, Contents, WaitCycles, MaxSeconds, MaxEdits
VARIABLES mode, folder, local, changed, second, edits, missed, backup, lastLoad, step, count,
          ss, loaded, callsigns, ids, spoiled

Dir == INSTANCE Directory

directoryVars == <<mode, folder, local, changed, second, edits, missed, backup, lastLoad,
                   step, count, ss, loaded, callsigns, ids, spoiled>>
NoDirectory ==
  /\ mode = 0 /\ folder = 0 /\ local = 0 /\ changed = 0 /\ second = 0 /\ edits = 0
  /\ missed = 0 /\ backup = 0 /\ lastLoad = 0 /\ step = 0 /\ count = 0 /\ ss = 0
  /\ loaded = 0 /\ callsigns = 0 /\ ids = 0 /\ spoiled = 0

-----------------------------------------------------------------------------
\* Start and stop.
CONSTANTS Protocols, Configured, Transcoded, Helpers, MaxPending, Nothing
VARIABLES main, failed, alive, mutex, keep, task, route, help, streams, speaker, packets

ServicePart == INSTANCE Service WITH MaxPackets <- MaxPending

serviceVars == <<main, failed, alive, mutex, keep, task, route, help, streams, speaker, packets>>
NoService ==
  /\ main = 0 /\ failed = 0 /\ alive = 0 /\ mutex = 0 /\ keep = 0 /\ task = 0
  /\ route = 0 /\ help = 0 /\ streams = 0 /\ speaker = 0 /\ packets = 0

-----------------------------------------------------------------------------
\* The session of a station.
CONSTANTS Kinds, Autolink, Periods
VARIABLES kind, up, on, list, strayed

SessionsPart == INSTANCE Sessions

sessionsVars == <<kind, up, on, list, strayed>>
NoSessions ==
  /\ kind = 0 /\ up = 0 /\ on = 0 /\ list = 0 /\ strayed = 0

-----------------------------------------------------------------------------
\* Wires-X.
CONSTANTS Rooms, FirstRoom, Starts, MaxCommands, MaxAnswers
VARIABLES client, cmds, handler, toClient, heard

Wirex == INSTANCE WiresX WITH
  Autolink <- FirstRoom, MaxPackets <- MaxAnswers, task <- handler, packets <- toClient

wiresXVars == <<client, cmds, handler, toClient, heard>>
NoWiresX ==
  /\ client = 0 /\ cmds = 0 /\ handler = 0 /\ toClient = 0 /\ heard = 0

-----------------------------------------------------------------------------
\* The ini file.
CONSTANTS Letters, ModuleLetters
VARIABLES ini, urfd, tcd, keys, tcmods, gains

Ini == INSTANCE Configuration WITH Rooms <- ModuleLetters, file <- ini

configurationVars == <<ini, urfd, tcd, keys, tcmods, gains>>
NoConfiguration ==
  /\ ini = 0 /\ urfd = 0 /\ tcd = 0 /\ keys = 0 /\ tcmods = 0 /\ gains = 0

-----------------------------------------------------------------------------
\* A callsign.
CONSTANTS Uppers, Digits, Marks, Spellings, Addresses, Endings, Patches, UserIds, Reflector,
          Directories
VARIABLES directory, callsign

Calls == INSTANCE Callsigns WITH Names <- Spellings, Modules <- Endings, Ids <- UserIds

callsignsVars == <<directory, callsign>>
NoCallsigns == directory = 0 /\ callsign = 0

-----------------------------------------------------------------------------

\* What the constants have to be.
ASSUME PartsAssumption ==
  /\ IdsPart!SharedIdsAssumption
  /\ ListsPart!ListsAssumption
  /\ Dir!DirectoryAssumption
  /\ ServicePart!ServiceAssumption
  /\ SessionsPart!SessionsAssumption
  /\ Wirex!WiresXAssumption
  /\ Ini!ConfigurationAssumption
  /\ Calls!CallsignsAssumption

vars == <<part, idsVars, listsVars, directoryVars, serviceVars, sessionsVars, wiresXVars,
          configurationVars, callsignsVars>>

Init ==
  /\ part \in Parts
  /\ IF part = "ids" THEN IdsPart!Init ELSE NoIds
  /\ IF part = "lists" THEN ListsPart!Init ELSE NoLists
  /\ IF part = "directory" THEN Dir!Init ELSE NoDirectory
  /\ IF part = "service" THEN ServicePart!Init ELSE NoService
  /\ IF part = "sessions" THEN SessionsPart!Init ELSE NoSessions
  /\ IF part = "wires_x" THEN Wirex!Init ELSE NoWiresX
  /\ IF part = "configuration" THEN Ini!Init ELSE NoConfiguration
  /\ IF part = "callsigns" THEN Calls!Init ELSE NoCallsigns

InIds(action) ==
  /\ part = "ids" /\ action
  /\ UNCHANGED <<part, listsVars, directoryVars, serviceVars, sessionsVars, wiresXVars,
                 configurationVars, callsignsVars>>
InLists(action) ==
  /\ part = "lists" /\ action
  /\ UNCHANGED <<part, idsVars, directoryVars, serviceVars, sessionsVars, wiresXVars,
                 configurationVars, callsignsVars>>
InDirectory(action) ==
  /\ part = "directory" /\ action
  /\ UNCHANGED <<part, idsVars, listsVars, serviceVars, sessionsVars, wiresXVars,
                 configurationVars, callsignsVars>>
InService(action) ==
  /\ part = "service" /\ action
  /\ UNCHANGED <<part, idsVars, listsVars, directoryVars, sessionsVars, wiresXVars,
                 configurationVars, callsignsVars>>
InSessions(action) ==
  /\ part = "sessions" /\ action
  /\ UNCHANGED <<part, idsVars, listsVars, directoryVars, serviceVars, wiresXVars,
                 configurationVars, callsignsVars>>
InWiresX(action) ==
  /\ part = "wires_x" /\ action
  /\ UNCHANGED <<part, idsVars, listsVars, directoryVars, serviceVars, sessionsVars,
                 configurationVars, callsignsVars>>
InConfiguration(action) ==
  /\ part = "configuration" /\ action
  /\ UNCHANGED <<part, idsVars, listsVars, directoryVars, serviceVars, sessionsVars,
                 wiresXVars, callsignsVars>>
InCallsigns(action) ==
  /\ part = "callsigns" /\ action
  /\ UNCHANGED <<part, idsVars, listsVars, directoryVars, serviceVars, sessionsVars,
                 wiresXVars, configurationVars>>

Next ==
  \/ InIds(IdsPart!Next)
  \/ InLists(ListsPart!Next)
  \/ InDirectory(Dir!Next)
  \/ InService(ServicePart!Next)
  \/ InSessions(SessionsPart!Next)
  \/ InWiresX(Wirex!Next)
  \/ InConfiguration(Ini!Next)
  \/ InCallsigns(Calls!Next)

Spec == Init /\ [][Next]_vars

\* The fairness that each part assumes, as its own FairSpec.
FairSpec ==
  /\ Spec
  /\ WF_vars(InLists(ListsPart!Thread))
  /\ WF_vars(InDirectory(Dir!Thread))
  /\ WF_vars(InService(ServicePart!Main))
  /\ \A p \in ServicePart!ProtocolSet :
       WF_vars(InService(ServicePart!Close(p))) /\ WF_vars(InService(ServicePart!EndTask(p)))
  /\ \A m \in ServicePart!ModuleSet :
       /\ SF_vars(InService(ServicePart!Lock(m)))
       /\ WF_vars(InService(ServicePart!Pop(m)))
       /\ WF_vars(InService(ServicePart!Push(m)))
  /\ \A h \in Helpers : WF_vars(InService(ServicePart!EndHelp(h)))
  /\ WF_vars(InSessions(SessionsPart!HandleKeepalives))
  /\ WF_vars(InSessions(SessionsPart!Close))

-----------------------------------------------------------------------------
\* The properties; most are the modules' own.

\* Every open stream of an NXDN or P25 station is one its thread finds by its
\* id, and so times out: see SharedIds.
HandlesLead == part = "ids" => IdsPart!HandlesLead

\* Whatever id an earlier transmission left behind, a station that talks on a
\* free module opens it and is heard, a P25 station from its next packet on: see
\* SharedIds.
FreeIsHeard == [][part = "ids" => IdsPart!FreeIsHeard]_vars

\* The header that CNXDNProtocol::Task uses has been made (NXDNProtocol.cpp:106).
HeaderMade == part = "ids" => IdsPart!HeaderMade

\* Nobody is let in whom each version of a list shuts out, not even while the
\* list is loaded again: see Lists.
NobodyUnlisted == part = "lists" => ListsPart!NobodyUnlisted

\* The lists end up as their files say (CGateKeeper::Thread): see Lists.
ListsSettle == <>[](part = "lists" => ListsPart!Settled)

\* A restart without the server finds what it last sent in the backup: see
\* Directory.
BackupHeld == part = "directory" => Dir!BackupHeld

\* What the local file says is in the directory in the end: see Directory.
FileWins == <>[](part = "directory" => Dir!FileHeld)

\* A router hands its packets to all protocols, never to a destroyed one: see
\* Service.
AllProtocolsThere == part = "service" => ServicePart!AllProtocolsThere

\* The start comes to pause(), and the stop to its end, if none of the four
\* waits lasts that Service names: there is no other.
OnlyKnownWaits ==
  <>[](part = "service" => ServicePart!Underway)
    => <>[](part = "service" => ServicePart!Stuck)

\* A station has one entry, or at least none on a second module: see Sessions.
OneEntry == part = "sessions" => SessionsPart!OneEntry /\ SessionsPart!OneModule

\* A Wires-X answer has the size that fills its datagrams: see WiresX.
WholeAnswers == part = "wires_x" => Wirex!WholeAnswers

\* What the program will ask of a file that it took is there: see
\* Configuration.
KeysThere == part = "configuration" => Ini!KeysThere

\* An M17 address or the bytes of a callsign are read as that callsign: see
\* Callsigns.
HeardAsSent == part = "callsigns" => Calls!HeardAsSent

\* A station that died is forgotten, even if it died while it talked.
DeadForgotten ==
  <>[](part = "sessions" => ~up) => <>[](part = "sessions" => SessionsPart!Forgotten)
=============================================================================
