---------------------------- MODULE Configuration ----------------------------
(***************************************************************************)
(* What urfd and tcd take from the one ini file that they both read        *)
(* (ReadData in reflector/Configure.cpp and in transcoder/Configure.cpp).  *)
(*                                                                         *)
(* For urfd a line under a section where it does not belong is none, tcd   *)
(* does not look at sections: that matters for Transcoded, as the gains    *)
(* have to be there for both.  What a value is, is only told where a check *)
(* looks at it.                                                            *)
(***************************************************************************)
EXTENDS Integers, Sequences, FiniteSets

CONSTANTS
  Letters,   \* the letters of modules
  Rooms      \* the modules of a file that is right

\* What the constants have to be.
ConfigurationAssumption ==
  Rooms \subseteq Letters /\ Rooms # {} /\ Rooms # Letters

VARIABLES
  file,       \* the line of each key
  urfd, tcd,  \* how far they are: "starts", "runs", "stops", and "aborts"
  keys,       \* CConfigure::data of urfd
  tcmods,     \* m_tcmods of tcd
  gains       \* the gains of tcd

vars == <<file, urfd, tcd, keys, tcmods, gains>>

-----------------------------------------------------------------------------
\* g_Keys, by what their lines may say.
Plain == {"Callsign", "IPv4Binding", "IPv4External", "IPv6Binding", "IPv6External"}
Strings == {"Bootstrap", "DashboardUrl", "SysopEmail", "Country", "Sponsor", "RegistrationName",
            "RegistrationDescription", "DBFolder", "PidPath", "XmlPath", "JsonPath",
            "WhitelistPath", "BlacklistPath", "InterlinkPath", "DHTSavePath"}
Ports == {"DCS", "DExtra", "DPlus", "M17", "URF", "MMDVM", "NXDN", "P25", "YSF"}
Numbers == Ports \cup {"MMDVM DefaultId", "NXDN ReflectorID", "P25 ReflectorID", "DefaultTxFreq",
                       "DefaultRxFreq", "RegistrationID"}
Gains == {"DStarGainIn", "DStarGainOut", "DmrYsfGainIn", "DmrYsfGainOut"}
Autolinks == {"NXDN AutoLinkModule", "P25 AutoLinkModule", "YSF AutoLinkModule"}
ModuleSets == {"Modules", "Transcoded"}
Databases == {"dmriddb", "nxdniddb", "ysftxrxdb"}
Of(database, key) ==
  CASE database = "dmriddb" ->
         [URL |-> "dmrIdDbUrl", Mode |-> "dmrIdDbMode", RefreshMin |-> "dmrIdDbRefresh",
          Filename |-> "dmrIdDbFile", Backup |-> "dmrIdDbBkup"][key]
    [] database = "nxdniddb" ->
         [URL |-> "nxdnIdDbUrl", Mode |-> "nxdnIdDbMode", RefreshMin |-> "nxdnIdDbRefresh",
          Filename |-> "nxdnIdDbFile", Backup |-> "nxdnIdDpBkup"][key]
    [] database = "ysftxrxdb" ->
         [URL |-> "ysfIdDbUrl", Mode |-> "ysfIdDbMode", RefreshMin |-> "ysfIdDbRefresh",
          Filename |-> "ysfIdDbFile", Backup |-> "ysfIdDbBkup"][key]
OfAll(key) == {Of(d, key) : d \in Databases}
DatabaseKeys ==
  UNION {OfAll(k) : k \in {"Mode", "URL", "RefreshMin", "Filename", "Backup"}}
Keys == Plain \cup Strings \cup Numbers \cup Gains \cup Autolinks \cup ModuleSets
        \cup {"EnableDGID"} \cup DatabaseKeys

\* A line, and a value of the json object.
Absent == [type |-> "none", value |-> {}]
Null == [type |-> "null", value |-> {}]
Text(s) == [type |-> "string", value |-> s]
Unsigned == [type |-> "unsigned", value |-> {}]
Whole(n) == [type |-> "int", value |-> {n}]  \* n: "within" -24 and 24, "above", "below"
Elsewhere(s) == [type |-> "elsewhere", value |-> s]
Wrong == Text({"wrong"})
Right == Text({"right"})

Lines(key) ==
  {Absent} \cup
  CASE key \in Plain -> {Right, Wrong}
    [] key \in Numbers \/ key \in OfAll("RefreshMin") -> {Unsigned, Wrong}
    [] key \in Gains -> {Whole("within"), Whole("above"), Whole("below"), Wrong}
    [] key = "Modules" -> {Text(m) : m \in SUBSET Letters}
    [] key = "Transcoded" -> UNION {{Text(m), Elsewhere(m)} : m \in SUBSET Letters}
    [] key \in Autolinks -> {Text({m}) : m \in Letters} \cup {Text({})}
    [] key \in OfAll("Mode") -> {Text({m}) : m \in {"http", "file", "both", "ftp"}}
    [] OTHER -> {Right}

\* A file that is right.
Complete(key) ==
  CASE key \in Numbers \/ key \in OfAll("RefreshMin") -> Unsigned
    [] key \in Gains -> Whole("within")
    [] key \in ModuleSets -> Text(Rooms)
    [] key \in Autolinks -> Text({CHOOSE m \in Rooms : TRUE})
    [] key \in OfAll("Mode") -> Text({"both"})
    [] OTHER -> Right
\* Up to two lines differ from those of a file that is right.
Init ==
  /\ LET right == [k \in Keys |-> Complete(k)]
     IN \E one, two \in Keys : \E line \in Lines(one), other \in Lines(two) :
          file = [right EXCEPT ![one] = line, ![two] = other]
  /\ urfd = "starts" /\ tcd = "starts"
  /\ keys = [k \in Keys |-> Absent]
  /\ tcmods = {} /\ gains = [k \in Gains |-> "unset"]

-----------------------------------------------------------------------------
\* urfd: what the lines put into the object.  A number that is none or out of
\* range becomes the default; letters are searched for in modules.
Read(key) ==
  LET line == file[key]
  IN IF line.type \in {"none", "elsewhere"} THEN Absent ELSE
     CASE key \in Numbers \/ key \in OfAll("RefreshMin") -> Unsigned
       [] key \in Gains -> IF line = Wrong THEN line ELSE Whole("within")
       [] key \in ModuleSets \cup Autolinks -> IF line = Text({}) THEN Absent ELSE line
       [] key \in OfAll("Mode") ->
            IF line = Text({"ftp"}) THEN Text({"http"}) ELSE line
       [] key = "EnableDGID" -> [type |-> "boolean", value |-> {}]
       [] OTHER -> line

Data == [k \in Keys |-> Read(k)]

\* getInt: std::stol throws when a gain is no number, and nobody catches it.
BadGain == \E k \in Gains : file[k] = Wrong

\* A binding address that is none is reported with the external address, which
\* may not be there.
NoAddress ==
  \/ file["IPv4Binding"] = Wrong /\ file["IPv4External"] = Absent
  \/ file["IPv6Binding"] = Wrong /\ file["IPv6External"] = Absent
Throws == BadGain \/ NoAddress

\* isDefined: what is not there is an error, or a null.
Mild == {"SysopEmail", "Country", "Sponsor", "Transcoded", "RegistrationID", "RegistrationName",
         "RegistrationDescription"}
Fatal == {"Callsign", "Bootstrap", "DashboardUrl", "IPv4Binding", "Modules", "EnableDGID",
          "MMDVM DefaultId", "NXDN ReflectorID", "P25 ReflectorID", "DefaultTxFreq",
          "DefaultRxFreq", "PidPath", "XmlPath", "WhitelistPath", "BlacklistPath",
          "InterlinkPath"} \cup Gains \cup Ports

\* Mutant: of a database the address alone is looked for.
AddressOnly(database, mode) == {Of(database, "URL")}

\* What a database needs in each mode.
Needed(database, mode) ==
  (IF mode # "file" THEN {Of(database, k) : k \in {"URL", "RefreshMin", "Backup"}} ELSE {})
  \cup (IF mode # "http" THEN {Of(database, "Filename")} ELSE {}) \cup {"DBFolder"}
DatabaseWrong(data, d) ==
  \/ data[Of(d, "Mode")] = Absent
  \/ \E mode \in data[Of(d, "Mode")].value : \E k \in Needed(d, mode) : data[k] = Absent

\* An address that is not in the file is asked for.
AddressWrong(data, bind, external, found) ==
  \/ data[bind] = Wrong
  \/ data[bind] = Right /\ (data[external] = Wrong \/ (data[external] = Absent /\ ~found))

\* checkAutoLink, and the check of the transcoded modules.
OutOfModules(data) ==
  \E k \in Autolinks \cup {"Transcoded"} : ~(data[k].value \subseteq data["Modules"].value)

Fails(data, found4, found6) ==
  \/ \E k \in ModuleSets : file[k] = Text({})
  \/ \E k \in Fatal : data[k] = Absent
  \/ data["Callsign"] = Wrong
  \/ AddressWrong(data, "IPv4Binding", "IPv4External", found4)
  \/ AddressWrong(data, "IPv6Binding", "IPv6External", found6)
  \/ OutOfModules(data)
  \/ \E d \in Databases : DatabaseWrong(data, d)

Checked(data) ==
  [k \in Keys |->
     CASE k \in Mild /\ data[k] = Absent -> Null
       [] k \in {"IPv6Binding", "IPv6External"} /\ data["IPv6Binding"] = Absent -> Null
       [] k = "IPv4External" /\ data[k] = Absent -> Right
       [] k = "IPv6External" /\ data[k] = Absent /\ data["IPv6Binding"] # Absent -> Right
       [] OTHER -> data[k]]

ReadUrfd ==
  /\ urfd = "starts"
  /\ \E found4, found6 \in BOOLEAN :
       /\ keys' = IF Throws THEN keys ELSE Checked(Data)
       /\ urfd' = IF Throws THEN "aborts"
                  ELSE IF Fails(Data, found4, found6) THEN "stops" ELSE "runs"
  /\ UNCHANGED <<file, tcd, tcmods, gains>>

-----------------------------------------------------------------------------
\* tcd: gains out of range are cut, and those not in the file remain unset.
Gain(key) ==
  CASE file[key] = Absent -> "unset"
    [] file[key] = Whole("above") -> "most"
    [] file[key] = Whole("below") -> "least"
    [] OTHER -> "within"

ReadTcd ==
  /\ tcd = "starts"
  /\ IF BadGain THEN tcd' = "aborts" /\ UNCHANGED <<tcmods, gains>>
     ELSE /\ tcmods' = file["Transcoded"].value
          /\ gains' = [k \in Gains |-> Gain(k)]
          /\ tcd' = IF tcmods' = {} \/ \E k \in Gains : gains'[k] = "unset" THEN "stops" ELSE "runs"
  /\ UNCHANGED <<file, urfd, keys>>

Next == ReadUrfd \/ ReadTcd

Spec == Init /\ [][Next]_vars

-----------------------------------------------------------------------------
(***************************************************************************)
(* The inductive invariant behind KeysThere: the file is one of those that *)
(* may be, and who runs has read all of it and found nothing wrong.        *)
(***************************************************************************)
Inv ==
  /\ \A k \in Keys : file[k] \in Lines(k)
  /\ urfd = "runs" =>
       /\ ~Throws
       /\ \E found4, found6 \in BOOLEAN : ~Fails(Data, found4, found6)
       /\ keys = Checked(Data)
  /\ tcd = "runs" =>
       /\ tcmods = file["Transcoded"].value
       /\ \A k \in Gains : gains[k] # "unset"

-----------------------------------------------------------------------------
\* What GetString, GetUnsigned and GetBoolean are called with, where Contains or
\* IsString did not look first: by the components as they start, by the peering
\* that answers the DHT, and by the lookups, which ask for all that there is of a
\* database whatever its mode.
Asked(type) ==
  CASE type = "string" ->
         (Plain \cup Strings \cup {"Modules"} \cup OfAll("URL") \cup OfAll("Filename")
            \cup OfAll("Backup")) \ {"JsonPath", "DHTSavePath"}
    [] type = "unsigned" -> Numbers \cup OfAll("RefreshMin")
    [] type = "boolean" -> {"EnableDGID"}

\* The getters give what is there; a null is a string without letters.  Anything
\* else is answered by an empty string or zero.
Answered(key, type) ==
  keys[key].type = type \/ (type = "string" /\ keys[key] = Null)

\* Of what it asked for, the thread of a lookup uses in each mode: to fetch the
\* list, keep a copy and read it back, or to read the file of the sysop.
Used(database, mode) ==
  (IF mode = "file" THEN {} ELSE {Of(database, k) : k \in {"RefreshMin", "URL", "Backup"}})
  \cup (IF mode = "http" THEN {} ELSE {Of(database, "Filename")})

\* What no lookup makes use of, by the modes that urfd has taken.
Unused ==
  {key \in DatabaseKeys \ OfAll("Mode") :
     \A d \in Databases : \A mode \in keys[Of(d, "Mode")].value : key \notin Used(d, mode)}

(***************************************************************************)
(* With a file that urfd accepts the program gets, of its type, all that   *)
(* it asks for without looking first and makes use of.  What it gets a     *)
(* default for, with a complaint in the log, is the YSF registration of a  *)
(* reflector that has none, and of a database what its mode does not use.  *)
(* Modules that are linked to or transcoded are modules, and tcd, if it    *)
(* accepts the file too, transcodes the same ones, unless their line is in *)
(* a section where urfd does not look for it.                              *)
(***************************************************************************)
KeysThere ==
  urfd = "runs" =>
    /\ \A t \in {"string", "unsigned", "boolean"} : \A k \in Asked(t) :
         \/ Answered(k, t)
         \/ k = "RegistrationID" /\ keys[k] = Null
         \/ k \in Unused /\ keys[k] = Absent
    /\ \A k \in Keys : keys[k] = Null => k \in Mild \cup {"IPv6Binding", "IPv6External"}
    /\ \A d \in Databases :
         keys[Of(d, "Mode")] \in {Text({mode}) : mode \in {"http", "file", "both"}}
    /\ \A k \in Autolinks \cup {"Transcoded"} : keys[k].value \subseteq keys["Modules"].value
    /\ tcd = "runs" => /\ tcmods = keys["Transcoded"].value \/ file["Transcoded"].type = "elsewhere"
                       /\ \A k \in Gains : gains[k] # "unset"
=============================================================================
