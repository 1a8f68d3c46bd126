------------------------------ MODULE Directory ------------------------------
(***************************************************************************)
(* The directories of DMR and NXDN ids and of YSF frequencies              *)
(* (reflector/Lookup.cpp, LookupDmr.cpp, LookupNxdn.cpp, LookupYsf.cpp):   *)
(* each has a thread that takes it from a server, from a file, or from     *)
(* both, and keeps a backup of what the server last sent.                  *)
(*                                                                         *)
(* The server may fail, or send a page without a valid line; the file is   *)
(* changed at any time and may get an older time.                          *)
(***************************************************************************)
EXTENDS Integers, Sequences, SequencesExt, Functions

CONSTANTS
  Modes,      \* m_Type: "http", "file", "both"
  Contents,   \* what server and file may hold: [bytes, lines, ended]: is there any
              \* text, its valid lines <<id, callsign>>, does a newline end it
  WaitCycles, \* cycles of the thread from one download to the next
  NoFile,     \* there is no such file
  MaxSeconds, \* bound: seconds
  MaxEdits    \* bound: changes of the file

\* What the constants have to be.
DirectoryAssumption ==
  /\ Modes \subseteq {"http", "file", "both"}
  /\ \A x \in Contents : /\ x # NoFile /\ x.bytes \in BOOLEAN /\ x.ended \in BOOLEAN
                        /\ x.lines \in Seq(Range(x.lines))
  /\ WaitCycles \in Nat \ {0} /\ MaxSeconds \in Nat /\ MaxEdits \in Nat

VARIABLES
  mode,       \* m_Type
  folder,     \* m_Bkup can be written
  backup,     \* what it holds, or NoFile
  local,      \* what m_File holds, or NoFile
  changed,    \* its modification time
  second,     \* the time
  edits,      \* changes made to the file
  missed,     \* the file got a time not later than the load before
  lastLoad,   \* m_LastLoadTime
  step,       \* where the thread is
  count,      \* cycles, modulo WaitCycles
  ss,         \* the thread's string stream: [lines, ended, fail]
  loaded,     \* http_loaded and file_loaded: the sources it has
  callsigns,  \* m_CallsignMap: id -> callsign
  ids,        \* m_DmridMap: callsign -> id
  spoiled     \* a source without any text spoiled the last download

worldVars == <<folder, local, changed, second, edits, missed>>
threadVars == <<lastLoad, step, count, ss, loaded>>
mapVars == <<callsigns, ids, spoiled>>
vars == <<mode, worldVars, backup, threadVars, mapVars>>

NoStream == [lines |-> <<>>, ended |-> TRUE, fail |-> FALSE]
NoMap == [x \in {} |-> x]

\* ss << file.rdbuf(): no text sets failbit, after which nothing goes in or out.
\* A line that no newline ended goes on with the first one added.
AddText(s, x) ==
  CASE s.fail -> s
    [] ~s.fail /\ ~x.bytes -> [s EXCEPT !.fail = TRUE]
    [] ~s.fail /\ x.bytes ->
         [lines |-> s.lines \o (IF s.ended \/ x.lines = <<>> THEN x.lines ELSE Tail(x.lines)),
          ended |-> x.ended, fail |-> FALSE]

\* The map that the lines leave of an older one: the last line for a key counts.
Updated(map, lines, key, value) ==
  LET keys == {lines[i][key] : i \in 1..Len(lines)}
      last(k) == lines[SelectLastInSeq(lines, LAMBDA line : line[key] = k)][value]
  IN  [k \in DOMAIN map \cup keys |-> IF k \in keys THEN last(k) ELSE map[k]]

Init ==
  /\ mode \in Modes
  /\ folder \in BOOLEAN
  /\ backup \in Contents \cup {NoFile}
  /\ local \in Contents \cup {NoFile}
  /\ changed = 1
  /\ second = 1
  /\ edits = 0
  /\ missed = FALSE
  /\ lastLoad = 0
  /\ step = "http"
  /\ count = 0
  /\ ss = NoStream
  /\ loaded = {}
  /\ callsigns = NoMap
  /\ ids = NoMap
  /\ spoiled = FALSE

-----------------------------------------------------------------------------

Tick ==
  /\ second < MaxSeconds
  /\ second' = second + 1
  /\ UNCHANGED <<mode, folder, local, changed, edits, missed, backup, threadVars, mapVars>>

Edit(x, t) ==
  /\ edits < MaxEdits
  /\ edits' = edits + 1
  /\ x # local
  /\ local' = x
  /\ changed' = t
  /\ missed' = (x # NoFile /\ (t <= lastLoad \/ step = "stamp"))
  /\ UNCHANGED <<mode, folder, second, backup, threadVars, mapVars>>

-----------------------------------------------------------------------------

\* Mutant: the backup is not written.
Forget(x) == backup

\* BackupHttp.
BackupHttp(x) == IF folder THEN x ELSE backup

Due == mode # "file" /\ count = 0

\* LoadContentHttp: the answer becomes the backup, whatever it is.
Download(x) ==
  /\ step = "http" /\ Due
  /\ ss' = [lines |-> x.lines, ended |-> x.ended, fail |-> FALSE]
  /\ backup' = BackupHttp(x)
  /\ loaded' = {"http"}
  /\ step' = "file"
  /\ count' = (count + 1) % WaitCycles
  /\ UNCHANGED <<mode, worldVars, lastLoad, mapVars>>

\* It fails, after some lines perhaps, the last one cut off: the backup is added.
DownloadFails(got) ==
  /\ step = "http" /\ Due
  /\ LET part == IF got = NoFile THEN NoStream ELSE [lines |-> got.lines, ended |-> FALSE, fail |-> FALSE]
     IN  ss' = IF backup = NoFile THEN part ELSE AddText(part, backup)
  /\ loaded' = IF backup = NoFile THEN {} ELSE {"http"}
  /\ step' = "file"
  /\ count' = (count + 1) % WaitCycles
  /\ UNCHANGED <<mode, worldVars, backup, lastLoad, mapVars>>

\* It is not due.
NoDownload ==
  /\ step = "http" /\ ~Due
  /\ count' = IF mode = "file" THEN count ELSE (count + 1) % WaitCycles
  /\ step' = "file"
  /\ UNCHANGED <<mode, worldVars, backup, lastLoad, ss, loaded, mapVars>>

\* Mutant: the file is loaded only when it is younger.
Younger == mode # "http" /\ lastLoad < changed /\ local # NoFile

\* The file is loaded after a download and when it is younger than the last load;
\* a file that is not there has time 0.
WantFile ==
  mode # "http" /\ ("http" \in loaded \/ (local # NoFile /\ lastLoad < changed))

LoadContentFile ==
  /\ step = "file"
  /\ IF WantFile
     THEN /\ IF local = NoFile
             THEN UNCHANGED <<ss, loaded>>
             ELSE ss' = AddText(ss, local) /\ loaded' = loaded \cup {"file"}
          /\ step' = "stamp"
     ELSE step' = "update" /\ UNCHANGED <<ss, loaded>>
  /\ UNCHANGED <<mode, worldVars, backup, lastLoad, count, mapVars>>

\* time(&m_LastLoadTime)
Stamp ==
  /\ step = "stamp"
  /\ lastLoad' = second
  /\ step' = "update"
  /\ UNCHANGED <<mode, worldVars, backup, count, ss, loaded, mapVars>>

ClearContents == "http" \in loaded \/ mode = "file"

\* UpdateContent, under the mutex, after which the thread sleeps.
Update ==
  /\ step = "update"
  /\ LET lines == IF ss.fail THEN <<>> ELSE ss.lines
         old(map) == IF ClearContents THEN NoMap ELSE map
     IN  IF loaded # {}
         THEN /\ callsigns' = Updated(old(callsigns), lines, 1, 2)
              /\ ids' = Updated(old(ids), lines, 2, 1)
         ELSE UNCHANGED <<callsigns, ids>>
  /\ spoiled' = IF "http" \in loaded THEN ss.fail ELSE spoiled
  /\ ss' = NoStream
  /\ loaded' = {}
  /\ step' = "http"
  /\ UNCHANGED <<mode, worldVars, backup, lastLoad, count>>

Thread ==
  \/ \E x \in Contents : Download(x)
  \/ \E x \in Contents \cup {NoFile} : DownloadFails(x)
  \/ NoDownload \/ LoadContentFile \/ Stamp \/ Update

Next ==
  \/ Tick
  \/ \E t \in 1..second : \E x \in Contents \cup {NoFile} : Edit(x, t)
  \/ Thread

Spec == Init /\ [][Next]_vars
FairSpec == Spec /\ WF_vars(Thread)

-----------------------------------------------------------------------------

\* The directory has the lines of x, from the given one on.
Holds(x, from) ==
  \A i \in from..Len(x.lines) :
    (\A j \in i + 1..Len(x.lines) : x.lines[j][1] # x.lines[i][1])
      => x.lines[i][1] \in DOMAIN callsigns /\ callsigns[x.lines[i][1]] = x.lines[i][2]

\* ... or at least their ids.
Knows(x, from) == \A i \in from..Len(x.lines) : x.lines[i][1] \in DOMAIN callsigns

(***************************************************************************)
(* After a download, failed or not, the directory has all of what the      *)
(* server last sent, and a restart without the server would find it in the *)
(* backup: with a file too at least every id of it, until the file is      *)
(* loaded again and after.  Unless a source without text spoiled it, or    *)
(* the backup cannot be written; and the first line may have been          *)
(* swallowed by a line that the failed download cut off.                   *)
(***************************************************************************)
BackupHeld ==
  step = "http" /\ count # 0 /\ folder /\ ~spoiled /\ backup # NoFile =>
    /\ mode = "http" => Holds(backup, 2)
    /\ mode = "both" => Knows(backup, 2)

(***************************************************************************)
(* The inductive invariant behind BackupHeld: the lines of the backup are  *)
(* on their way in the stream, one after the other and in mode "http" the  *)
(* last of it, or they have arrived.                                       *)
(***************************************************************************)
Carried ==
  \E before \in -1..Len(ss.lines) :
    /\ \A i \in 2..Len(backup.lines) :
         before + i \in DOMAIN ss.lines /\ ss.lines[before + i] = backup.lines[i]
    /\ mode = "http" => before + Len(backup.lines) = Len(ss.lines)

Inv ==
  /\ mode \in Modes /\ step \in {"http", "file", "stamp", "update"}
  /\ backup \in Contents \cup {NoFile} /\ local \in Contents \cup {NoFile}
  /\ count \in 0..WaitCycles - 1
  /\ ss \in [lines : Seq(Range(ss.lines)), ended : BOOLEAN, fail : BOOLEAN]
  /\ loaded \subseteq {"http", "file"}
  /\ step = "http" => loaded = {} /\ ss = NoStream
  /\ mode = "http" => step # "stamp" /\ "file" \notin loaded
  /\ folder /\ "http" \in loaded => backup # NoFile /\ (ss.fail \/ Carried)
  /\ count # 0 /\ folder /\ ~spoiled /\ backup # NoFile /\ "http" \notin loaded =>
       (mode = "http" => Holds(backup, 2)) /\ (mode = "both" => Knows(backup, 2))

(***************************************************************************)
(* What the local file says is in the directory in the end, whatever the   *)
(* server says of the same id: unless the file got a time not later than   *)
(* that of the load before; the first line may have been swallowed.        *)
(***************************************************************************)
FileHeld ==
  step = "http" /\ mode # "http" /\ local # NoFile /\ ~missed /\ ~spoiled
    => Holds(local, IF mode = "file" THEN 1 ELSE 2)
=============================================================================
