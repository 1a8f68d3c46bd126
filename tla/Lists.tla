-------------------------------- MODULE Lists --------------------------------
(***************************************************************************)
(* The white and the black list (reflector/GateKeeper.cpp,                 *)
(* BlackWhiteSet.cpp): the gate keeper's thread loads a list again when    *)
(* the modification time of its file is not the one it knows, and the      *)
(* protocol threads ask the lists who may link and transmit.  (The third   *)
(* list, the interlink map, is in Interlink.)                              *)
(*                                                                         *)
(* The files are changed at any time, and may get an older time.           *)
(***************************************************************************)
EXTENDS Naturals, Sequences, SequencesExt

CONSTANTS
  Callsigns,  \* the callsigns that ask, as sequences of letters
  Versions,   \* what each file may hold: [lines, ended], see Lines
  NoFile,     \* there is no such file
  MaxTime,    \* bound: seconds
  MaxWrites   \* bound: changes of the files

\* The two lists, in the order the thread looks at them.
Names == {"white", "black"}

\* A line: an item, with its letters up to the *, if it has one; a comment or
\* blank line; or one of 255 characters and more.
Lines == [kind : {"item", "comment", "long"}, stem : Seq(UNION {ToSet(c) : c \in Callsigns}),
          wild : BOOLEAN]

\* What the constants have to be.
ListsAssumption ==
  /\ \A n \in Names : \A v \in Versions[n] : v # NoFile /\ v.ended \in BOOLEAN
  /\ MaxTime \in Nat /\ MaxWrites \in Nat

VARIABLES
  file,       \* name -> the file, or NoFile
  mtime,      \* name -> its modification time
  clock,      \* the time, in seconds
  writes,     \* changes made to the files
  filename,   \* name -> m_Filename is set
  modTime,    \* name -> m_LastModTime
  listed,     \* name -> m_Callsigns
  locked,     \* the lists whose mutex the thread holds
  keeper,     \* where the thread is: [at, name, read]
  asking,     \* a protocol thread in MayTransmit: [cs, at], cs = <<>> if none is
  admitted,   \* those who were let in
  raced       \* name -> written while it was loaded, or again within the second

fileVars == <<file, mtime, clock, writes>>
setVars == <<filename, modTime, listed, locked>>
vars == <<fileVars, setVars, keeper, asking, admitted, raced>>

Waiting == [at |-> "wait", name |-> "white", read |-> {}]
Nobody == [cs |-> <<>>, at |-> "white"]

\* What getline reads well: the lines before the first that is too long, and
\* of these not the last if no newline ends it.
Loaded(v) ==
  LET good == {i \in 1..Len(v.lines) : \A j \in 1..i : v.lines[j].kind # "long"}
      last == IF v.ended THEN {} ELSE {Len(v.lines)}
  IN  {[stem |-> v.lines[i].stem, wild |-> v.lines[i].wild] :
         i \in {k \in good \ last : v.lines[k].kind = "item"}}

IsMatched(set, cs) ==
  \E item \in set : IF item.wild THEN IsPrefix(item.stem, cs) ELSE item.stem = cs

\* An empty white list lets everybody pass, an empty black list too.
Passes(n, set, cs) == IF n = "white" THEN set = {} \/ IsMatched(set, cs) ELSE ~IsMatched(set, cs)

\* CGateKeeper::Init: the files there are have been loaded.
Init ==
  /\ file \in [Names -> (UNION {Versions[n] : n \in Names}) \cup {NoFile}]
  /\ \A n \in Names : file[n] \in Versions[n] \cup {NoFile}
  /\ mtime = [n \in Names |-> 0]
  /\ clock = 1
  /\ writes = 0
  /\ filename = [n \in Names |-> file[n] # NoFile]
  /\ modTime = [n \in Names |-> 0]
  /\ listed = [n \in Names |-> IF file[n] = NoFile THEN {} ELSE Loaded(file[n])]
  /\ locked = {}
  /\ keeper = Waiting
  /\ asking = Nobody
  /\ admitted = {}
  /\ raced = [n \in Names |-> FALSE]

-----------------------------------------------------------------------------

\* A file is made, replaced or removed.
Write(n, v, t) ==
  /\ writes < MaxWrites
  /\ writes' = writes + 1
  /\ v \in Versions[n] \cup {NoFile} /\ v # file[n]
  /\ file' = [file EXCEPT ![n] = v]
  /\ mtime' = [mtime EXCEPT ![n] = t]
  /\ raced' = [raced EXCEPT ![n] = \/ @
                                   \/ keeper.at \in {"cleared", "filled"} /\ keeper.name = n
                                   \/ t = modTime[n]]
  /\ UNCHANGED <<clock, setVars, keeper, asking, admitted>>

Tick ==
  /\ clock < MaxTime
  /\ clock' = clock + 1
  /\ UNCHANGED <<file, mtime, writes, setVars, keeper, asking, admitted, raced>>

-----------------------------------------------------------------------------

\* Mutant: only a younger file is loaded.
Younger(n) == filename[n] /\ file[n] # NoFile /\ mtime[n] > modTime[n]

NeedReload(n) == filename[n] /\ file[n] # NoFile /\ mtime[n] # modTime[n]

\* The thread wakes up.
Wake ==
  /\ keeper.at = "wait"
  /\ keeper' = [keeper EXCEPT !.at = "check", !.name = "white"]
  /\ UNCHANGED <<fileVars, setVars, asking, admitted, raced>>

\* On to the next list, or to sleep.
After(n) == IF n = "white" THEN [Waiting EXCEPT !.at = "check", !.name = "black"] ELSE Waiting

Keep(n) ==
  /\ keeper.at = "check" /\ keeper.name = n
  /\ ~NeedReload(n)
  /\ keeper' = After(n)
  /\ UNCHANGED <<fileVars, setVars, asking, admitted, raced>>

\* Mutant: the mutex is not taken.
LockNothing(n) == locked

Lock(n) == locked \cup {n}

\* LoadFromFile: the file is open, the list locked and cleared.
Clear(n) ==
  /\ keeper.at = "check" /\ keeper.name = n
  /\ NeedReload(n)
  /\ keeper' = [keeper EXCEPT !.at = "cleared", !.read = Loaded(file[n])]
  /\ locked' = Lock(n)
  /\ listed' = [listed EXCEPT ![n] = {}]
  /\ raced' = [raced EXCEPT ![n] = FALSE]
  /\ UNCHANGED <<fileVars, filename, modTime, asking, admitted>>

\* The lines are in; of a file that was replaced since, the old ones.
Fill(n) ==
  /\ keeper.at = "cleared" /\ keeper.name = n
  /\ keeper' = [keeper EXCEPT !.at = "filled", !.read = {}]
  /\ listed' = [listed EXCEPT ![n] = keeper.read]
  /\ UNCHANGED <<fileVars, filename, modTime, locked, asking, admitted, raced>>

\* The time of the file is taken, if it is still there.
Stat(n) ==
  /\ keeper.at = "filled" /\ keeper.name = n
  /\ modTime' = IF file[n] = NoFile THEN modTime ELSE [modTime EXCEPT ![n] = mtime[n]]
  /\ locked' = locked \ {n}
  /\ keeper' = After(n)
  /\ UNCHANGED <<fileVars, filename, listed, asking, admitted, raced>>

Thread == Wake \/ \E n \in Names : Keep(n) \/ Clear(n) \/ Fill(n) \/ Stat(n)

-----------------------------------------------------------------------------

\* MayTransmit and MayLink.
Ask(cs) ==
  /\ asking = Nobody
  /\ asking' = [Nobody EXCEPT !.cs = cs]
  /\ UNCHANGED <<fileVars, setVars, keeper, admitted, raced>>

\* IsNodeListedOk: the white list, then the black one, each under its mutex.
IsNodeListedOk(n) ==
  /\ asking.cs # <<>> /\ asking.at = n
  /\ n \notin locked
  /\ \/ /\ ~Passes(n, listed[n], asking.cs)
        /\ asking' = Nobody
        /\ UNCHANGED admitted
     \/ /\ Passes(n, listed[n], asking.cs)
        /\ asking' = IF n = "white" THEN [asking EXCEPT !.at = "black"] ELSE Nobody
        /\ admitted' = IF n = "white" THEN admitted ELSE admitted \cup {asking.cs}
  /\ UNCHANGED <<fileVars, setVars, keeper, raced>>

Next ==
  \/ \E n \in Names : \E t \in 0..clock : \E v \in Versions[n] \cup {NoFile} : Write(n, v, t)
  \/ Tick
  \/ Thread
  \/ \E cs \in Callsigns : Ask(cs)
  \/ \E n \in Names : IsNodeListedOk(n)

Spec == Init /\ [][Next]_vars
FairSpec == Spec /\ WF_vars(Thread)

-----------------------------------------------------------------------------

(***************************************************************************)
(* Nobody gets in whom every version of the white file leaves out, or      *)
(* every version of the black file names, as long as the file was there at *)
(* the start and the white file never has no items: no one who asks while  *)
(* a list is loaded finds it empty.                                        *)
(***************************************************************************)
NobodyUnlisted ==
  \A cs \in Callsigns :
    \/ /\ filename["white"]
       /\ \A v \in Versions["white"] : Loaded(v) # {} /\ ~IsMatched(Loaded(v), cs)
    \/ /\ filename["black"]
       /\ \A v \in Versions["black"] : IsMatched(Loaded(v), cs)
    => cs \notin admitted

(***************************************************************************)
(* What the lists end up as: what their files say, of the files that were  *)
(* there at the start, unless one was written while it was loaded, or got  *)
(* a time within the same second as the one loaded.                        *)
(***************************************************************************)
Settled ==
  \A n \in Names :
    filename[n] /\ file[n] # NoFile /\ ~raced[n] => listed[n] = Loaded(file[n])

(***************************************************************************)
(* The inductive invariant behind NobodyUnlisted: a list that is not       *)
(* locked holds what some version of its file says, and who is asked about *)
(* at the black list has passed the white one.                             *)
(***************************************************************************)
Readings == {{}} \cup {Loaded(v) : v \in UNION {Versions[n] : n \in Names}}

\* What a list, or the thread on its way to it, may hold.
Faithful(n, set) == \E v \in Versions[n] : set = Loaded(v)

\* No version of the list lets it pass.
ShutOut(n, cs) == filename[n] /\ \A v \in Versions[n] : ~Passes(n, Loaded(v), cs)

TypeOK ==
  /\ file \in [Names -> (UNION {Versions[n] : n \in Names}) \cup {NoFile}]
  /\ filename \in [Names -> BOOLEAN]
  /\ listed \in [Names -> Readings]
  /\ locked \subseteq Names
  /\ keeper \in [at : {"wait", "check", "cleared", "filled"}, name : Names, read : Readings]
  /\ asking \in [cs : Callsigns \cup {<<>>}, at : Names]

Sound ==
  /\ locked = IF keeper.at \in {"cleared", "filled"} THEN {keeper.name} ELSE {}
  /\ keeper.at = "cleared" => Faithful(keeper.name, keeper.read)
  /\ keeper.at = "filled" => Faithful(keeper.name, listed[keeper.name])
  /\ \A n \in Names : filename[n] /\ n \notin locked => Faithful(n, listed[n])

Inv ==
  /\ TypeOK /\ Sound
  /\ \A n \in Names : file[n] \in Versions[n] \cup {NoFile}
  /\ asking.cs # <<>> /\ asking.at = "black" => ~ShutOut("white", asking.cs)
  /\ \A cs \in admitted : ~ShutOut("white", cs) /\ ~ShutOut("black", cs)
=============================================================================
