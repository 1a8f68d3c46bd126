-------------------------------- MODULE Floor --------------------------------
(***************************************************************************)
(* What the streams of a reflector promise to the people who talk: one     *)
(* talker at a time has the floor of a module, nobody has two floors, a    *)
(* transmission starts on a silent module, and the floor is given up only  *)
(* when everything said on it has been routed.                             *)
(***************************************************************************)
EXTENDS Naturals

CONSTANTS Clients, Modules, NoClient, MaxQueue

VARIABLES
  holder,   \* who has the floor of each module
  air       \* packets said on a module and not routed yet

floorVars == <<holder, air>>

Init ==
  /\ holder = [m \in Modules |-> NoClient]
  /\ air = [m \in Modules |-> 0]

Take(c, m) ==
  /\ holder[m] = NoClient
  /\ \A n \in Modules : holder[n] # c
  /\ air[m] = 0
  /\ holder' = [holder EXCEPT ![m] = c]
  /\ air' = [air EXCEPT ![m] = 1]

Speak(m) ==
  /\ holder[m] # NoClient
  /\ air[m] < MaxQueue
  /\ air' = [air EXCEPT ![m] = @ + 1]
  /\ UNCHANGED holder

Play(m) ==
  /\ air[m] > 0
  /\ air' = [air EXCEPT ![m] = @ - 1]
  /\ UNCHANGED holder

GiveUp(m) ==
  /\ holder[m] # NoClient
  /\ air[m] = 0
  /\ holder' = [holder EXCEPT ![m] = NoClient]
  /\ UNCHANGED air

Next ==
  \E m \in Modules :
    \/ \E c \in Clients : Take(c, m)
    \/ Speak(m)
    \/ Play(m)
    \/ GiveUp(m)

Spec == Init /\ [][Next]_floorVars
=============================================================================
