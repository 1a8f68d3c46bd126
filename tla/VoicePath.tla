------------------------------ MODULE VoicePath ------------------------------
(***************************************************************************)
(* What the way through the transcoder promises to the listeners of a      *)
(* module: frames may be lost, but those that are heard are heard once and *)
(* in the order in which they were said.  Frames are numbered as said.     *)
(***************************************************************************)
EXTENDS Naturals, Sequences

VARIABLES
  said,    \* how many frames were said
  heard    \* the numbers of the frames heard, in order

pathVars == <<said, heard>>

Init ==
  /\ said = 0
  /\ heard = <<>>

Say ==
  /\ said' = said + 1
  /\ UNCHANGED heard

Hear ==
  /\ \E n \in 1..said :
       /\ heard = <<>> \/ heard[Len(heard)] < n
       /\ heard' = Append(heard, n)
  /\ UNCHANGED said

Next == Say \/ Hear

Spec == Init /\ [][Next]_pathVars
=============================================================================
