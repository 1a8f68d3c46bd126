SPECIFICATION FairSpec
CONSTANTS
  A = A
  B = B
  Modules = {A}
  CodecIns = {"dstar", "c2_1600", "c2_3200", "p25"}
  MaxPackets = 3
  DepthRange = 8
  Timely = TRUE
  Faulty = FALSE
CHECK_DEADLOCK FALSE
INVARIANTS
  OwnVoice
PROPERTIES
  RepliesInOrder
  AllReplied
