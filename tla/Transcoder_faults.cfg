SPECIFICATION Spec
CONSTANTS
  A = A
  B = B
  Modules = {A, B}
  CodecIns = {"dmr"}
  MaxPackets = 3
  DepthRange = 8
  Timely = FALSE
  Faulty = TRUE
CHECK_DEADLOCK FALSE
INVARIANTS
  RepliesSound
