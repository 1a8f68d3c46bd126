SPECIFICATION Spec
CONSTANTS
  StreamIds = {s1, s2}
  MaxTalks = 2
  MaxFrames = 3
  Lossy = FALSE
  s1 = s1
  s2 = s2
  s3 = s3
INVARIANTS
  NeverWaits
