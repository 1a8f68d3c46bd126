SPECIFICATION FairSpec
CONSTANTS
  StreamIds = {s1, s2}
  MaxTalks = 3
  MaxFrames = 3
  Lossy = TRUE
  s1 = s1
  s2 = s2
  s3 = s3
INVARIANTS
  NeverWaitsThen
  RightVoiceThen
  OnlyLostMissing
PROPERTIES
  VoiceInOrder
  FramesComeBack
CHECK_DEADLOCK FALSE
