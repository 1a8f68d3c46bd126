SPECIFICATION HSpec
CONSTANTS
  Active = {"ysf", "dplus", "dextra", "nxdn", "mmdvm", "m17"}
  Clients = {"ysf", "ysf 2", "dplus", "dextra", "nxdn", "mmdvm", "m17"}
  ProtoOf <- MCProtoOf
  Modules = {A, B}
  StreamIds = {s1, s2}
  Reach <- MCOverlapping
  MaxQueue = 2
  A = A
  B = B
  C = C
  s1 = s1
  s2 = s2
  NoClient = NoClient
  NoModule = NoModule
  NoSid = NoSid
CONSTRAINTS
  MCOneParty
  MCWindDown
SYMMETRY MCSymmetry
INVARIANTS
  TypeOK
  AgreeUntilCrossed
  MastersListed
  LockedSidsUnique
PROPERTIES
  FloorUntilCrossed
