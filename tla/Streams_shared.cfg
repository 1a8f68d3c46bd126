SPECIFICATION Spec
CONSTANTS
  Active = {"dcs", "dextra"}
  Clients = {"dcs", "dextra"}
  ProtoOf <- MCProtoOf
  Modules = {A}
  StreamIds = {s1}
  Reach <- MCShared
  MaxQueue = 1
  A = A
  B = B
  C = C
  s1 = s1
  s2 = s2
  NoClient = NoClient
  NoModule = NoModule
  NoSid = NoSid
INVARIANTS
  OpenMeansMastered
