SPECIFICATION Spec
CONSTANTS
  Active = {"m17", "dcs"}
  Clients = {"m17", "dcs"}
  ProtoOf <- MCProtoOf
  Modules = {A, B}
  StreamIds = {s1}
  Reach <- MCShared
  MaxQueue = 1
  A = A
  B = B
  C = C
  s1 = s1
  s2 = s2
  NoClient = NoClient
  NoModule = NoModule
  NoSid = NoSid
INVARIANTS
  SidsUnique
