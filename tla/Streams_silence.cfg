SPECIFICATION FairSpec
CONSTANTS
  Active = {"urf", "dcs", "p25"}
  Clients = {"urf", "dcs", "p25"}
  ProtoOf <- MCProtoOf
  Modules = {A, B, C}
  StreamIds = {s1}
  Reach <- MCDedicated
  MaxQueue = 1
  A = A
  B = B
  C = C
  s1 = s1
  s2 = s2
  NoClient = NoClient
  NoModule = NoModule
  NoSid = NoSid
PROPERTIES
  FloorsFreed
