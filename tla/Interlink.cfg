SPECIFICATION FairSpec
CONSTANTS
  R1 = R1
  R2 = R2
  X = X
  A = A
  B = B
  None = None
  Reflectors = {R1, R2}
  Others = {X}
  Modules <- MCModules
  Spoken = {A}
  Coded <- MCCoded
  Stamp <- MCStamp
  Entries <- MCEntries
  FirstFiles <- MCFirstFiles
  Timeout = 3
  Rewrites <- MCRewrites
  Restarts = {R1}
  MaxChanges = 1
CHECK_DEADLOCK FALSE
INVARIANTS
  ClientsFollowPeers
PROPERTIES
  LinkOutlivesTalk
  LinksComeUp
  LinksGoDown
  NoHalfLinks
