SPECIFICATION FairSpec
CONSTANTS
  f = f
  g = g
  Files <- MCFiles
  Dirs <- MCNoDirs
  Parent <- MCParent
  NoDir = NoDir
  MaxWrites = 2
  SameSecond = TRUE
  MaxNames = 2
  MaxQueue = 2
  MaxFaults = 2
  MaxCrashes = 1
INVARIANTS
  TypeOK
  PassAccounting
  UnvisitedStayQueued
PROPERTIES
  DeletesDrain
