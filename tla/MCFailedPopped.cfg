SPECIFICATION Spec
CONSTANTS
  f = f
  g = g
  Files <- MCFiles
  Dirs <- MCNoDirs
  Parent <- MCParent
  NoDir = NoDir
  MaxWrites = 2
  SameSecond = TRUE
  MaxNames = 3
  MaxQueue = 2
  MaxFaults = 2
  MaxCrashes = 0
INVARIANTS
  FailedStayQueued
