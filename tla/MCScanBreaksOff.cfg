SPECIFICATION DaemonFairSpec
CONSTANTS
  f = f
  g = g
  Files <- MCOneFile
  Dirs <- MCNoDirs
  Parent <- MCParent
  NoDir = NoDir
  MaxWrites = 2
  SameSecond = FALSE
  MaxNames = 3
  MaxQueue = 1
  MaxFaults = 0
  MaxCrashes = 0
  MaxDeletes = 1
  EarlyCommands = FALSE
  Commands <- MCAddOnly
  Removable <- MCOneFile
PROPERTIES
  ChangesBecomeVersions
