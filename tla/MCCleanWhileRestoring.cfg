SPECIFICATION DaemonSpec
CONSTANTS
  f = f
  g = g
  Files <- MCOneFile
  Dirs <- MCNoDirs
  Parent <- MCParent
  NoDir = NoDir
  MaxWrites = 2
  SameSecond = FALSE
  MaxNames = 2
  MaxQueue = 1
  MaxFaults = 0
  MaxCrashes = 1
  MaxDeletes = 1
  EarlyCommands = TRUE
  Commands <- MCAddClean
  Removable <- MCNoFiles
CHECK_DEADLOCK FALSE
INVARIANTS
  QueuedDeletesAreUntracked
