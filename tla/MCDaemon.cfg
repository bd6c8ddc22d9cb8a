SPECIFICATION DaemonSpec
CONSTANTS
  f = f
  g = g
  Files <- MCOneFile
  Dirs <- MCNoDirs
  Parent <- MCParent
  NoDir = NoDir
  MaxWrites = 2
  SameSecond = FALSE
  MaxNames = 2
  MaxQueue = 1
  MaxFaults = 0
  MaxCrashes = 1
  MaxDeletes = 1
  EarlyCommands = FALSE
  Commands <- MCAllCommands
  Removable <- MCOneFile
CHECK_DEADLOCK FALSE
INVARIANTS
  DaemonTypeOK
  HashIndexAgrees
  QueuedDeletesAreUntracked
  FlaggedIsStored
  IndexMatchesDb
PROPERTIES
  IndexIsWrittenBehind
