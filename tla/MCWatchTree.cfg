SPECIFICATION TreeFairSpec
CONSTANTS
  d = d
  s = s
  f = f
  Files <- MCFiles
  Dirs <- MCDirs
  Parent <- MCParent
  NoDir = NoDir
  MaxWrites = 1
  SameSecond = FALSE
  MaxCommands = 2
  MaxMakes = 1
  MaxCrashes = 1
INVARIANTS
  TreeTypeOK
  ReplayGivesIndex
  DeletedSoFar
PROPERTIES
  EntriesGetWatched
  VanishedDirsLeave
