SPECIFICATION BackupFairSpec
CONSTANTS
  MaxChanges = 2
  MaxFaults = 1
  MaxStops = 2
  MaxLosses = 2
INVARIANTS
  BackupTypeOK
  BackupIsDue
  StopForgetsNothing
PROPERTIES
  BackupSettles
CHECK_DEADLOCK FALSE
