SPECIFICATION Spec
CONSTANTS
  Threads <- MCThreads
  Functions <- MCFunctions
  Mutexes <- MCMutexes
  Loop <- MCLoop
  Calls <- MCCalls
  LockOf <- MCLockOf
  Leaky <- ReturnLocked
  Sessions <- APISessions
  Guard = "Remote"
  Rank <- MutexRank
  Level <- MCLevel
  NoLock = "none"
  NoCall = "none"
  Nobody = "none"
INVARIANTS
  TypeOK
  OwnersRunTheirFunctions
  LockOrder
  HangsOnlyOnLeftLocks
  OneSession
CHECK_DEADLOCK FALSE
