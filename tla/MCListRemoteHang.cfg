SPECIFICATION Spec
CONSTANTS
  Threads <- MCThreads
  Functions <- MCFunctions
  Mutexes <- MCMutexes
  Loop <- MCListRemoteLoop
  Calls <- MCCalls
  LockOf <- MCLockOf
  Leaky <- ReturnLocked
  Sessions <- APISessions
  Guard = "Remote"
  Rank <- MutexRank
  NoLock = "none"
  NoCall = "none"
  Nobody = "none"
INVARIANTS
  NoCircularWait
