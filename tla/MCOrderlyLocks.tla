---------------------------- MODULE MCOrderlyLocks ----------------------------
(* The daemon without the two commands that break its locking discipline,    *)
(* "list remote" and "restore-index": the assumptions of OrderedNesting hold *)
(* of everything that is left.  "clean" is left in with its early return.    *)
EXTENDS OrderedNesting, DaemonCalls

MCThreads == {"watch", "remote", "socket"}
MCMutexes == {"Watch", "Remote", "S3", "DB"}

MCFunctions == (LockWatch \cup LockRemote \cup LockS3 \cup LockDB \cup LockFree)
               \ {"listObjects", "restoreIndex"}
MCLoop == ThreadLoops(CommandFunctions \ {"listObjects", "restoreIndex"})
MCCalls == [f \in MCFunctions |-> Callees(f)]
MCLockOf == [f \in MCFunctions |->
               IF \E m \in MCMutexes : f \in Locking(m)
               THEN CHOOSE m \in MCMutexes : f \in Locking(m)
               ELSE NoLock]
MCLevel == [f \in MCFunctions |->
              IF MCLockOf[f] /= NoLock THEN MutexRank[MCLockOf[f]]
              ELSE CASE f \in APISessions -> 2
                     [] f \in {"uploadSuccess", "verifyHash"} -> 3
                     [] OTHER -> 0]

===============================================================================
