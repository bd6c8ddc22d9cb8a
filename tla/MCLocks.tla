------------------------------- MODULE MCLocks -------------------------------
(* The daemon, all its functions, with one command served at a time: for the *)
(* commands that do not keep to the locking discipline.                      *)
EXTENDS LockNesting, DaemonCalls

MCThreads == {"watch", "remote", "socket"}
MCMutexes == {"Watch", "Remote", "S3", "DB"}
MCFunctions == LockWatch \cup LockRemote \cup LockS3 \cup LockDB \cup LockFree
MCCalls == [f \in MCFunctions |-> Callees(f)]
MCLockOf == [f \in MCFunctions |->
               IF \E m \in MCMutexes : f \in Locking(m)
               THEN CHOOSE m \in MCMutexes : f \in Locking(m)
               ELSE NoLock]

MCListRemoteLoop == ThreadLoops({"listObjects"})

===============================================================================
