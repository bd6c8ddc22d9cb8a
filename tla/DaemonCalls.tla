----------------------------- MODULE DaemonCalls -----------------------------
(***************************************************************************)
(* The functions of the daemon that take a mutex, or call one that does:   *)
(* which thread runs them, which of the mutexes Watch::mtx, Remote::mtx,   *)
(* S3::mtx and DB::mtx each takes, and what each may call while it holds   *)
(* it.  A name such as "callAPI delete" stands for a function called with  *)
(* that argument, "restoreFileIdx row" for the locked part of one round of *)
(* a loop, "cleanRemote list" for the part of cleanRemote that is between  *)
(* lock() and unlock(), "cleanRemote early return" for a run of it that    *)
(* finds no objects, or cannot list them, and returns between the two.     *)
(***************************************************************************)

\* The functions Session::handle_read calls, one for each command.
CommandFunctions == {"addWatch", "delWatch", "listLocal", "listObjects", "downloadFiles",
                     "cleanRemote", "cleanRemote early return", "restoreIndex"}

\* What the loop of each thread calls; clients send some of the commands.
ThreadLoops(commands) ==
  [watch  |-> {"restoreDB", "scanFileChange", "execQueuedSQL", "indexBackup"},
   remote |-> {"uploadRemotes", "deleteRemotes"},
   socket |-> commands]

LockWatch == {"addWatch", "delWatch", "scanFileChange", "execQueuedSQL", "indexBackup",
              "restoreFileIdx row", "restoreDirIdx row", "restoreIdxBackupName row",
              "deriveIdxBackupName", "listWatchDirs", "listWatchFiles", "resolvePathHash"}

LockRemote == {"uploadRemotes", "deleteRemotes", "downloadRemotes", "queueForUpload",
               "queueForDownload", "queueForDelete", "listObjects", "cleanRemote list",
               "cleanRemote early return"}

\* What returns with the mutex it took at its head still locked.
ReturnLocked == {"cleanRemote early return"}

LockS3 == {"uploadFromQueue", "downloadFromQueue", "deleteFromQueue"}
LockDB == {"execSQL"}

\* The functions whose scoped_lock is for mutex m.
Locking(m) ==
  CASE m = "Watch"  -> LockWatch
    [] m = "Remote" -> LockRemote
    [] m = "S3"     -> LockS3
    [] m = "DB"     -> LockDB

\* Watch before Remote and DB, Remote before S3.
MutexRank == [Watch |-> 1, Remote |-> 2, S3 |-> 3, DB |-> 4]

\* What the functions of class Watch call ...
WatchCallees(f) ==
  CASE f = "restoreDB" ->
         {"restoreFileIdx row", "restoreDirIdx row", "restoreIdxBackupName row",
          "deriveIdxBackupName", "listWatchDirs", "listWatchFiles"}
    [] f \in {"scanFileChange", "addWatch"} -> {"queueForUpload"}
    [] f = "delWatch" -> {"queueForDelete"}
    [] f \in {"execQueuedSQL", "deriveIdxBackupName"} -> {"execSQL"}
    [] f = "indexBackup" -> {"execSQL", "queueForUpload"}
    [] f = "listLocal" -> {"listWatchDirs", "listWatchFiles"}
    [] f = "downloadFiles" -> {"queueForDownload", "downloadRemotes"}
    [] f = "restoreIndex" -> {"callAPI listObjects", "callAPI downloadNow"}
    [] OTHER -> {}

\* ... those of class Remote ...
RemoteCallees(f) ==
  CASE f = "uploadRemotes" -> {"callAPI upload"}
    [] f = "deleteRemotes" -> {"callAPI delete"}
    [] f = "downloadRemotes" -> {"callAPI download"}
    [] f = "listObjects" -> {"callAPI listObjects", "resolvePathHash"}
    [] f = "cleanRemote" -> {"cleanRemote list", "resolvePathHash", "queueForDelete"}
    [] f \in {"cleanRemote list", "cleanRemote early return"} -> {"callAPI listObjects"}
    [] OTHER -> {}

\* ... and those of class S3, by way of Remote::uploadSuccess and the like.
S3Callees(f) ==
  CASE f = "callAPI upload" -> {"uploadFromQueue"}
    [] f = "callAPI delete" -> {"deleteFromQueue"}
    [] f = "callAPI download" -> {"downloadFromQueue"}
    [] f = "uploadFromQueue" -> {"uploadSuccess"}
    [] f = "downloadFromQueue" -> {"verifyHash"}
    [] OTHER -> {}

Callees(f) == WatchCallees(f) \cup RemoteCallees(f) \cup S3Callees(f)

\* The functions that take no mutex themselves.  Watch::uploadSuccess is one of
\* them although it changes the index, which Watch::mtx protects elsewhere.
LockFree == {"restoreDB", "listLocal", "downloadFiles", "cleanRemote", "restoreIndex",
             "callAPI upload", "callAPI download", "callAPI delete", "callAPI listObjects",
             "callAPI downloadNow", "uploadSuccess", "verifyHash"}

\* The calls of S3::callAPI: Aws::InitAPI ... Aws::ShutdownAPI.
APISessions == {"callAPI upload", "callAPI download", "callAPI delete", "callAPI listObjects",
                "callAPI downloadNow"}

===============================================================================
