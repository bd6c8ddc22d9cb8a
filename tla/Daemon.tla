------------------------------- MODULE Daemon -------------------------------
(***************************************************************************)
(* The daemon (encloned.cpp): the watch thread, the remote thread and the  *)
(* socket thread, which carries out one client command after the other     *)
(* (Socket.cpp), beside other programs that change the watched files.      *)
(* FileIndex says what class Watch does, TransferQueue what classes Remote,*)
(* S3 and Queue do; here they share their two mutexes and the index.       *)
(***************************************************************************)
EXTENDS FileIndex

CONSTANTS Commands,    \* what clients ask for: some of "add", "del", "clean"
          Removable    \* the files other programs may remove

ASSUME DaemonAssumption ==
  /\ Commands \subseteq {"add", "del", "clean"}
  /\ Removable \subseteq Files

VARIABLES serving,     \* the socket thread is in addWatch or delWatch
          cleaning,    \* listed names cleanRemote has still to look up
          unresolved   \* the name it could not resolve and is about to queue

cleanVars == <<cleaning, unresolved>>
socketVars == <<serving, cleanVars>>
daemonVars == <<vars, indexVars, socketVars>>

NoName == 0

DaemonTypeOK ==
  /\ TypeOK
  /\ IndexTypeOK
  /\ serving \in BOOLEAN
  /\ cleaning \subseteq Names
  /\ unresolved \in Names \cup {NoName}

DaemonInit ==
  /\ Init
  /\ IndexInit
  /\ serving = FALSE
  /\ cleaning = {}
  /\ unresolved = NoName

-------------------------------------------------------------------------------
(* cleanRemote, in the socket thread: list the bucket under Remote::mtx,     *)
(* then look every name up under Watch::mtx and queue those not found for    *)
(* deletion, taking either mutex only for the call.                          *)

SocketIdle == ~serving /\ cleaning = {} /\ unresolved = NoName
Listed == {n \in Names : stored[n] /= NoObject}

CleanList ==
  /\ "clean" \in Commands
  /\ restoring => EarlyCommands
  /\ SocketIdle
  /\ RemoteFree
  /\ Listed /= {}
  /\ cleaning' = Listed
  /\ UNCHANGED <<vars, indexVars, serving, unresolved>>

\* An empty list, or a listing that fails, is returned without unlocking.
CleanLeaks ==
  /\ "clean" \in Commands
  /\ restoring => EarlyCommands
  /\ SocketIdle
  /\ RemoteFree
  /\ \/ Listed = {} /\ UNCHANGED faults
     \/ faults < MaxFaults /\ faults' = faults + 1
  /\ pass' = "leaked"
  /\ UNCHANGED <<fsVars, queue, batch, kept, checked, turn, stored, issued, crashes, indexVars, socketVars>>

\* Mutant of CleanResolve: the test on the result of the look-up is inverted.
CleanResolveInverted(n) ==
  /\ n \in cleaning
  /\ unresolved = NoName
  /\ WatchFree
  /\ cleaning' = cleaning \ {n}
  /\ unresolved' = IF hashIndex[n] = NoPath THEN NoName ELSE n
  /\ UNCHANGED <<vars, indexVars, serving>>

\* resolvePathHash finds the name or throws.
CleanResolve(n) ==
  /\ n \in cleaning
  /\ unresolved = NoName
  /\ WatchFree
  /\ cleaning' = cleaning \ {n}
  /\ unresolved' = IF hashIndex[n] = NoPath THEN n ELSE NoName
  /\ UNCHANGED <<vars, indexVars, serving>>

CleanQueue ==
  /\ unresolved /= NoName
  /\ QueueForDelete(unresolved)
  /\ unresolved' = NoName
  /\ UNCHANGED <<fsVars, bucketVars, issued, crashes, indexVars, serving, cleaning>>

-------------------------------------------------------------------------------
(* Steps of the threads.                                                     *)

Elsewhere == UNCHANGED <<fsVars, bucketVars, crashes, cleanVars>>
ByItself == UNCHANGED <<queueVars, issued, serving>> /\ Elsewhere

\* The watch thread between two sections.
Restore == (RestoreRow \/ RestoreDone) /\ ByItself
Scan == ScanStart /\ ByItself
Flush == FlushStart /\ ByItself

\* Whoever holds Watch::mtx goes on; these steps need no other mutex ...
SectionStep ==
  /\ \/ ScanEnd
     \/ \E p \in Files : ScanGone(p) \/ ScanSees(p)
     \/ ScanSame
     \/ ScanChanged
     \/ ReadModTime
     \/ DelFinish
     \/ FlushStatement
     \/ FlushEnd
  /\ serving' = (serving /\ section' /= Free)
  /\ UNCHANGED <<queueVars, issued>>
  /\ Elsewhere

NewVersion == AddFileVersion /\ UNCHANGED <<queueVars, serving>> /\ Elsewhere

\* ... and these wait for Remote::mtx.
QueueStep == (QueueVersion \/ DelVersion) /\ UNCHANGED <<issued, serving>> /\ Elsewhere

Command ==
  /\ SocketIdle
  /\ \/ "add" \in Commands /\ \E p \in Files : AddWatch(p)
     \/ "del" \in Commands /\ \E p \in Files : DelWatch(p)
  /\ serving' = TRUE
  /\ UNCHANGED <<queueVars, issued>>
  /\ Elsewhere

Clean ==
  \/ CleanList
  \/ CleanLeaks
  \/ \E n \in Names : CleanResolve(n)
  \/ CleanQueue

\* The remote thread.  An object is stored and the index told of it in one
\* step: whatever comes between the two could as well come before or after.
Transfer == QuietPass /\ UNCHANGED <<fsVars, issued, crashes, indexVars, socketVars>>

Upload ==
  /\ Visiting("upload")
  /\ LET item == Head(batch) IN
       /\ UploadObject(Mapped(item.path))
       /\ UploadSuccess(item.path, item.name)
  /\ UNCHANGED <<fsVars, issued, crashes, socketVars>>

Die ==
  /\ LoseIndex
  /\ serving' = FALSE
  /\ cleaning' = {}
  /\ unresolved' = NoName

DieOfMissingFile == EncryptMissing /\ Die /\ UNCHANGED <<fsVars, issued>>
DieAnyhow == Crash /\ Die

FilesChange ==
  /\ \E f \in Files : WriteFile(f) \/ (f \in Removable /\ RemoveFile(f))
  /\ UNCHANGED <<queueVars, bucketVars, issued, crashes, indexVars, socketVars>>

DaemonNext ==
  \/ Restore
  \/ Scan
  \/ Flush
  \/ SectionStep
  \/ NewVersion
  \/ QueueStep
  \/ Command
  \/ Clean
  \/ Transfer
  \/ Upload
  \/ DieOfMissingFile
  \/ DieAnyhow
  \/ FilesChange

DaemonSpec == DaemonInit /\ [][DaemonNext]_daemonVars

\* runThreads stays true, so the loops of the watch and the remote thread go
\* on.  All threads sleep without a mutex between two rounds, so whoever waits
\* for one that is free again and again gets it (strong fairness).
DaemonFairSpec ==
  /\ DaemonSpec
  /\ WF_daemonVars(SectionStep \/ NewVersion)
  /\ WF_daemonVars(Transfer \/ Upload \/ DieOfMissingFile)
  /\ SF_daemonVars(QueueStep)
  /\ SF_daemonVars(Restore)
  /\ SF_daemonVars(Scan)
  /\ SF_daemonVars(Flush)
  /\ SF_daemonVars(RemoteTurn /\ UNCHANGED <<fsVars, issued, crashes, indexVars, socketVars>>)

-------------------------------------------------------------------------------
(* Properties.                                                               *)

\* pathHashIndex is the inverse of fileIndex: a name leads to a path exactly if
\* it is the name of a version of the path, through additions, restores and
\* deletions; of a path being deleted the versions already queued are out.
HashIndexAgrees ==
  \A n \in Names, p \in Files :
    hashIndex[n] = p <=>
      \E i \in 1..Len(index[p]) :
        /\ index[p][i].name = n
        /\ ~(section.at = "delete" /\ section.path = p /\ i <= section.done)

\* Nothing the index knows is about to be deleted from the bucket, whether
\* delFileWatch or cleanRemote queued the deletion.
QueuedDeletesAreUntracked ==
  \A i \in 1..Len(queue["delete"]) : hashIndex[queue["delete"][i].name] = NoPath

\* As long as the process has not died, what the index says is in the bucket is
\* there, unless its deletion has been queued.
FlaggedIsStored ==
  crashes = 0 =>
    \A p \in Files : \A i \in 1..Len(index[p]) :
      LET v == index[p][i] IN
        v.remote /\ hashIndex[v.name] = p => stored[v.name] /= NoObject

\* The k-th number in I, counted from the least, and what s has at the places
\* in I, in their order.
Nth(I, k) == CHOOSE i \in I : Cardinality({j \in I : j <= i}) = k
Picked(s, I) == [k \in 1..Cardinality(I) |-> s[Nth(I, k)]]

NamesOf(versions) == [i \in DOMAIN versions |-> versions[i].name]
NamesIn(r, p) == Picked(NamesOf(r), {i \in DOMAIN r : r[i].path = p})
NamesInDb(p) == NamesIn(rows, p)

\* What the statements that make or drop entries do, and those of them that are
\* still to be executed.
ChangeOf(s) == [key |-> s.path, add |-> IF s.do = "insert" THEN <<s.name>> ELSE <<>>]
Pending ==
  LET from == IF section.at = "flush" THEN section.done + 1 ELSE 1 IN
    Picked([i \in DOMAIN sqlQueue |-> ChangeOf(sqlQueue[i])],
           {i \in from..Len(sqlQueue) : sqlQueue[i].do \in {"insert", "delete"}})

\* With no such statement left, index and database hold the same versions of
\* every path in the same order: a restart restores exactly the index.
IndexMatchesDb ==
  ~restoring /\ Pending = <<>> => \A p \in Files : NamesOf(index[p]) = NamesInDb(p)

\* The index and the database behind it are a WriteBehind: what a restart has
\* yet to read from the database counts as present.
IndexWriteBehind ==
  INSTANCE WriteBehind WITH
    Keys <- Files, Values <- Names,
    current <- [p \in Files |-> IF restoring THEN NamesInDb(p) ELSE NamesOf(index[p])],
    pending <- Pending,
    durable <- [p \in Files |-> NamesInDb(p)]
IndexIsWrittenBehind == IndexWriteBehind!Spec

\* Every change another program makes to a watched file becomes a version with
\* the modification time of the file, or the file goes.
UpToDate(p) == p \in Tracked /\ Exists(p) => Latest(p).mod = disk[p].mod
ChangesBecomeVersions == \A p \in Files : ~UpToDate(p) ~> UpToDate(p)

\* In the end the bucket holds, under the name of the latest version of every
\* watched file, what the file holds, and the index says that it does.  With
\* several files that only holds when no request fails: the retry of one file's
\* upload is lost when another's succeeds after it (FailedStayQueued).
BackedUp(p) ==
  p \in Tracked => Latest(p).remote /\ stored[Latest(p).name] = disk[p].data
EverythingIsBackedUp == <>[](\A p \in Files : BackedUp(p))

===============================================================================
