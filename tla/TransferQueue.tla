---------------------------- MODULE TransferQueue ----------------------------
(***************************************************************************)
(* The transfer queues of the daemon and the passes that work them off:    *)
(* class Queue (Queue.cpp), the queue loops of class S3 (S3.cpp) and the   *)
(* entry points of class Remote that call them under Remote::mtx           *)
(* (Remote.cpp).  The bucket is an external object store that may fail a   *)
(* request, before or after carrying it out.                               *)
(*                                                                         *)
(* A pass is one call of S3::callAPI made with Remote::mtx held: it        *)
(* iterates over the items the queue held at the start (batch is what the  *)
(* range-for has yet to visit) and pops the FRONT of the queue for each    *)
(* item it has finished with.  The iteration goes on over a deque whose    *)
(* front is being popped; with the libstdc++ deque an iterator to a later  *)
(* element is not disturbed by that, which is what batch assumes.          *)
(***************************************************************************)
EXTENDS FileSystem, Sequences

CONSTANTS MaxNames,    \* bound: object names drawn
          MaxQueue,    \* bound: items in the download or the delete queue
          MaxFaults,   \* bound: requests the object store fails
          MaxCrashes   \* bound: times the daemon process dies

ASSUME TransferQueueAssumption ==
  /\ MaxNames \in Nat
  /\ MaxQueue \in Nat
  /\ MaxFaults \in Nat
  /\ MaxCrashes \in Nat

\* Random object names (Encryption::hashPath), numbered as they are drawn.
Names == 1..MaxNames

VARIABLES queue,    \* S3's uploadQueue, downloadQueue and deleteQueue
          pass,     \* the holder of Remote::mtx: a pass, nobody, or "leaked"
          batch,    \* what the pass's range-for has still to visit
          kept,     \* history: the items that failed in this pass
          checked,  \* how far uploadFromQueue is with the head of batch
          turn,     \* which pass the remote thread makes next
          stored,   \* the bucket: the contents under each name, or NoObject
          issued,   \* how many names have been drawn
          faults,   \* requests failed so far
          crashes   \* deaths of the process so far

queueVars == <<queue, pass, batch, kept, checked, turn>>
bucketVars == <<stored, faults>>
vars == <<fsVars, queueVars, bucketVars, issued, crashes>>

Kinds == {"upload", "download", "delete"}
UploadItem == [path : Files, name : Names, mod : Nat]
NameItem == [name : Names]
Item(k) == IF k = "upload" THEN UploadItem ELSE NameItem
NoObject == 0

QueueTypeOK ==
  /\ queue \in [Kinds -> Seq(UploadItem \cup NameItem)]
  /\ \A k \in Kinds : queue[k] \in Seq(Item(k))
  /\ pass \in Kinds \cup {"idle", "leaked"}
  /\ batch \in Seq(Item(pass))
  /\ kept \in Seq(Item(pass))
  /\ checked \in {"nothing", "exists", "all"}
  /\ turn \in {"upload", "delete"}

BucketTypeOK ==
  /\ stored \in [Names -> Nat]
  /\ faults \in 0..MaxFaults

TypeOK ==
  /\ FsTypeOK
  /\ QueueTypeOK
  /\ BucketTypeOK
  /\ issued \in 0..MaxNames
  /\ crashes \in Nat

QueueInit ==
  /\ queue = [k \in Kinds |-> <<>>]
  /\ pass = "idle"
  /\ batch = <<>>
  /\ kept = <<>>
  /\ checked = "nothing"
  /\ turn = "upload"

Init ==
  /\ FsInit
  /\ QueueInit
  /\ stored = [n \in Names |-> NoObject]
  /\ issued = 0
  /\ faults = 0
  /\ crashes = 0

-------------------------------------------------------------------------------
\* Remote::mtx is free.
RemoteFree == pass = "idle"

Enqueue(k, item) == queue' = [queue EXCEPT ![k] = Append(@, item)]

\* Mutant of Dequeue: pop_back for pop_front.
DequeueBack(k) == queue' = [queue EXCEPT ![k] = SubSeq(@, 1, Len(@) - 1)]

Dequeue(k) == queue' = [queue EXCEPT ![k] = Tail(@)]

\* Remote::queueForUpload: the item is dropped when the path is gone.
QueueForUpload(item) ==
  /\ RemoteFree
  /\ IF Exists(item.path) THEN Enqueue("upload", item) ELSE UNCHANGED queue
  /\ UNCHANGED <<pass, batch, kept, checked, turn>>

\* Remote::queueForDownload and Remote::queueForDelete.
QueueForDownload(n) ==
  /\ RemoteFree
  /\ Len(queue["download"]) < MaxQueue
  /\ Enqueue("download", [name |-> n])
  /\ UNCHANGED <<pass, batch, kept, checked, turn>>

\* Mutant of QueueForDelete: the name lands in the upload queue.
QueueForDeleteMisplaced(n) ==
  /\ RemoteFree
  /\ Enqueue("upload", [name |-> n])
  /\ UNCHANGED <<pass, batch, kept, checked, turn>>

QueueForDelete(n) ==
  /\ RemoteFree
  /\ Len(queue["delete"]) < MaxQueue
  /\ Enqueue("delete", [name |-> n])
  /\ UNCHANGED <<pass, batch, kept, checked, turn>>

-------------------------------------------------------------------------------
(* S3::callAPI and the remote thread's loop around it.                       *)

\* Mutant of OtherTurn: the loop calls uploadRemotes only.
UploadTurnOnly == "upload"

OtherTurn == IF turn = "upload" THEN "delete" ELSE "upload"

CallAPI(k) ==
  /\ RemoteFree
  /\ queue[k] /= <<>>
  /\ pass' = k
  /\ batch' = queue[k]
  /\ kept' = <<>>
  /\ UNCHANGED <<queue, checked, turn, bucketVars>>

\* Remote::execThread: uploadRemotes, deleteRemotes, and so on for ever.
UploadRemotes == turn = "upload" /\ CallAPI("upload")
DeleteRemotes == turn = "delete" /\ CallAPI("delete")

\* callAPI returns at once when there is nothing queued.
NothingQueued ==
  /\ RemoteFree
  /\ queue[turn] = <<>>
  /\ turn' = OtherTurn
  /\ UNCHANGED <<queue, pass, batch, kept, checked, bucketVars>>

\* Remote::downloadRemotes, called by the socket thread.
DownloadRemotes == CallAPI("download")

EndPass ==
  /\ pass \in Kinds
  /\ batch = <<>>
  /\ pass' = "idle"
  /\ kept' = <<>>
  /\ turn' = IF pass = "download" THEN turn ELSE OtherTurn
  /\ UNCHANGED <<queue, batch, checked, bucketVars>>

-------------------------------------------------------------------------------
(* One round of the range-for: the item at the head of batch.                *)

Visiting(k) == pass = k /\ batch /= <<>>

Finish(k) ==
  /\ Dequeue(k)
  /\ batch' = Tail(batch)
  /\ checked' = "nothing"
  /\ UNCHANGED <<pass, kept, turn>>

\* Mutant of Keep: a failed item is popped as well.
KeepAndPop ==
  /\ Dequeue(pass)
  /\ batch' = Tail(batch)
  /\ kept' = Append(kept, Head(batch))
  /\ checked' = "nothing"
  /\ UNCHANGED <<pass, turn>>

Keep ==
  /\ batch' = Tail(batch)
  /\ kept' = Append(kept, Head(batch))
  /\ checked' = "nothing"
  /\ UNCHANGED <<queue, pass, turn>>

\* uploadFromQueue: the source file is gone ...
UploadMissing ==
  /\ Visiting("upload")
  /\ checked = "nothing"
  /\ ~Exists(Head(batch).path)
  /\ Finish("upload")
  /\ UNCHANGED bucketVars

UploadExists ==
  /\ Visiting("upload")
  /\ checked = "nothing"
  /\ Exists(Head(batch).path)
  /\ checked' = "exists"
  /\ UNCHANGED <<queue, pass, batch, kept, turn, bucketVars>>

\* ... or has another modification time than when it was queued ...
UploadStale ==
  /\ Visiting("upload")
  /\ checked = "exists"
  /\ Exists(Head(batch).path)
  /\ disk[Head(batch).path].mod /= Head(batch).mod
  /\ Finish("upload")
  /\ UNCHANGED bucketVars

\* ... or the same, or none any more: that exception is caught and forgotten.
UploadChecked ==
  /\ Visiting("upload")
  /\ checked = "exists"
  /\ Exists(Head(batch).path) => disk[Head(batch).path].mod = Head(batch).mod
  /\ checked' = "all"
  /\ UNCHANGED <<queue, pass, batch, kept, turn, bucketVars>>

\* uploadObject encrypts what the file holds by then and stores it;
\* accepted is false when Watch::uploadSuccess throws: path is not indexed.
UploadObject(accepted) ==
  /\ Visiting("upload")
  /\ checked = "all"
  /\ Exists(Head(batch).path)
  /\ stored' = [stored EXCEPT ![Head(batch).name] = disk[Head(batch).path].data]
  /\ IF accepted THEN Finish("upload") ELSE Keep
  /\ UNCHANGED faults

\* The transfer does not complete; the object may have been stored all the same.
UploadFails ==
  /\ Visiting("upload")
  /\ checked = "all"
  /\ Exists(Head(batch).path)
  /\ faults < MaxFaults
  /\ faults' = faults + 1
  /\ stored' \in {stored, [stored EXCEPT ![Head(batch).name] = disk[Head(batch).path].data]}
  /\ Keep

DeleteObject ==
  /\ Visiting("delete")
  /\ stored' = [stored EXCEPT ![Head(batch).name] = NoObject]
  /\ Finish("delete")
  /\ UNCHANGED faults

DeleteFails ==
  /\ Visiting("delete")
  /\ faults < MaxFaults
  /\ faults' = faults + 1
  /\ stored' \in {stored, [stored EXCEPT ![Head(batch).name] = NoObject]}
  /\ Keep

\* downloadFromQueue drops the item whether the download worked or not.
DownloadObject ==
  /\ Visiting("download")
  /\ Finish("download")
  /\ UNCHANGED bucketVars

-------------------------------------------------------------------------------
\* The process dies: the queues are in memory only.
LoseMemory ==
  /\ queue' = [k \in Kinds |-> <<>>]
  /\ pass' = "idle"
  /\ batch' = <<>>
  /\ kept' = <<>>
  /\ checked' = "nothing"
  /\ turn' = "upload"

Crash ==
  /\ crashes < MaxCrashes
  /\ crashes' = crashes + 1
  /\ LoseMemory
  /\ UNCHANGED <<fsVars, bucketVars, issued>>

\* encryptFile reads a NULL FILE* when the file went after the check: the
\* process dies of it.
EncryptMissing ==
  /\ Visiting("upload")
  /\ checked = "all"
  /\ ~Exists(Head(batch).path)
  /\ crashes' = crashes + 1
  /\ LoseMemory
  /\ UNCHANGED bucketVars

-------------------------------------------------------------------------------
(* The queues on their own: the callers queue anything they may queue.       *)

\* addFileVersion draws a name and queues the file with a modification time
\* it read some time before, NoModTime included.
AddVersion(p) ==
  /\ issued < MaxNames
  /\ issued' = issued + 1
  /\ \E m \in 0..disk[p].mod :
       QueueForUpload([path |-> p, name |-> issued + 1, mod |-> m])

RemoteTurn ==
  \/ UploadRemotes
  \/ DeleteRemotes
  \/ NothingQueued

\* The steps of a pass that leave the daemon's index alone.
QuietPass ==
  \/ RemoteTurn
  \/ EndPass
  \/ UploadMissing
  \/ UploadExists
  \/ UploadStale
  \/ UploadChecked
  \/ UploadFails
  \/ DeleteObject
  \/ DeleteFails
  \/ DownloadObject

RemotePass ==
  \/ QuietPass /\ UNCHANGED crashes
  \/ \E accepted \in BOOLEAN : UploadObject(accepted) /\ UNCHANGED crashes
  \/ EncryptMissing

Caller ==
  \/ \E p \in Files : AddVersion(p) /\ UNCHANGED bucketVars
  \/ \E n \in 1..issued : (QueueForDownload(n) \/ QueueForDelete(n)) /\ UNCHANGED <<bucketVars, issued>>
  \/ DownloadRemotes /\ UNCHANGED issued

OtherPrograms ==
  \/ \E f \in Files : WriteFile(f)
  \/ \E f \in Files : RemoveFile(f)

Next ==
  \/ RemotePass /\ UNCHANGED <<fsVars, issued>>
  \/ Caller /\ UNCHANGED <<fsVars, crashes>>
  \/ OtherPrograms /\ UNCHANGED <<queueVars, bucketVars, issued, crashes>>
  \/ Crash

Spec == Init /\ [][Next]_vars

\* runThreads stays true and every request to the store returns, so a pass
\* never stops half way.  The remote thread sleeps without the mutex between
\* its rounds, and so does the client between two requests: a thread that
\* waits for Remote::mtx is not overtaken for ever (strong fairness).
FairSpec ==
  /\ Spec
  /\ WF_vars(RemotePass /\ UNCHANGED <<fsVars, issued>>)
  /\ SF_vars(RemoteTurn /\ UNCHANGED <<fsVars, issued, crashes>>)

-------------------------------------------------------------------------------
(* Properties.                                                               *)

\* During a pass the queue holds exactly as many items as the pass has kept
\* or not visited yet: no pop is missing and none is made twice.
PassAccounting ==
  IF pass \in Kinds
  THEN Len(queue[pass]) = Len(batch) + Len(kept)
  ELSE batch = <<>> /\ kept = <<>>

\* The items the range-for has still to visit are the tail of the queue, in
\* order: popping the front never takes an item that was not tried.
UnvisitedStayQueued ==
  pass \in Kinds =>
    \A i \in 1..Len(batch) :
      batch[i] = queue[pass][Len(queue[pass]) - Len(batch) + i]

\* Uploads that are refused or fail for ever never hold up the deletions: the
\* delete queue runs empty again and again.
DeletesDrain == []<>(queue["delete"] = <<>>)

\* What S3.cpp:157 and S3.cpp:199 say: an item that failed is not removed from
\* the queue.  The code pops the front of the queue, whatever item that is.
FailedStayQueued ==
  pass \in {"upload", "delete"} =>
    \A i \in 1..Len(kept) : \E j \in 1..Len(queue[pass]) : queue[pass][j] = kept[i]

===============================================================================
