------------------------- MODULE TransferQueueProofs -------------------------
(***************************************************************************)
(* Proofs about TransferQueue, for any number of files, names, queued      *)
(* items, failures and deaths of the process.                              *)
(*                                                                         *)
(* PassAccounting and UnvisitedStayQueued are proved together: that a pop  *)
(* leaves the unvisited items alone needs the queue to be longer than what *)
(* is left of the batch or to begin with its head, which is what the count *)
(* gives; both need TypeOK for the queues to be sequences at all.          *)
(***************************************************************************)
EXTENDS TransferQueue, TLAPS

USE FileSystemAssumption, TransferQueueAssumption

-------------------------------------------------------------------------------
\* Operators on sequences the actions are made of, for any set of elements.

LEMMA TailProps ==
  ASSUME NEW S, NEW s \in Seq(S), s /= <<>>
  PROVE  /\ Tail(s) \in Seq(S)
         /\ Len(Tail(s)) = Len(s) - 1
         /\ \A i \in 1..(Len(s) - 1) : Tail(s)[i] = s[i + 1]
         /\ Head(s) \in S
         /\ Len(s) \in Nat \ {0}
  OBVIOUS

LEMMA AppendProps ==
  ASSUME NEW S, NEW s \in Seq(S), NEW e \in S
  PROVE  /\ Append(s, e) \in Seq(S)
         /\ Len(Append(s, e)) = Len(s) + 1
  OBVIOUS

\* Where the i-th of the last b elements of a sequence of length q is, before
\* and after the first element is taken off and the last b - 1 are left.
LEMMA SuffixIndex ==
  ASSUME NEW q \in Nat, NEW b \in Nat \ {0}, NEW i \in 1..(b - 1), q >= b
  PROVE  /\ q - b + i \in 1..(q - 1)
         /\ q - b + (i + 1) = (q - b + i) + 1
         /\ (q - 1) - (b - 1) + i = q - b + i
  OBVIOUS

-------------------------------------------------------------------------------
\* What holds of the queues alone, whatever else the system keeps.
QueueInv == QueueTypeOK /\ PassAccounting /\ UnvisitedStayQueued

\* Putting an item at the end of a queue nobody is working on.
LEMMA EnqueueKeepsQueueInv ==
  ASSUME QueueInv, RemoteFree, NEW k \in Kinds, NEW item \in Item(k),
         Enqueue(k, item), UNCHANGED <<pass, batch, kept, checked, turn>>
  PROVE  QueueInv'
<1>1. /\ Append(queue[k], item) \in Seq(Item(k))
      /\ Append(queue[k], item) \in Seq(UploadItem \cup NameItem)
  <2>1. queue[k] \in Seq(Item(k)) /\ queue[k] \in Seq(UploadItem \cup NameItem)
    BY DEF QueueInv, QueueTypeOK
  <2>2. item \in UploadItem \cup NameItem
    BY DEF Item
  <2> QED BY <2>1, <2>2, AppendProps
<1>2. queue' = [queue EXCEPT ![k] = Append(queue[k], item)]
  BY DEF Enqueue
<1>3. QueueTypeOK'
  BY <1>1, <1>2 DEF QueueInv, QueueTypeOK
<1>4. pass' = "idle" /\ batch' = <<>> /\ kept' = <<>>
  BY DEF QueueInv, PassAccounting, RemoteFree, Kinds
<1> QED BY <1>3, <1>4 DEF QueueInv, PassAccounting, UnvisitedStayQueued, Kinds

\* Popping the front for the item just visited.
LEMMA FinishKeepsQueueInv ==
  ASSUME QueueInv, NEW k \in Kinds, Visiting(k), Finish(k)
  PROVE  QueueInv'
<1> DEFINE q == queue[k]
<1>1. /\ q \in Seq(Item(k)) /\ q \in Seq(UploadItem \cup NameItem)
      /\ batch \in Seq(Item(k)) /\ batch /= <<>>
      /\ kept \in Seq(Item(k))
      /\ Len(q) = Len(batch) + Len(kept)
      /\ pass = k /\ pass' = k /\ kept' = kept
  BY DEF QueueInv, QueueTypeOK, PassAccounting, Visiting, Finish
<1>2. /\ Len(batch) \in Nat \ {0} /\ Len(kept) \in Nat
      /\ Tail(batch) \in Seq(Item(k))
      /\ Len(Tail(batch)) = Len(batch) - 1
      /\ \A i \in 1..(Len(batch) - 1) : Tail(batch)[i] = batch[i + 1]
  BY <1>1, TailProps
<1>3. q /= <<>>
  BY <1>1, <1>2
<1>4. /\ Tail(q) \in Seq(Item(k)) /\ Tail(q) \in Seq(UploadItem \cup NameItem)
      /\ Len(Tail(q)) = Len(q) - 1
      /\ \A i \in 1..(Len(q) - 1) : Tail(q)[i] = q[i + 1]
  BY <1>1, <1>3, TailProps
<1>5. /\ queue' = [queue EXCEPT ![k] = Tail(q)]
      /\ batch' = Tail(batch)
      /\ UNCHANGED turn
      /\ checked' = "nothing"
  BY DEF Finish, Dequeue
<1>6. queue'[k] = Tail(q)
  BY <1>5 DEF QueueInv, QueueTypeOK
<1>7. QueueTypeOK'
  BY <1>1, <1>2, <1>4, <1>5 DEF QueueInv, QueueTypeOK
<1>8. PassAccounting'
  <2>1. Len(q) - 1 = (Len(batch) - 1) + Len(kept)
    BY <1>1, <1>2
  <2>2. /\ Len(queue'[k]) = Len(q) - 1
        /\ Len(batch') = Len(batch) - 1
        /\ kept' = kept
    BY <1>1, <1>2, <1>4, <1>5, <1>6
  <2>3. Len(queue'[k]) = Len(batch') + Len(kept')
    BY <2>1, <2>2
  <2> QED BY <1>1, <2>3 DEF PassAccounting
<1>9. UnvisitedStayQueued'
  <2> SUFFICES ASSUME NEW i \in 1..Len(Tail(batch))
               PROVE  Tail(batch)[i] = Tail(q)[Len(Tail(q)) - Len(Tail(batch)) + i]
    BY <1>1, <1>5, <1>6 DEF UnvisitedStayQueued
  <2>1. i \in 1..(Len(batch) - 1) /\ i + 1 \in 1..Len(batch)
    BY <1>2
  <2>2. batch[i + 1] = q[Len(q) - Len(batch) + (i + 1)]
    BY <1>1, <2>1 DEF QueueInv, UnvisitedStayQueued
  <2>3. Len(q) \in Nat /\ Len(q) >= Len(batch)
    BY <1>1, <1>2
  <2>4. /\ Len(batch) \in Nat \ {0}
        /\ Len(Tail(batch)) = Len(batch) - 1
        /\ Len(Tail(q)) = Len(q) - 1
    BY <1>2, <1>4
  <2> DEFINE lq == Len(q)
             lb == Len(batch)
             j == lq - lb + i
  <2>5. lq \in Nat /\ lb \in Nat \ {0} /\ lq >= lb /\ i \in 1..(lb - 1)
    BY <2>1, <2>3, <2>4
  <2> HIDE DEF lq, lb
  <2>6. /\ j \in 1..(lq - 1)
        /\ lq - lb + (i + 1) = j + 1
        /\ (lq - 1) - (lb - 1) + i = j
    BY <2>5, SuffixIndex
  <2> HIDE DEF j
  <2>7. Tail(q)[j] = q[j + 1]
    BY <1>4, <2>6 DEF lq
  <2>8. Tail(batch)[i] = batch[i + 1]
    BY <1>2, <2>1
  <2>9. batch[i + 1] = q[j + 1]
    BY <2>2, <2>6 DEF lq, lb
  <2>10. Len(Tail(q)) - Len(Tail(batch)) + i = j
    BY <2>4, <2>6 DEF lq, lb
  <2> QED BY <2>7, <2>8, <2>9, <2>10
<1> QED BY <1>7, <1>8, <1>9 DEF QueueInv

\* Going on to the next item without popping anything.
LEMMA KeepKeepsQueueInv ==
  ASSUME QueueInv, NEW k \in Kinds, Visiting(k), Keep
  PROVE  QueueInv'
<1>1. /\ batch \in Seq(Item(k)) /\ batch /= <<>>
      /\ kept \in Seq(Item(k))
      /\ queue[k] \in Seq(Item(k))
      /\ Len(queue[k]) = Len(batch) + Len(kept)
      /\ pass = k /\ UNCHANGED <<pass, queue, turn>>
      /\ batch' = Tail(batch) /\ kept' = Append(kept, Head(batch)) /\ checked' = "nothing"
  BY DEF QueueInv, QueueTypeOK, PassAccounting, Visiting, Keep
<1>2. /\ Len(batch) \in Nat \ {0} /\ Len(kept) \in Nat
      /\ batch' \in Seq(Item(k)) /\ Len(batch') = Len(batch) - 1
      /\ \A i \in 1..(Len(batch) - 1) : batch'[i] = batch[i + 1]
      /\ Head(batch) \in Item(k)
  BY <1>1, TailProps
<1>3. kept' \in Seq(Item(k)) /\ Len(kept') = Len(kept) + 1
  BY <1>1, <1>2, AppendProps
<1>4. QueueTypeOK'
  BY <1>1, <1>2, <1>3 DEF QueueInv, QueueTypeOK
<1>5. PassAccounting'
  <2>1. Len(queue[k]) = (Len(batch) - 1) + (Len(kept) + 1)
    BY <1>1, <1>2
  <2>2. /\ queue'[k] = queue[k]
        /\ Len(batch') = Len(batch) - 1
        /\ Len(kept') = Len(kept) + 1
    BY <1>1, <1>2, <1>3
  <2>3. Len(queue'[k]) = Len(batch') + Len(kept')
    BY <2>1, <2>2
  <2> QED BY <1>1, <2>3 DEF PassAccounting
<1>6. UnvisitedStayQueued'
  <2> SUFFICES ASSUME NEW i \in 1..Len(batch')
               PROVE  batch'[i] = queue[k][Len(queue[k]) - Len(batch') + i]
    BY <1>1 DEF UnvisitedStayQueued
  <2>1. i \in 1..(Len(batch) - 1) /\ i + 1 \in 1..Len(batch)
    BY <1>2
  <2>2. batch[i + 1] = queue[k][Len(queue[k]) - Len(batch) + (i + 1)]
    BY <1>1, <2>1 DEF QueueInv, UnvisitedStayQueued
  <2>3. Len(queue[k]) - Len(batch) + (i + 1) = Len(queue[k]) - Len(batch') + i
    BY <1>1, <1>2
  <2> QED BY <1>2, <2>1, <2>2, <2>3
<1> QED BY <1>4, <1>5, <1>6 DEF QueueInv

LEMMA EmptyQueues ==
  ASSUME queue = [k \in Kinds |-> <<>>], pass = "idle", batch = <<>>, kept = <<>>,
         checked = "nothing", turn = "upload"
  PROVE  QueueInv
<1>1. /\ \A S : <<>> \in Seq(S)
      /\ \A k \in Kinds : queue[k] = <<>>
      /\ pass \notin Kinds
  BY DEF Kinds
<1>2. QueueTypeOK
  BY <1>1 DEF QueueTypeOK
<1> QED BY <1>1, <1>2 DEF QueueInv, PassAccounting, UnvisitedStayQueued

LEMMA LoseMemoryGivesQueueInv ==
  ASSUME LoseMemory
  PROVE  QueueInv'
<1>1. /\ \A S : <<>> \in Seq(S)
      /\ \A k \in Kinds : queue'[k] = <<>>
      /\ pass' \notin Kinds
  BY DEF Kinds, LoseMemory
<1>2. QueueTypeOK'
  BY <1>1 DEF QueueTypeOK, LoseMemory
<1> QED BY <1>1, <1>2 DEF QueueInv, PassAccounting, UnvisitedStayQueued, LoseMemory

\* A pass begins with all of the queue to visit.
LEMMA CallKeepsQueueInv ==
  ASSUME QueueInv, NEW k \in Kinds, CallAPI(k)
  PROVE  QueueInv'
<1>1. /\ queue[k] \in Seq(Item(k))
      /\ pass' = k /\ batch' = queue[k] /\ kept' = <<>>
      /\ UNCHANGED <<queue, checked, turn>>
  BY DEF CallAPI, QueueInv, QueueTypeOK
<1>2. QueueTypeOK'
  BY <1>1 DEF QueueInv, QueueTypeOK
<1>3. Len(queue[k]) \in Nat /\ Len(kept') = 0
  BY <1>1
<1>4. PassAccounting'
  BY <1>1, <1>3 DEF PassAccounting
<1>5. UnvisitedStayQueued'
  BY <1>1, <1>3 DEF UnvisitedStayQueued
<1> QED BY <1>2, <1>4, <1>5 DEF QueueInv

\* Every step of a pass, the ends of it included.
LEMMA RemotePassKeepsQueueInv ==
  ASSUME QueueInv, RemotePass
  PROVE  QueueInv'
<1>0. {"upload", "delete", "download"} \subseteq Kinds
  BY DEF Kinds
<1>1. ASSUME NEW k \in Kinds, CallAPI(k) PROVE QueueInv'
  BY <1>1, CallKeepsQueueInv
<1>2. CASE NothingQueued
  BY <1>2 DEF NothingQueued, OtherTurn, QueueInv, QueueTypeOK, PassAccounting, UnvisitedStayQueued
<1>3. CASE EndPass
  <2>1. /\ pass' = "idle" /\ batch' = <<>> /\ kept' = <<>>
        /\ UNCHANGED <<queue, checked>> /\ turn' \in {"upload", "delete"}
    BY <1>3 DEF EndPass, OtherTurn, QueueInv, QueueTypeOK
  <2> QED BY <2>1 DEF QueueInv, QueueTypeOK, PassAccounting, UnvisitedStayQueued, Kinds
<1>4. CASE UploadMissing \/ UploadStale
  BY <1>4, <1>0, FinishKeepsQueueInv DEF UploadMissing, UploadStale
<1>5. CASE UploadExists \/ UploadChecked
  BY <1>5 DEF UploadExists, UploadChecked, QueueInv, QueueTypeOK, PassAccounting, UnvisitedStayQueued
<1>6. ASSUME NEW accepted \in BOOLEAN, UploadObject(accepted) PROVE QueueInv'
  BY <1>6, <1>0, FinishKeepsQueueInv, KeepKeepsQueueInv DEF UploadObject
<1>7. CASE UploadFails
  BY <1>7, <1>0, KeepKeepsQueueInv DEF UploadFails
<1>8. CASE EncryptMissing
  BY <1>8, LoseMemoryGivesQueueInv DEF EncryptMissing
<1>9. CASE DeleteObject
  BY <1>9, <1>0, FinishKeepsQueueInv DEF DeleteObject
<1>10. CASE DeleteFails
  BY <1>10, <1>0, KeepKeepsQueueInv DEF DeleteFails
<1>11. CASE DownloadObject
  BY <1>11, <1>0, FinishKeepsQueueInv DEF DownloadObject
<1> QED
  BY <1>0, <1>1, <1>2, <1>3, <1>4, <1>5, <1>6, <1>7, <1>8, <1>9, <1>10, <1>11
  DEF RemotePass, QuietPass, RemoteTurn, UploadRemotes, DeleteRemotes

-------------------------------------------------------------------------------
(* What is in the bucket.                                                    *)

\* The item being visited is one of the queue's kind.
LEMMA HeadOfBatch ==
  ASSUME QueueInv, NEW k \in Kinds, Visiting(k)
  PROVE  Head(batch) \in Item(k) /\ Head(batch).name \in Names
<1>1. Head(batch) \in Item(k)
  BY TailProps DEF QueueInv, QueueTypeOK, Visiting
<1> QED BY <1>1 DEF Item, UploadItem, NameItem

LEMMA RemotePassKeepsBucketTypeOK ==
  ASSUME FsTypeOK, QueueInv, BucketTypeOK, RemotePass
  PROVE  BucketTypeOK'
<1> DEFINE new(data) == [stored EXCEPT ![Head(batch).name] = data]
<1>0. {"upload", "delete"} \subseteq Kinds
  BY DEF Kinds
<1>1. ASSUME NEW k \in Kinds, Visiting(k), NEW data \in Nat
      PROVE  new(data) \in [Names -> Nat]
  BY <1>1, HeadOfBatch DEF BucketTypeOK
<1>2. ASSUME Visiting("upload") PROVE disk[Head(batch).path].data \in Nat
  <2>1. Head(batch).path \in Files
    BY <1>0, <1>2, HeadOfBatch DEF Item, UploadItem
  <2> QED BY <2>1 DEF FsTypeOK, FileState
<1>3. ASSUME NEW accepted \in BOOLEAN, UploadObject(accepted) PROVE BucketTypeOK'
  BY <1>0, <1>1, <1>2, <1>3 DEF UploadObject, BucketTypeOK
<1>4. CASE UploadFails
  BY <1>0, <1>1, <1>2, <1>4 DEF UploadFails, BucketTypeOK
<1>5. CASE DeleteObject
  BY <1>0, <1>1, <1>5 DEF DeleteObject, BucketTypeOK, NoObject
<1>6. CASE DeleteFails
  BY <1>0, <1>1, <1>6 DEF DeleteFails, BucketTypeOK, NoObject
<1>7. ASSUME UNCHANGED bucketVars PROVE BucketTypeOK'
  BY <1>7 DEF bucketVars, BucketTypeOK
<1> QED
  BY <1>3, <1>4, <1>5, <1>6, <1>7
  DEF RemotePass, QuietPass, RemoteTurn, UploadRemotes, DeleteRemotes, NothingQueued, CallAPI,
      EndPass, UploadMissing, UploadExists, UploadStale, UploadChecked, EncryptMissing, DownloadObject

-------------------------------------------------------------------------------
(* The file system, whatever the other programs do to it.                    *)

LEMMA OtherProgramsKeepFsTypeOK ==
  ASSUME FsTypeOK, OtherPrograms
  PROVE  FsTypeOK'
<1>1. ASSUME NEW p \in Files, WriteFile(p) PROVE FsTypeOK'
  <2>1. PICK m \in {disk[p].mod, disk[p].mod + 1} :
          disk' = [disk EXCEPT ![p] = [here |-> TRUE, mod |-> m, data |-> disk[p].data + 1]]
    BY <1>1 DEF WriteFile
  <2>2. disk[p].mod \in Nat /\ disk[p].data \in Nat
    BY DEF FsTypeOK, FileState
  <2>3. [here |-> TRUE, mod |-> m, data |-> disk[p].data + 1] \in FileState
    BY <2>2 DEF FileState
  <2> QED BY <1>1, <2>1, <2>3 DEF FsTypeOK, WriteFile
<1>2. ASSUME NEW p \in Files, RemoveFile(p) PROVE FsTypeOK'
  <2>1. [disk[p] EXCEPT !.here = FALSE] \in FileState
    BY DEF FsTypeOK, FileState
  <2> QED BY <1>2, <2>1 DEF RemoveFile, FsTypeOK
<1> QED BY <1>1, <1>2 DEF OtherPrograms

-------------------------------------------------------------------------------
IInv == TypeOK /\ PassAccounting /\ UnvisitedStayQueued

LEMMA IInvIsQueueInv == IInv => QueueInv /\ FsTypeOK /\ BucketTypeOK
  BY DEF IInv, TypeOK, QueueInv

LEMMA InitIInv == Init => IInv
<1> SUFFICES ASSUME Init PROVE IInv
  OBVIOUS
<1>1. QueueInv
  BY EmptyQueues DEF Init, QueueInit
<1>2. FsTypeOK
  BY DEF Init, FsInit, FsTypeOK, FileState
<1>3. BucketTypeOK
  BY DEF Init, BucketTypeOK, NoObject
<1> QED BY <1>1, <1>2, <1>3 DEF IInv, TypeOK, QueueInv, Init

LEMMA NextIInv == IInv /\ [Next]_vars => IInv'
<1> SUFFICES ASSUME IInv, [Next]_vars PROVE IInv'
  OBVIOUS
<1> USE IInvIsQueueInv
<1>1. CASE RemotePass /\ UNCHANGED <<fsVars, issued>>
  <2>1. QueueInv' /\ BucketTypeOK'
    BY <1>1, RemotePassKeepsQueueInv, RemotePassKeepsBucketTypeOK
  <2>2. crashes' \in Nat
    BY <1>1 DEF RemotePass, EncryptMissing, IInv, TypeOK
  <2>3. FsTypeOK' /\ issued' \in 0..MaxNames
    BY <1>1 DEF IInv, TypeOK, FsTypeOK, fsVars
  <2> QED BY <2>1, <2>2, <2>3 DEF IInv, TypeOK, QueueInv
<1>2. CASE Caller /\ UNCHANGED <<fsVars, crashes>>
  <2>1. FsTypeOK' /\ crashes' \in Nat
    BY <1>2 DEF IInv, TypeOK, FsTypeOK, fsVars
  <2>2. ASSUME NEW p \in Files, AddVersion(p) PROVE QueueInv' /\ issued' \in 0..MaxNames
    <3>1. issued' \in 0..MaxNames /\ issued + 1 \in Names
      BY <2>2 DEF AddVersion, IInv, TypeOK, Names
    <3>2. PICK m \in 0..disk[p].mod :
            QueueForUpload([path |-> p, name |-> issued + 1, mod |-> m])
      BY <2>2 DEF AddVersion
    <3> DEFINE item == [path |-> p, name |-> issued + 1, mod |-> m]
    <3>3. item \in Item("upload") /\ "upload" \in Kinds
      BY <3>1 DEF Item, UploadItem, Kinds
    <3>4. CASE UNCHANGED queueVars
      BY <3>1, <3>4 DEF queueVars, QueueInv, QueueTypeOK, PassAccounting, UnvisitedStayQueued
    <3>5. CASE Enqueue("upload", item)
      BY <3>1, <3>2, <3>3, <3>5, EnqueueKeepsQueueInv DEF QueueForUpload
    <3> QED BY <3>2, <3>4, <3>5 DEF QueueForUpload, queueVars
  <2>3. ASSUME NEW n \in 1..issued, QueueForDownload(n) \/ QueueForDelete(n), UNCHANGED issued
        PROVE  QueueInv' /\ issued' \in 0..MaxNames
    <3>1. /\ [name |-> n] \in Item("download") /\ [name |-> n] \in Item("delete")
          /\ "download" \in Kinds /\ "delete" \in Kinds
      BY DEF IInv, TypeOK, Item, NameItem, Names, Kinds
    <3>2. issued' \in 0..MaxNames
      BY <2>3 DEF IInv, TypeOK
    <3> QED BY <2>3, <3>1, <3>2, EnqueueKeepsQueueInv DEF QueueForDownload, QueueForDelete
  <2>4. ASSUME DownloadRemotes, UNCHANGED issued
        PROVE  QueueInv' /\ BucketTypeOK' /\ issued' \in 0..MaxNames
    BY <2>4, CallKeepsQueueInv DEF Kinds, DownloadRemotes, CallAPI, bucketVars, BucketTypeOK, IInv, TypeOK
  <2>5. QueueInv' /\ BucketTypeOK' /\ issued' \in 0..MaxNames
    BY <1>2, <2>2, <2>3, <2>4 DEF Caller, bucketVars, BucketTypeOK
  <2> QED BY <2>1, <2>5 DEF IInv, TypeOK, QueueInv
<1>3. CASE OtherPrograms /\ UNCHANGED <<queueVars, bucketVars, issued, crashes>>
  BY <1>3, OtherProgramsKeepFsTypeOK
  DEF IInv, TypeOK, QueueTypeOK, BucketTypeOK, PassAccounting, UnvisitedStayQueued,
      queueVars, bucketVars
<1>4. CASE Crash
  <2>1. QueueInv'
    BY <1>4, LoseMemoryGivesQueueInv DEF Crash
  <2>2. FsTypeOK' /\ BucketTypeOK' /\ issued' \in 0..MaxNames /\ crashes' \in Nat
    BY <1>4 DEF Crash, fsVars, bucketVars, IInv, TypeOK, FsTypeOK, BucketTypeOK
  <2> QED BY <2>1, <2>2 DEF IInv, TypeOK, QueueInv
<1>5. CASE UNCHANGED vars
  BY <1>5
  DEF vars, fsVars, queueVars, bucketVars, IInv, TypeOK, FsTypeOK, QueueTypeOK, BucketTypeOK,
      PassAccounting, UnvisitedStayQueued
<1> QED BY <1>1, <1>2, <1>3, <1>4, <1>5 DEF Next

\* The variables keep their types: a queue never holds an item of another
\* kind, and never more requests fail than MaxFaults.
THEOREM TypeCorrect == Spec => []TypeOK
<1>1. IInv => TypeOK
  BY DEF IInv
<1> QED BY <1>1, InitIInv, NextIInv, PTL DEF Spec

\* S3::uploadFromQueue, downloadFromQueue and deleteFromQueue pop the queue
\* exactly once for each item they finish with, however passes, failures,
\* callers and deaths of the process follow each other.
THEOREM PassesAreAccounted == Spec => []PassAccounting
<1>1. IInv => PassAccounting
  BY DEF IInv
<1> QED BY <1>1, InitIInv, NextIInv, PTL DEF Spec

\* No pop takes an item the pass has not tried: what the range-for has still
\* to visit is the tail of the queue.
THEOREM UnvisitedAreQueued == Spec => []UnvisitedStayQueued
<1>1. IInv => UnvisitedStayQueued
  BY DEF IInv
<1> QED BY <1>1, InitIInv, NextIInv, PTL DEF Spec

===============================================================================
