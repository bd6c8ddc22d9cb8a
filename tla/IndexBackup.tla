----------------------------- MODULE IndexBackup -----------------------------
(***************************************************************************)
(* The backup of the index (Watch::indexBackup, DB::backupDB, its upload by*)
(* S3::uploadFromQueue) and its way back (Watch::restoreIndex,             *)
(* S3::downloadNow, the start of the daemon).                              *)
(*                                                                         *)
(* The index is a number: 0 is the empty index, and every change makes a   *)
(* new one.  What the database, a file or an object holds is a copy: the   *)
(* index, the columns IDXNAME and MODTIME of the table indexBackup, and    *)
(* the state it is in.  Part of a file, or of two versions of it, is no    *)
(* whole database; SQLite opens it all the same as long as the header can  *)
(* be read, and takes an empty file for a new database.  The watch thread  *)
(* sleeps for seconds between a flush and a backup, so times of writes to  *)
(* index.db never coincide.                                                *)
(***************************************************************************)
EXTENDS Naturals, Sequences

CONSTANTS MaxChanges,   \* bound: changes of the index
          MaxFaults,    \* bound: statements, copies, uploads and downloads that fail
          MaxStops,     \* bound: deaths of the process
          MaxLosses     \* bound: times index.db is removed or lost

ASSUME IndexBackupAssumption ==
  /\ MaxChanges \in Nat
  /\ MaxFaults \in Nat
  /\ MaxStops \in Nat
  /\ MaxLosses \in Nat

VARIABLES index,     \* the index in memory
          lastMod,   \* indexLastMod
          watch,     \* where the watch thread is in indexBackup
          failed,    \* history: the last copy could not be made
          queue,     \* modification times of index.backup queued for upload
          batch,     \* those the pass over the queue has still to visit
          reading,   \* what uploadObject has read of index.backup
          up,        \* the process runs
          db,        \* index.db
          dbMod,     \* and its modification time
          backup,    \* index.backup
          backupMod, \* and its modification time
          restore,   \* index.restore
          bucket,    \* the objects under the names derived for backups
          clock, changes, faults, stops, losses

watchVars == <<index, lastMod, watch, failed>>
remoteVars == <<queue, batch, reading>>
fileVars == <<db, dbMod, backup, backupMod, restore>>
bounds == <<changes, faults, stops, losses>>
vars == <<watchVars, remoteVars, up, fileVars, bucket, clock, bounds>>

\* A name is the number of the key derivation that gave it.  Each loss of the
\* database may lead to another.
Names == 1..(MaxLosses + 1)
NoName == 0

\* Neither -1 nor the NULL of a column never written is later than any time.
Never == 0

\* Of a torn file SQLite can read the header, of a broken one it cannot; a
\* damaged database is a torn one that was opened.
States == {"none", "empty", "whole", "damaged", "torn", "broken"}

Copy == [index : Nat, name : Names \cup {NoName}, mod : Nat, state : States]
NoFile == [index |-> 0, name |-> NoName, mod |-> Never, state |-> "none"]
EmptyFile == [NoFile EXCEPT !.state = "empty"]
NewDatabase == [NoFile EXCEPT !.state = "whole"]

\* What may become of a copy of which only a part is read or written.
TornCopies(c) == {[c EXCEPT !.state = s] : s \in {"torn", "broken"}}

BackupTypeOK ==
  /\ index \in 0..MaxChanges
  /\ lastMod \in 0..clock
  /\ watch \in {"idle", "copying", "writing", "queueing"}
  /\ failed \in BOOLEAN
  /\ queue \in Seq(0..clock)
  /\ batch \in Seq(0..clock)
  /\ {db, backup, restore, reading} \subseteq Copy
  /\ up \in BOOLEAN
  /\ {dbMod, backupMod} \subseteq 0..clock
  /\ bucket \in [Names -> Copy]
  /\ clock \in Nat
  /\ up => db.state \in {"whole", "damaged"} /\ db.name \in Names

BackupInit ==
  /\ index = 0
  /\ lastMod = Never
  /\ watch = "idle"
  /\ failed = FALSE
  /\ queue = <<>>
  /\ batch = <<>>
  /\ reading = NoFile
  /\ up = FALSE
  /\ db = NoFile
  /\ dbMod = Never
  /\ backup = NoFile
  /\ backupMod = Never
  /\ restore = NoFile
  /\ bucket = [n \in Names |-> NoFile]
  /\ clock = 0
  /\ changes = 0
  /\ faults = 0
  /\ stops = 0
  /\ losses = 0

Fault == faults < MaxFaults /\ faults' = faults + 1
Tick == clock' = clock + 1

-------------------------------------------------------------------------------
(* The start: index.restore takes the place of a missing index.db, and stops *)
(* the start beside one that is there.  The database is opened if SQLite can *)
(* read its header, whatever the rest is.  restoreIdxBackupName reads the    *)
(* name and time of the last backup, or a name is derived and inserted.      *)

InPlace == IF db /= NoFile THEN db ELSE restore

\* What opening a copy can give.  Of a torn one the tables, and the row of the
\* table indexBackup, can be read or not.
Openings(c) ==
  CASE c.state \in {"none", "empty"} -> {NewDatabase}
    [] c.state \in {"whole", "damaged"} -> {c}
    [] c.state = "torn" ->
         {[r EXCEPT !.state = "damaged", !.index = i] :
            r \in {c, [c EXCEPT !.name = NoName, !.mod = Never]}, i \in {0, c.index}}
    [] c.state = "broken" -> {}

NameDerived(d) == IF d.name = NoName THEN [d EXCEPT !.name = losses + 1] ELSE d

StartWith(d) ==
  /\ up' = TRUE
  /\ restore' = NoFile
  /\ db' = d
  /\ IF d /= db
     THEN Tick /\ dbMod' = clock'
     ELSE UNCHANGED <<clock, dbMod>>
  /\ index' = d.index
  /\ lastMod' = d.mod
  /\ UNCHANGED <<watch, failed, remoteVars, backup, backupMod, bucket, bounds>>

\* Mutant of Start: a database without a name for its backup is taken as it is.
StartUnnamed ==
  /\ ~up
  /\ db = NoFile \/ restore = NoFile
  /\ \E d \in Openings(InPlace) : StartWith(d)

Start ==
  /\ ~up
  /\ db = NoFile \/ restore = NoFile
  /\ \E d \in Openings(InPlace) : StartWith(NameDerived(d))

\* index.restore has been renamed when it turns out that SQLite cannot open it.
StartRefused ==
  /\ ~up
  /\ db = NoFile
  /\ restore.state = "broken"
  /\ db' = restore
  /\ restore' = NoFile
  /\ Tick
  /\ dbMod' = clock'
  /\ UNCHANGED <<watchVars, remoteVars, up, backup, backupMod, bucket, bounds>>

-------------------------------------------------------------------------------
(* The watch thread.                                                         *)

\* A scan, a command or an upload changes the index.
Change ==
  /\ up
  /\ watch = "idle"
  /\ changes < MaxChanges
  /\ changes' = changes + 1
  /\ index' \in {changes', 0}
  /\ UNCHANGED <<lastMod, watch, failed, remoteVars, up, fileVars, bucket, clock, faults, stops, losses>>

Flush ==
  /\ up
  /\ watch = "idle"
  /\ index /= db.index
  /\ Tick
  /\ db' = [db EXCEPT !.index = index]
  /\ dbMod' = clock'
  /\ UNCHANGED <<watchVars, remoteVars, up, backup, backupMod, restore, bucket, bounds>>

BackupDue == dbMod > lastMod

\* Mutant of RecordBackup: MODTIME is set to the time it is written at.
RecordBackupNow ==
  /\ Tick
  /\ db' = [db EXCEPT !.mod = clock']
  /\ dbMod' = clock'
  /\ lastMod' = clock'
  /\ UNCHANGED faults

\* The time of the change backed up is written into the database, which changes
\* it once more: that time is the one remembered, unless the statement fails.
RecordBackup ==
  \/ /\ Tick
     /\ db' = [db EXCEPT !.mod = dbMod]
     /\ dbMod' = clock'
     /\ lastMod' = clock'
     /\ UNCHANGED faults
  \/ Fault /\ UNCHANGED <<clock, db, dbMod, lastMod>>

IndexBackup ==
  /\ up
  /\ watch = "idle"
  /\ index /= 0
  /\ BackupDue
  /\ RecordBackup
  /\ watch' = "copying"
  /\ UNCHANGED <<index, failed, remoteVars, up, backup, backupMod, restore, bucket, changes, stops, losses>>

\* backupDB begins to overwrite index.backup, which the remote thread may be in
\* the middle of reading.
CopyBegins ==
  /\ watch = "copying"
  /\ watch' = "writing"
  /\ Tick
  /\ backup' \in TornCopies(db)
  /\ backupMod' = clock'
  /\ reading' \in {reading} \cup IF reading = NoFile THEN {} ELSE TornCopies(reading)
  /\ UNCHANGED <<index, lastMod, failed, queue, batch, up, db, dbMod, restore, bucket, bounds>>

CopyEnds ==
  /\ watch = "writing"
  /\ watch' = "queueing"
  /\ failed' = FALSE
  /\ Tick
  /\ backup' = db
  /\ backupMod' = clock'
  /\ UNCHANGED <<index, lastMod, remoteVars, up, db, dbMod, restore, bucket, bounds>>

CopyFails ==
  /\ watch \in {"copying", "writing"}
  /\ Fault
  /\ watch' = "idle"
  /\ failed' = TRUE
  /\ UNCHANGED <<index, lastMod, remoteVars, up, fileVars, bucket, clock, changes, stops, losses>>

RemoteFree == batch = <<>>

\* Mutant of QueueBackup: the item carries the time of index.db.
QueueBackupDbTime ==
  /\ watch = "queueing"
  /\ RemoteFree
  /\ queue' = Append(queue, dbMod)
  /\ watch' = "idle"
  /\ UNCHANGED <<index, lastMod, failed, batch, reading, up, fileVars, bucket, clock, bounds>>

\* queueForUpload waits for Remote::mtx, which a pass holds.
QueueBackup ==
  /\ watch = "queueing"
  /\ RemoteFree
  /\ queue' = Append(queue, backupMod)
  /\ watch' = "idle"
  /\ UNCHANGED <<index, lastMod, failed, batch, reading, up, fileVars, bucket, clock, bounds>>

-------------------------------------------------------------------------------
(* The remote thread: a pass over the upload queue.                          *)

UploadRemotes ==
  /\ up
  /\ RemoteFree
  /\ queue /= <<>>
  /\ batch' = queue
  /\ UNCHANGED <<watchVars, queue, reading, up, fileVars, bucket, clock, bounds>>

Visiting == batch /= <<>> /\ reading = NoFile

UploadStale ==
  /\ Visiting
  /\ Head(batch) /= backupMod
  /\ batch' = Tail(batch)
  /\ queue' = Tail(queue)
  /\ UNCHANGED <<watchVars, reading, up, fileVars, bucket, clock, bounds>>

UploadReads ==
  /\ Visiting
  /\ Head(batch) = backupMod
  /\ reading' = backup
  /\ UNCHANGED <<watchVars, queue, batch, up, fileVars, bucket, clock, bounds>>

Store == bucket' = [bucket EXCEPT ![db.name] = reading]

\* uploadSuccess leaves the index alone when the object is the backup.
UploadStores ==
  /\ reading /= NoFile
  /\ Store
  /\ reading' = NoFile
  /\ batch' = Tail(batch)
  /\ queue' = Tail(queue)
  /\ UNCHANGED <<watchVars, up, fileVars, clock, bounds>>

\* Mutant of UploadFails: the item is dropped all the same.
UploadFailsAndDrops ==
  /\ reading /= NoFile
  /\ Fault
  /\ Store \/ UNCHANGED bucket
  /\ reading' = NoFile
  /\ batch' = Tail(batch)
  /\ queue' = Tail(queue)
  /\ UNCHANGED <<watchVars, up, fileVars, clock, changes, stops, losses>>

\* A failed request may have been carried out; the item stays.
UploadFails ==
  /\ reading /= NoFile
  /\ Fault
  /\ Store \/ UNCHANGED bucket
  /\ reading' = NoFile
  /\ batch' = Tail(batch)
  /\ UNCHANGED <<watchVars, queue, up, fileVars, clock, changes, stops, losses>>

-------------------------------------------------------------------------------
(* The socket thread, other programs and the death of the process.           *)

\* restoreIndex downloads an object and decrypts it to index.restore.  A failure
\* leaves the file that was there, an empty file or a part of the object, and
\* is not reported.
RestoreIndex(n) ==
  /\ up
  /\ bucket[n] /= NoFile
  /\ \/ restore' = bucket[n] /\ UNCHANGED faults
     \/ Fault /\ restore' \in {restore, EmptyFile} \cup TornCopies(bucket[n])
  /\ UNCHANGED <<watchVars, remoteVars, up, db, dbMod, backup, backupMod, bucket, clock, changes, stops, losses>>

Stop ==
  /\ up
  /\ stops < MaxStops
  /\ stops' = stops + 1
  /\ up' = FALSE
  /\ index' = 0
  /\ lastMod' = Never
  /\ watch' = "idle"
  /\ failed' = FALSE
  /\ queue' = <<>>
  /\ batch' = <<>>
  /\ reading' = NoFile
  /\ UNCHANGED <<fileVars, bucket, clock, changes, faults, losses>>

LoseDatabase ==
  /\ ~up
  /\ db /= NoFile
  /\ losses < MaxLosses
  /\ losses' = losses + 1
  /\ db' = NoFile
  /\ UNCHANGED <<watchVars, remoteVars, up, dbMod, backup, backupMod, restore, bucket, clock, changes, faults, stops>>

RemoveRestore ==
  /\ ~up
  /\ restore /= NoFile
  /\ restore' = NoFile
  /\ UNCHANGED <<watchVars, remoteVars, up, db, dbMod, backup, backupMod, bucket, clock, bounds>>

WatchStep == Flush \/ IndexBackup \/ CopyBegins \/ CopyEnds \/ CopyFails \/ QueueBackup
RemoteStep == UploadRemotes \/ UploadStale \/ UploadReads \/ UploadStores \/ UploadFails

BackupNext ==
  \/ Start
  \/ StartRefused
  \/ Change
  \/ WatchStep
  \/ RemoteStep
  \/ \E n \in Names : RestoreIndex(n)
  \/ Stop
  \/ LoseDatabase
  \/ RemoveRestore

BackupSpec == BackupInit /\ [][BackupNext]_vars

\* Both threads go on: the remote thread sleeps between its passes, so the
\* watch thread gets Remote::mtx in the end.  A damaged database may refuse
\* every statement, so nothing is promised of a flush to one.
BackupFairSpec ==
  /\ BackupSpec
  /\ WF_vars(Flush /\ db.state = "whole")
  /\ WF_vars(IndexBackup)
  /\ WF_vars(CopyBegins \/ CopyEnds)
  /\ SF_vars(QueueBackup)
  /\ WF_vars(RemoteStep)

-------------------------------------------------------------------------------
(* Properties.                                                               *)

Current == bucket[db.name] = db

\* The database is not in the bucket as it is only while the daemon is making a
\* backup of it, while a whole copy of it is queued, or while the next round
\* will find that it has changed (unless the last copy failed, after which the
\* change is forgotten).
BackupIsDue ==
  up /\ index /= 0 /\ ~Current =>
    \/ watch /= "idle"
    \/ backup = db /\ \E i \in DOMAIN queue : queue[i] = backupMod
    \/ BackupDue
    \/ failed

\* A death of the process forgets no backup that was due: the time it finds in
\* the database when it starts again, a restored one too, is always older than
\* the database, so the first round makes a backup.
StopForgetsNothing == db /= NoFile => db.mod < dbMod

\* When the index no longer changes the daemon stops making backups of a whole
\* database, and the bucket holds exactly this database: no copy read while the
\* next one was being written stays there, and writing the time down is no
\* endless change.  Nothing makes a database whole that was damaged when it was
\* restored: it stays so until it is lost or removed.
Settled ==
  up /\ index /= 0 /\ ~failed /\ db.state = "whole" =>
    Current /\ db.index = index /\ watch = "idle"
BackupSettles == <>[]Settled

===============================================================================
