------------------------------ MODULE FileIndex ------------------------------
(***************************************************************************)
(* Class Watch (Watch.cpp): the index of the watched files and of their    *)
(* versions, the reverse index from object names to paths, the SQL it      *)
(* queues, and the table of the database the SQL is executed on (DB.cpp).  *)
(*                                                                         *)
(* Watch::mtx is held for a whole scan, command or flush, but not by       *)
(* uploadSuccess, which the remote thread runs, nor does it stop the file  *)
(* system from changing or Remote::mtx from being taken by others: section *)
(* says what the holder of Watch::mtx is doing, step by step.  Directories *)
(* are not in this module.                                                 *)
(***************************************************************************)
EXTENDS TransferQueue, FiniteSets

CONSTANTS MaxDeletes,     \* bound: DELETE statements queued when a client asks for another
          EarlyCommands   \* do clients send commands while the index is restored?

NoPath == "none"

ASSUME FileIndexAssumption ==
  /\ MaxDeletes \in Nat
  /\ EarlyCommands \in BOOLEAN
  /\ NoPath \notin Files

VARIABLES index,      \* fileIndex: the versions of each path, oldest first
          hashIndex,  \* pathHashIndex: the path behind each name, or NoPath
          sqlQueue,   \* statements not executed yet
          rows,       \* the table fileIndex of the database
          restoring,  \* restoreDB has not returned yet
          restored,   \* rows restoreFileIdx has read
          section     \* what the holder of Watch::mtx is doing

watchVars == <<index, hashIndex, sqlQueue, restoring, restored, section>>
indexVars == <<watchVars, rows>>

\* A hash stands for the contents hashed; {} is the empty string.
NoHash == {}
Hash == SUBSET Nat

Version == [mod : Nat, name : Names, hash : Hash, local : BOOLEAN, remote : BOOLEAN]
Row == [path : Files, mod : Nat, name : Names, hash : Hash, local : BOOLEAN, remote : BOOLEAN]
Statement ==
  [do : {"insert"}, path : Files, mod : Nat, name : Names, hash : Hash]
  \cup [do : {"gone", "delete"}, path : Files]
  \cup [do : {"uploaded"}, name : Names]

Free == [at |-> "free"]
Scanning(todo) == [at |-> "scan", todo |-> todo]
Section ==
  {Free}
  \cup [at : {"scan"}, todo : SUBSET Files]
  \cup [at : {"seen", "modtime"}, todo : SUBSET Files, path : Files]
  \cup [at : {"hash"}, todo : SUBSET Files, path : Files, mod : Nat]
  \cup [at : {"enqueue"}, todo : SUBSET Files, path : Files, mod : Nat, name : Names]
  \cup [at : {"delete"}, path : Files, done : Nat]
  \cup [at : {"flush"}, done : Nat, size : Nat]

IndexTypeOK ==
  /\ index \in [Files -> Seq(Version)]
  /\ hashIndex \in [Names -> Files \cup {NoPath}]
  /\ sqlQueue \in Seq(Statement)
  /\ rows \in Seq(Row)
  /\ restoring \in BOOLEAN
  /\ restored \in 0..Len(rows)
  /\ section \in Section

IndexInit ==
  /\ index = [p \in Files |-> <<>>]
  /\ hashIndex = [n \in Names |-> NoPath]
  /\ sqlQueue = <<>>
  /\ restoring = TRUE
  /\ restored = 0
  /\ section = Free
  /\ rows = <<>>

Tracked == {p \in Files : index[p] /= <<>>}
Latest(p) == index[p][Len(index[p])]
FsLastMod(p) == IF Exists(p) THEN disk[p].mod ELSE NoModTime
HashFile(p) == {IF Exists(p) THEN disk[p].data ELSE EmptyHash}

\* fileIndex.at(p) finds p: addFileWatch and delFileWatch make an entry first.
Mapped(p) ==
  \/ p \in Tracked
  \/ section.at \in {"modtime", "hash", "delete"} /\ section.path = p

QueueSql(s) == sqlQueue' = Append(sqlQueue, s)
WatchFree == section = Free

-------------------------------------------------------------------------------
(* restoreFileIdx, row by row: the mutex is free in between.                 *)

RowVersion(r) == [mod |-> r.mod, name |-> r.name, hash |-> r.hash, local |-> r.local, remote |-> r.remote]

\* The second and later versions of a path come back without their file hash
\* and with the flags of a version just added.
BareVersion(r) == [mod |-> r.mod, name |-> r.name, hash |-> NoHash, local |-> TRUE, remote |-> FALSE]

\* Mutant of RestoreRow: a second row of a path misses the reverse index.
RestoreRowOnce ==
  /\ restoring
  /\ WatchFree
  /\ restored < Len(rows)
  /\ LET r == rows[restored + 1] IN
       IF r.path \in Tracked
       THEN /\ index' = [index EXCEPT ![r.path] = Append(@, BareVersion(r))]
            /\ UNCHANGED hashIndex
       ELSE /\ index' = [index EXCEPT ![r.path] = <<RowVersion(r)>>]
            /\ hashIndex' = [hashIndex EXCEPT ![r.name] = r.path]
  /\ restored' = restored + 1
  /\ UNCHANGED <<sqlQueue, rows, restoring, section>>

RestoreRow ==
  /\ restoring
  /\ WatchFree
  /\ restored < Len(rows)
  /\ LET r == rows[restored + 1] IN
       /\ index' = [index EXCEPT ![r.path] =
                      Append(@, IF r.path \in Tracked THEN BareVersion(r) ELSE RowVersion(r))]
       /\ hashIndex' = [hashIndex EXCEPT ![r.name] = r.path]
  /\ restored' = restored + 1
  /\ UNCHANGED <<sqlQueue, rows, restoring, section>>

RestoreDone ==
  /\ restoring
  /\ restored = Len(rows)
  /\ restoring' = FALSE
  /\ restored' = 0
  /\ UNCHANGED <<index, hashIndex, sqlQueue, rows, section>>

-------------------------------------------------------------------------------
(* scanFileChange: the watched files, in the order of the unordered_map.     *)

ScanStart ==
  /\ ~restoring
  /\ WatchFree
  /\ section' = Scanning(Tracked)
  /\ UNCHANGED <<index, hashIndex, sqlQueue, rows, restoring, restored>>

\* The loop ends, or breaks off at a file already known to be gone (or when
\* the bound on names is reached).
ScanEnd ==
  /\ section.at = "scan"
  /\ \/ section.todo = {}
     \/ \E p \in section.todo : ~Latest(p).local
     \/ issued = MaxNames
  /\ section' = Free
  /\ UNCHANGED <<index, hashIndex, sqlQueue, rows, restoring, restored>>

MarkGone(p) == index' = [index EXCEPT ![p][Len(index[p])].local = FALSE]

\* The file is gone: that is recorded, and the loop breaks off.
ScanGone(p) ==
  /\ section.at = "scan"
  /\ p \in section.todo
  /\ Latest(p).local
  /\ ~Exists(p)
  /\ MarkGone(p)
  /\ QueueSql([do |-> "gone", path |-> p])
  /\ section' = Free
  /\ UNCHANGED <<hashIndex, rows, restoring, restored>>

ScanSees(p) ==
  /\ section.at = "scan"
  /\ p \in section.todo
  /\ Latest(p).local
  /\ Exists(p)
  /\ issued < MaxNames
  /\ section' = [at |-> "seen", todo |-> section.todo \ {p}, path |-> p]
  /\ UNCHANGED <<index, hashIndex, sqlQueue, rows, restoring, restored>>

ScanSame ==
  /\ section.at = "seen"
  /\ FsLastMod(section.path) = Latest(section.path).mod
  /\ section' = Scanning(section.todo)
  /\ UNCHANGED <<index, hashIndex, sqlQueue, rows, restoring, restored>>

ScanChanged ==
  /\ section.at = "seen"
  /\ FsLastMod(section.path) /= Latest(section.path).mod
  /\ MarkGone(section.path)
  /\ section' = [at |-> "modtime", todo |-> section.todo, path |-> section.path]
  /\ UNCHANGED <<hashIndex, sqlQueue, rows, restoring, restored>>

-------------------------------------------------------------------------------
(* addFileVersion, called by the scan and by addFileWatch.                   *)

AddWatch(p) ==
  /\ restoring => EarlyCommands
  /\ WatchFree
  /\ Exists(p)
  /\ p \notin Tracked
  /\ issued < MaxNames
  /\ section' = [at |-> "modtime", todo |-> {}, path |-> p]
  /\ UNCHANGED <<index, hashIndex, sqlQueue, rows, restoring, restored>>

ReadModTime ==
  /\ section.at = "modtime"
  /\ section' = [at |-> "hash", todo |-> section.todo, path |-> section.path,
                 mod |-> FsLastMod(section.path)]
  /\ UNCHANGED <<index, hashIndex, sqlQueue, rows, restoring, restored>>

\* Mutant of AddFileVersion: a new version starts out as not being there.
AddFileVersionGone ==
  /\ section.at = "hash"
  /\ issued' = issued + 1
  /\ LET p == section.path
         v == [mod |-> section.mod, name |-> issued', hash |-> HashFile(p),
               local |-> FALSE, remote |-> FALSE]
     IN  /\ index' = [index EXCEPT ![p] = Append(@, v)]
         /\ hashIndex' = [hashIndex EXCEPT ![v.name] = p]
         /\ QueueSql([do |-> "insert", path |-> p, mod |-> v.mod, name |-> v.name, hash |-> v.hash])
         /\ section' = [at |-> "enqueue", todo |-> section.todo, path |-> p,
                        mod |-> v.mod, name |-> v.name]
  /\ UNCHANGED <<rows, restoring, restored>>

AddFileVersion ==
  /\ section.at = "hash"
  /\ issued' = issued + 1
  /\ LET p == section.path
         v == [mod |-> section.mod, name |-> issued', hash |-> HashFile(p),
               local |-> TRUE, remote |-> FALSE]
     IN  /\ index' = [index EXCEPT ![p] = Append(@, v)]
         /\ hashIndex' = [hashIndex EXCEPT ![v.name] = p]
         /\ QueueSql([do |-> "insert", path |-> p, mod |-> v.mod, name |-> v.name, hash |-> v.hash])
         /\ section' = [at |-> "enqueue", todo |-> section.todo, path |-> p,
                        mod |-> v.mod, name |-> v.name]
  /\ UNCHANGED <<rows, restoring, restored>>

QueueVersion ==
  /\ section.at = "enqueue"
  /\ QueueForUpload([path |-> section.path, name |-> section.name, mod |-> section.mod])
  /\ section' = Scanning(section.todo)
  /\ UNCHANGED <<index, hashIndex, sqlQueue, rows, restoring, restored>>

-------------------------------------------------------------------------------
(* delFileWatch: one version after the other, then the path.                 *)

DelWatch(p) ==
  /\ restoring => EarlyCommands
  /\ WatchFree
  /\ Exists(p)
  /\ Cardinality({i \in DOMAIN sqlQueue : sqlQueue[i].do = "delete"}) < MaxDeletes
  /\ section' = [at |-> "delete", path |-> p, done |-> 0]
  /\ UNCHANGED <<index, hashIndex, sqlQueue, rows, restoring, restored>>

\* Mutant of DelVersion: the name stays in the reverse index.
DelVersionKeepsName ==
  /\ section.at = "delete"
  /\ section.done < Len(index[section.path])
  /\ QueueForDelete(index[section.path][section.done + 1].name)
  /\ section' = [section EXCEPT !.done = @ + 1]
  /\ UNCHANGED <<index, hashIndex, sqlQueue, rows, restoring, restored>>

DelVersion ==
  /\ section.at = "delete"
  /\ section.done < Len(index[section.path])
  /\ LET n == index[section.path][section.done + 1].name IN
       /\ QueueForDelete(n)
       /\ hashIndex' = [hashIndex EXCEPT ![n] = NoPath]
  /\ section' = [section EXCEPT !.done = @ + 1]
  /\ UNCHANGED <<index, sqlQueue, rows, restoring, restored>>

\* Mutant of DelFinish: the row stays in the database.
DelFinishInMemory ==
  /\ section.at = "delete"
  /\ section.done = Len(index[section.path])
  /\ index' = [index EXCEPT ![section.path] = <<>>]
  /\ section' = Free
  /\ UNCHANGED <<hashIndex, sqlQueue, rows, restoring, restored>>

DelFinish ==
  /\ section.at = "delete"
  /\ section.done = Len(index[section.path])
  /\ index' = [index EXCEPT ![section.path] = <<>>]
  /\ QueueSql([do |-> "delete", path |-> section.path])
  /\ section' = Free
  /\ UNCHANGED <<hashIndex, rows, restoring, restored>>

-------------------------------------------------------------------------------
(* execQueuedSQL: the text queued by then is executed statement by           *)
(* statement, each its own transaction, and then the queue is emptied.       *)

\* What DELETE ... WHERE PATH leaves of the rows.
RowsNotOf(r, path) ==
  LET rest[i \in 0..Len(r)] ==
        IF i = 0 THEN <<>>
        ELSE IF r[i].path = path THEN rest[i - 1] ELSE Append(rest[i - 1], r[i])
  IN  rest[Len(r)]

Execute(r, s) ==
  CASE s.do = "insert"   -> Append(r, [path |-> s.path, mod |-> s.mod, name |-> s.name, hash |-> s.hash,
                                       local |-> TRUE, remote |-> FALSE])
    [] s.do = "gone"     -> [i \in DOMAIN r |-> IF r[i].path = s.path THEN [r[i] EXCEPT !.local = FALSE]
                                                                     ELSE r[i]]
    [] s.do = "uploaded" -> [i \in DOMAIN r |-> IF r[i].name = s.name THEN [r[i] EXCEPT !.remote = TRUE]
                                                                     ELSE r[i]]
    [] s.do = "delete"   -> RowsNotOf(r, s.path)

FlushStart ==
  /\ ~restoring
  /\ WatchFree
  /\ sqlQueue /= <<>>
  /\ section' = [at |-> "flush", done |-> 0, size |-> Len(sqlQueue)]
  /\ UNCHANGED <<index, hashIndex, sqlQueue, rows, restoring, restored>>

\* Mutant of FlushStatement: the last statement queued is executed first.
FlushStatementBackwards ==
  /\ section.at = "flush"
  /\ section.done < section.size
  /\ rows' = Execute(rows, sqlQueue[section.size - section.done])
  /\ section' = [section EXCEPT !.done = @ + 1]
  /\ UNCHANGED <<index, hashIndex, sqlQueue, restoring, restored>>

FlushStatement ==
  /\ section.at = "flush"
  /\ section.done < section.size
  /\ rows' = Execute(rows, sqlQueue[section.done + 1])
  /\ section' = [section EXCEPT !.done = @ + 1]
  /\ UNCHANGED <<index, hashIndex, sqlQueue, restoring, restored>>

\* Whatever was queued in the meantime goes as well.
FlushEnd ==
  /\ section.at = "flush"
  /\ section.done = section.size
  /\ sqlQueue' = <<>>
  /\ section' = Free
  /\ UNCHANGED <<index, hashIndex, rows, restoring, restored>>

\* The process dies: what is not in the database is lost, and the next start
\* restores what is.
LoseIndex ==
  /\ index' = [p \in Files |-> <<>>]
  /\ hashIndex' = [n \in Names |-> NoPath]
  /\ sqlQueue' = <<>>
  /\ restoring' = TRUE
  /\ restored' = 0
  /\ section' = Free
  /\ UNCHANGED rows

-------------------------------------------------------------------------------
\* uploadSuccess, on the remote thread, whoever holds Watch::mtx; it throws
\* when path is not in the index, and then nothing changes.
UploadSuccess(path, name) ==
  /\ IF Mapped(path)
     THEN /\ index' = [index EXCEPT ![path] =
                         [i \in DOMAIN @ |-> IF @[i].name = name THEN [@[i] EXCEPT !.remote = TRUE]
                                                                 ELSE @[i]]]
          /\ QueueSql([do |-> "uploaded", name |-> name])
     ELSE UNCHANGED <<index, sqlQueue>>
  /\ UNCHANGED <<hashIndex, rows, restoring, restored, section>>

===============================================================================
