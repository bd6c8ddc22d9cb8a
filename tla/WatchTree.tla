------------------------------- MODULE WatchTree -------------------------------
(***************************************************************************)
(* Watched directories (Watch.cpp): addDirWatch and delDirWatch, which     *)
(* walk a directory tree that other programs change meanwhile, the         *)
(* directory half of scanFileChange, the table dirIndex and its            *)
(* restoration.                                                            *)
(*                                                                         *)
(* Watch::mtx is held for a whole walk.  A walk is a stack of frames, one  *)
(* for each addDirWatch, delDirWatch or loop body of the scan that is      *)
(* still running.  Of a file the index keeps whether it is watched and     *)
(* whether its latest version is marked as existing locally; its versions  *)
(* are FileIndex's.                                                        *)
(***************************************************************************)
EXTENDS FileSystem, Sequences

CONSTANTS MaxCommands,  \* bound: commands carried out
          MaxMakes,     \* bound: directories other programs make
          MaxCrashes    \* bound: deaths of the process from outside

ASSUME WatchTreeAssumption ==
  /\ MaxCommands \in Nat
  /\ MaxMakes \in Nat
  /\ MaxCrashes \in Nat

VARIABLES dirIndex,   \* how each directory is watched
          files,      \* how each file is watched
          dirRows,    \* the table dirIndex of the database
          fileRows,   \* the rows of each path in the table fileIndex
          sqlQueue,   \* statements not executed yet
          holder,     \* who holds Watch::mtx: "watch", "socket" or "nobody"
          doing,      \* and what for: a walk of the tree or the scan
          todo,       \* directories the scan's loop has still to visit
          walk,       \* the frames of the walk, outermost first
          up,         \* the process runs
          listening,  \* the socket thread runs
          commands, makes, crashes

tables == <<dirRows, fileRows>>
indexes == <<dirIndex, files>>
lockVars == <<holder, doing, todo, walk>>
bounds == <<commands, makes, crashes>>
treeVars == <<fsVars, indexes, tables, sqlQueue, lockVars, up, listening, bounds>>

\* "here" and "gone": the mark of the latest version.
FileWatch == {"unwatched", "here", "gone"}
DirWatch == {"unwatched", "flat", "recursive"}

Statement ==
  [do : {"insert dir"}, path : Dirs, as : {"flat", "recursive"}]
  \cup [do : {"delete dir"}, path : Dirs]
  \cup [do : {"insert file", "gone", "delete file"}, path : Files]

\* left is what directory_iterator has still to return.  done is a history: what
\* a deletion has been through.
Frame == [does : {"add", "del"}, dir : Dirs, recursive : BOOLEAN, open : BOOLEAN,
          left : SUBSET (Files \cup Dirs), done : SUBSET (Files \cup Dirs)]

TreeTypeOK ==
  /\ FsTypeOK
  /\ dirIndex \in [Dirs -> DirWatch]
  /\ files \in [Files -> FileWatch]
  /\ dirRows \in [Dirs -> DirWatch]
  /\ fileRows \in [Files -> FileWatch]
  /\ sqlQueue \in Seq(Statement)
  /\ holder \in {"nobody", "watch", "socket"}
  /\ doing \in {"nothing", "walk", "scan"}
  /\ todo \subseteq Dirs
  /\ walk \in Seq(Frame)
  /\ up \in BOOLEAN
  /\ listening \in BOOLEAN
  /\ commands \in 0..MaxCommands
  /\ makes \in 0..MaxMakes
  /\ crashes \in 0..MaxCrashes

Idle ==
  /\ holder = "nobody"
  /\ doing = "nothing"
  /\ todo = {}
  /\ walk = <<>>

TreeInit ==
  /\ FsInit
  /\ dirIndex = [d \in Dirs |-> "unwatched"]
  /\ files = [f \in Files |-> "unwatched"]
  /\ dirRows = dirIndex
  /\ fileRows = files
  /\ sqlQueue = <<>>
  /\ Idle
  /\ up = TRUE
  /\ listening = TRUE
  /\ commands = 0
  /\ makes = 0
  /\ crashes = 0

WatchedDirs == {d \in Dirs : dirIndex[d] /= "unwatched"}
WatchedFiles == {f \in Files : files[f] /= "unwatched"}

MtxFree == up /\ holder = "nobody"
Lock(who, what) == holder' = who /\ doing' = what
Unlock == holder' = "nobody" /\ doing' = "nothing"
QueueSql(s) == sqlQueue' = Append(sqlQueue, s)

-------------------------------------------------------------------------------
(* The walk.                                                                 *)

Top == walk[Len(walk)]
Walking == walk /= <<>>
Reading(n) == Walking /\ Top.open /\ n \in Top.left

NewFrame(does, d, recursive) ==
  [does |-> does, dir |-> d, recursive |-> recursive, open |-> FALSE, left |-> {}, done |-> {}]

\* The walk after the frame on top has dealt with n.
Past(n) == [walk EXCEPT ![Len(walk)].left = @ \ {n}]

\* addDirWatch enters the directory in index and SQL queue before it looks
\* inside, and does nothing for one that is there already, whatever its flag.
EnterDir(d, recursive) ==
  LET how == IF recursive THEN "recursive" ELSE "flat" IN
    /\ dirIndex[d] = "unwatched"
    /\ dirIndex' = [dirIndex EXCEPT ![d] = how]
    /\ QueueSql([do |-> "insert dir", path |-> d, as |-> how])

\* Mutant of LeaveDir: the directory stays in the index.
LeaveDirInDb(d) ==
  /\ QueueSql([do |-> "delete dir", path |-> d])
  /\ UNCHANGED dirIndex

\* Mutant of LeaveDir: the row stays in the database.
LeaveDirInMemory(d) ==
  /\ dirIndex' = [dirIndex EXCEPT ![d] = "unwatched"]
  /\ UNCHANGED sqlQueue

\* Mutant of LeaveDir: the row is deleted from the table of the files.
LeaveDirAsFile(d) ==
  /\ dirIndex' = [dirIndex EXCEPT ![d] = "unwatched"]
  /\ QueueSql([do |-> "delete file", path |-> d])

LeaveDir(d) ==
  /\ dirIndex' = [dirIndex EXCEPT ![d] = "unwatched"]
  /\ QueueSql([do |-> "delete dir", path |-> d])

\* Mutant of WatchFile: only what an addition walks over is watched.
WatchFileByCommand(f) ==
  /\ holder = "socket"
  /\ files[f] = "unwatched"
  /\ files' = [files EXCEPT ![f] = "here"]
  /\ QueueSql([do |-> "insert file", path |-> f])

WatchFile(f) ==
  /\ files[f] = "unwatched"
  /\ files' = [files EXCEPT ![f] = "here"]
  /\ QueueSql([do |-> "insert file", path |-> f])

UnwatchFile(f) ==
  /\ files' = [files EXCEPT ![f] = "unwatched"]
  /\ QueueSql([do |-> "delete file", path |-> f])

OpenDir ==
  /\ Walking
  /\ ~Top.open
  /\ Top.dir \in dirs
  /\ walk' = [walk EXCEPT ![Len(walk)].open = TRUE, ![Len(walk)].left = Entries(Top.dir)]
  /\ UNCHANGED <<indexes, tables, sqlQueue, holder, doing, todo, up, listening>>

\* An entry that has vanished, a subdirectory nobody asked for, and what is
\* watched already.  Files are those addFileWatch does not ignore (.swp).
SkipEntry(n) ==
  /\ Reading(n)
  /\ \/ ~Exists(n)
     \/ n \in Dirs /\ ~Top.recursive
     \/ n \in Dirs /\ Top.does = "add" /\ dirIndex[n] /= "unwatched"
     \/ n \in Files /\ Top.does = "add" /\ files[n] /= "unwatched"
  /\ walk' = Past(n)
  /\ UNCHANGED <<indexes, tables, sqlQueue, holder, doing, todo, up, listening>>

\* Inserting into dirIndex while the scan's loop runs over it is undefined
\* behaviour.  With libstdc++ the iterator survives, but after a rehash any of
\* the other directories, old or new, or none may be left behind it.
AddSubdir(d) ==
  /\ Reading(d)
  /\ Top.does = "add"
  /\ Top.recursive
  /\ d \in dirs
  /\ EnterDir(d, TRUE)
  /\ walk' = Append(Past(d), NewFrame("add", d, TRUE))
  /\ IF doing = "scan"
     THEN todo' \in SUBSET ((WatchedDirs \cup {d}) \ {walk[1].dir})
     ELSE UNCHANGED todo
  /\ UNCHANGED <<files, tables, holder, doing, up, listening>>

AddEntry(f) ==
  /\ Reading(f)
  /\ Top.does = "add"
  /\ Exists(f)
  /\ WatchFile(f)
  /\ walk' = Past(f)
  /\ UNCHANGED <<dirIndex, tables, holder, doing, todo, up, listening>>

DelSubdir(d) ==
  /\ Reading(d)
  /\ Top.does = "del"
  /\ Top.recursive
  /\ d \in dirs
  /\ walk' = Append(Past(d), NewFrame("del", d, TRUE))
  /\ UNCHANGED <<indexes, tables, sqlQueue, holder, doing, todo, up, listening>>

DelEntry(f) ==
  /\ Reading(f)
  /\ Top.does = "del"
  /\ Exists(f)
  /\ UnwatchFile(f)
  /\ walk' = [Past(f) EXCEPT ![Len(walk)].done = @ \cup {f}]
  /\ UNCHANGED <<dirIndex, tables, holder, doing, todo, up, listening>>

\* The frame on top returns; a command's outermost one gives the mutex back.
Return ==
  /\ walk' = LET rest == SubSeq(walk, 1, Len(walk) - 1) IN
               IF rest = <<>> \/ Top.does = "add" THEN rest
               ELSE [rest EXCEPT ![Len(rest)].done = @ \cup Top.done \cup {Top.dir}]
  /\ IF Len(walk) = 1 /\ doing = "walk" THEN Unlock ELSE UNCHANGED <<holder, doing>>

CloseAdded ==
  /\ Walking
  /\ Top.open
  /\ Top.left = {}
  /\ Top.does = "add"
  /\ Return
  /\ UNCHANGED <<indexes, tables, sqlQueue, todo, up, listening>>

CloseDeleted ==
  /\ Walking
  /\ Top.open
  /\ Top.left = {}
  /\ Top.does = "del"
  /\ LeaveDir(Top.dir)
  /\ Return
  /\ UNCHANGED <<files, tables, todo, up, listening>>

\* The directory has gone since it was seen: directory_iterator throws.  In the
\* socket thread that ends openSocket, and with it the thread, while what has
\* been entered so far stays; in the watch thread nobody catches it.
ThrowInSocket ==
  /\ Walking
  /\ ~Top.open
  /\ Top.dir \notin dirs
  /\ holder = "socket"
  /\ walk' = <<>>
  /\ Unlock
  /\ listening' = FALSE
  /\ UNCHANGED <<indexes, tables, sqlQueue, todo, up>>

GoDown ==
  /\ up' = FALSE
  /\ listening' = FALSE
  /\ Unlock
  /\ walk' = <<>>
  /\ todo' = {}
  /\ sqlQueue' = <<>>
  /\ dirIndex' = [d \in Dirs |-> "unwatched"]
  /\ files' = [f \in Files |-> "unwatched"]

ThrowInWatch ==
  /\ Walking
  /\ ~Top.open
  /\ Top.dir \notin dirs
  /\ holder = "watch"
  /\ GoDown
  /\ UNCHANGED tables

-------------------------------------------------------------------------------
(* Commands, on the socket thread, about what status() finds.                *)

AddCommand(n, recursive) ==
  /\ Exists(n)
  /\ IF n \in Dirs
     THEN /\ EnterDir(n, recursive)
          /\ walk' = <<NewFrame("add", n, recursive)>>
          /\ Lock("socket", "walk")
          /\ UNCHANGED files
     ELSE WatchFile(n) /\ UNCHANGED <<dirIndex, walk, holder, doing>>

DelCommand(n, recursive) ==
  /\ Exists(n)
  /\ IF n \in Dirs
     THEN /\ walk' = <<NewFrame("del", n, recursive)>>
          /\ Lock("socket", "walk")
          /\ UNCHANGED <<indexes, sqlQueue>>
     ELSE UnwatchFile(n) /\ UNCHANGED <<dirIndex, walk, holder, doing>>

Command ==
  /\ MtxFree
  /\ listening
  /\ commands < MaxCommands
  /\ commands' = commands + 1
  /\ \E n \in Files \cup Dirs, recursive \in BOOLEAN : AddCommand(n, recursive) \/ DelCommand(n, recursive)
  /\ UNCHANGED <<tables, todo, up, listening>>

-------------------------------------------------------------------------------
(* scanFileChange.                                                           *)

\* The half over the files: in whatever order it meets them, it marks at most
\* one that has vanished, and none behind one that is marked.
ScanFiles ==
  /\ LET lost == {f \in Files : files[f] = "here" /\ ~Exists(f)} IN
       \/ /\ lost = {} \/ \E f \in Files : files[f] = "gone"
          /\ UNCHANGED <<files, sqlQueue>>
       \/ \E f \in lost :
            /\ files' = [files EXCEPT ![f] = "gone"]
            /\ QueueSql([do |-> "gone", path |-> f])

ScanStart ==
  /\ MtxFree
  /\ ScanFiles
  /\ Lock("watch", "scan")
  /\ todo' = WatchedDirs
  /\ UNCHANGED <<dirIndex, tables, walk, up, listening>>

Looping == doing = "scan" /\ ~Walking

ScanDir(d) ==
  /\ Looping
  /\ d \in todo
  /\ d \in dirs
  /\ walk' = <<NewFrame("add", d, dirIndex[d] = "recursive")>>
  /\ todo' = todo \ {d}
  /\ UNCHANGED <<indexes, tables, sqlQueue, holder, doing, up, listening>>

\* Mutant of ScanVanished: the loop breaks off and leaves the directory in.
ScanVanishedStays(d) ==
  /\ Looping
  /\ d \in todo
  /\ d \notin dirs
  /\ todo' = {}
  /\ Unlock
  /\ UNCHANGED <<indexes, tables, sqlQueue, walk, up, listening>>

\* A directory that has vanished is left, and the loop breaks off.
ScanVanished(d) ==
  /\ Looping
  /\ d \in todo
  /\ d \notin dirs
  /\ LeaveDir(d)
  /\ todo' = {}
  /\ Unlock
  /\ UNCHANGED <<files, tables, walk, up, listening>>

ScanEnd ==
  /\ Looping
  /\ todo = {}
  /\ Unlock
  /\ UNCHANGED <<indexes, tables, sqlQueue, todo, walk, up, listening>>

-------------------------------------------------------------------------------
(* The database.                                                             *)

\* A row of dirIndex is UNIQUE: INSERT or IGNORE leaves one that is there.
ExecuteDir(t, s) ==
  CASE s.do = "insert dir" /\ t[s.path] = "unwatched" -> [t EXCEPT ![s.path] = s.as]
    [] s.do = "delete dir" -> [t EXCEPT ![s.path] = "unwatched"]
    [] OTHER -> t

ExecuteFile(t, s) ==
  CASE s.do = "insert file" -> [t EXCEPT ![s.path] = "here"]
    [] s.do = "delete file" -> [t EXCEPT ![s.path] = "unwatched"]
    [] s.do = "gone" /\ t[s.path] /= "unwatched" -> [t EXCEPT ![s.path] = "gone"]
    [] OTHER -> t

Execute(t, s) == <<ExecuteDir(t[1], s), ExecuteFile(t[2], s)>>

\* The two tables t after the statements q.
After(t, q) ==
  LET at[i \in 0..Len(q)] == IF i = 0 THEN t ELSE Execute(at[i - 1], q[i]) IN at[Len(q)]

\* The database after the first n statements queued.
Executed(n) ==
  LET after == After(tables, SubSeq(sqlQueue, 1, n)) IN dirRows' = after[1] /\ fileRows' = after[2]

\* Only a death of the process can tell that the flush is many steps.
Flush ==
  /\ MtxFree
  /\ sqlQueue /= <<>>
  /\ Executed(Len(sqlQueue))
  /\ sqlQueue' = <<>>
  /\ UNCHANGED <<indexes, lockVars, up, listening>>

\* The second and later versions of a path come back marked as existing
\* (restoreFileIdx), so a file that was gone may come back either way.
Start ==
  /\ ~up
  /\ up' = TRUE
  /\ listening' = TRUE
  /\ dirIndex' = dirRows
  /\ files' \in {w \in [Files -> FileWatch] :
                   \A f \in Files : w[f] = fileRows[f] \/ (w[f] = "here" /\ fileRows[f] = "gone")}
  /\ UNCHANGED <<tables, sqlQueue, lockVars>>

-------------------------------------------------------------------------------
WalkStep ==
  \/ OpenDir
  \/ \E n \in Files \cup Dirs : SkipEntry(n)
  \/ \E d \in Dirs : AddSubdir(d) \/ DelSubdir(d)
  \/ \E f \in Files : AddEntry(f) \/ DelEntry(f)
  \/ CloseAdded
  \/ CloseDeleted
  \/ ThrowInSocket
  \/ ThrowInWatch

ScanStep ==
  \/ \E d \in Dirs : ScanDir(d) \/ ScanVanished(d)
  \/ ScanEnd

HolderStep == WalkStep \/ ScanStep

OtherPrograms ==
  /\ \/ (\E f \in Files : WriteFile(f) \/ RemoveFile(f)) /\ UNCHANGED makes
     \/ (\E d \in Dirs : RemoveDir(d)) /\ UNCHANGED makes
     \/ makes < MaxMakes /\ makes' = makes + 1 /\ \E d \in Dirs : MakeDir(d)
  /\ UNCHANGED <<indexes, tables, sqlQueue, lockVars, up, listening, commands, crashes>>

\* The process dies, in the middle of a flush perhaps: each statement is its own
\* transaction.
Crash ==
  /\ up
  /\ crashes < MaxCrashes
  /\ crashes' = crashes + 1
  /\ GoDown
  /\ \/ UNCHANGED tables
     \/ MtxFree /\ \E n \in 1..Len(sqlQueue) : Executed(n)

TreeNext ==
  \/ (HolderStep \/ ScanStart \/ Flush \/ Start) /\ UNCHANGED <<fsVars, bounds>>
  \/ Command /\ UNCHANGED <<fsVars, makes, crashes>>
  \/ Crash /\ UNCHANGED <<fsVars, commands, makes>>
  \/ OtherPrograms

TreeSpec == TreeInit /\ [][TreeNext]_treeVars

\* Whoever holds Watch::mtx goes on, and the watch thread, which scans every
\* second, gets the mutex when it is free again and again.  Nothing starts a
\* daemon that has died.
TreeFairSpec ==
  /\ TreeSpec
  /\ WF_treeVars(HolderStep /\ UNCHANGED <<fsVars, bounds>>)
  /\ SF_treeVars(ScanStart /\ UNCHANGED <<fsVars, bounds>>)

-------------------------------------------------------------------------------
(* Properties.                                                               *)

\* However walks are interrupted by vanishing directories, exceptions and
\* deaths, executing the queued statements would take the database to the
\* index: the directories with their flags, the same files, and no file marked
\* as gone that the database believes in.
ReplayGivesIndex ==
  up => LET after == After(tables, sqlQueue) IN
          /\ after[1] = dirIndex
          /\ \A f \in Files :
               /\ files[f] = "unwatched" <=> after[2][f] = "unwatched"
               /\ files[f] = "gone" => after[2][f] = "gone"

\* What delDirWatch has been through, at any depth, stays out of both indexes
\* until it returns.
DeletedSoFar ==
  \A i \in DOMAIN walk :
    walk[i].done \cap (WatchedDirs \cup WatchedFiles) = {}

\* Whatever lies in a watched directory is watched in the end, a subdirectory
\* too when the directory is watched recursively, whether an addition or the
\* scan comes across it, unless it goes, the watch goes or the daemon dies.
Overlooked(n) ==
  /\ up = TRUE
  /\ Exists(n)
  /\ Parent[n] /= NoDir
  /\ IF n \in Dirs
     THEN dirIndex[n] = "unwatched" /\ dirIndex[Parent[n]] = "recursive"
     ELSE files[n] = "unwatched" /\ dirIndex[Parent[n]] /= "unwatched"
EntriesGetWatched == \A n \in Files \cup Dirs : Overlooked(n) ~> ~Overlooked(n)

\* The scan, although it breaks off at the first vanished directory, drops all
\* of them in the end.
Stale(d) == up /\ dirIndex[d] /= "unwatched" /\ d \notin dirs
VanishedDirsLeave == \A d \in Dirs : Stale(d) ~> ~Stale(d)

===============================================================================
