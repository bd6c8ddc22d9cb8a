------------------------------ MODULE FileSystem ------------------------------
(***************************************************************************)
(* The local file system as the daemon sees it through std::filesystem:    *)
(* which files and directories exist, each file's modification time in     *)
(* whole seconds, and its contents.  Other programs change it at any       *)
(* moment; the daemon only reads it.                                       *)
(*                                                                         *)
(* A file's contents are the number of writes made to it so far, so two    *)
(* writes never leave the same contents, and its modification time is a    *)
(* counter that a write advances or, when SameSecond holds, leaves alone   *)
(* (std::time_t cannot tell two writes within one second apart).           *)
(***************************************************************************)
EXTENDS Naturals

CONSTANTS Files,       \* regular files another program may create
          Dirs,        \* directories
          Parent,      \* the directory each file and directory lies in
          NoDir,       \* the parent of what lies in no modelled directory
          MaxWrites,   \* bound: writes made to one file
          SameSecond   \* may a write keep the modification time?

ASSUME FileSystemAssumption ==
  /\ Parent \in [Files \cup Dirs -> Dirs \cup {NoDir}]
  /\ Files \cap Dirs = {}
  /\ NoDir \notin Files \cup Dirs
  /\ MaxWrites \in Nat
  /\ SameSecond \in BOOLEAN

VARIABLES disk,   \* what each file looks like
          dirs    \* the directories that exist

fsVars == <<disk, dirs>>

FileState == [here : BOOLEAN, mod : Nat, data : Nat]

FsTypeOK ==
  /\ disk \in [Files -> FileState]
  /\ dirs \subseteq Dirs

\* Every directory is there, and any of the files may be.
FsInit ==
  /\ dirs = Dirs
  /\ \E here \in SUBSET Files :
       disk = [f \in Files |-> [here |-> f \in here,
                                mod  |-> IF f \in here THEN 1 ELSE 0,
                                data |-> IF f \in here THEN 1 ELSE 0]]

Exists(n) == IF n \in Files THEN disk[n].here ELSE n \in dirs

\* The modification time fsLastMod stores for a file it cannot read: -1.
NoModTime == 0

\* The hash of no bytes, which hashFile returns for a file it cannot open.
EmptyHash == 0

ParentExists(n) == Parent[n] = NoDir \/ Parent[n] \in dirs

WriteFile(f) ==
  /\ ParentExists(f)
  /\ disk[f].data < MaxWrites
  /\ \E m \in {disk[f].mod, disk[f].mod + 1} :
       /\ m = disk[f].mod => SameSecond /\ m > 0
       /\ disk' = [disk EXCEPT ![f] = [here |-> TRUE, mod  |-> m,
                                       data |-> disk[f].data + 1]]
  /\ UNCHANGED dirs

RemoveFile(f) ==
  /\ disk[f].here
  /\ disk' = [disk EXCEPT ![f].here = FALSE]
  /\ UNCHANGED dirs

Entries(d) == {n \in Files \cup Dirs : Parent[n] = d /\ Exists(n)}

MakeDir(d) ==
  /\ d \notin dirs
  /\ ParentExists(d)
  /\ dirs' = dirs \cup {d}
  /\ UNCHANGED disk

RemoveDir(d) ==
  /\ d \in dirs
  /\ Entries(d) = {}
  /\ dirs' = dirs \ {d}
  /\ UNCHANGED disk

===============================================================================
