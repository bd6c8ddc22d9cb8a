--------------------------- MODULE IndexBackupProofs ---------------------------
(***************************************************************************)
(* Proofs about IndexBackup, for any number of changes, failures, deaths   *)
(* and losses.                                                             *)
(*                                                                         *)
(* BackupIsDue needs to know what the remote thread is about to put into   *)
(* the bucket.  The items of the queue are times of index.backup, in       *)
(* order, so only the last one can be current, and a pass has nothing      *)
(* left to visit once it has read it (QueueInOrder); and what it has read  *)
(* is index.backup as it is, unless the watch thread is on its way to      *)
(* queue another one, or a copy has failed (ReadsBackup).                  *)
(***************************************************************************)
EXTENDS IndexBackup, TLAPS

USE IndexBackupAssumption DEF IndexBackupAssumption

CopyUpTo(t) == [index : 0..MaxChanges, name : Names \cup {NoName}, mod : 0..t, state : States]

Types ==
  /\ index \in 0..MaxChanges
  /\ lastMod \in 0..clock
  /\ watch \in {"idle", "copying", "writing", "queueing"}
  /\ failed \in BOOLEAN
  /\ queue \in Seq(0..clock)
  /\ batch \in Seq(0..clock)
  /\ db \in CopyUpTo(clock)
  /\ backup \in CopyUpTo(clock)
  /\ restore \in CopyUpTo(clock)
  /\ reading \in CopyUpTo(clock)
  /\ up \in BOOLEAN
  /\ dbMod \in 0..clock
  /\ backupMod \in 0..clock
  /\ bucket \in [Names -> CopyUpTo(clock)]
  /\ clock \in Nat
  /\ changes \in 0..MaxChanges
  /\ losses \in 0..MaxLosses
  /\ up => db.state \in {"whole", "damaged"} /\ db.name \in Names

\* A daemon that does not run has nothing in memory.
DownForgets ==
  ~up => watch = "idle" /\ queue = <<>> /\ batch = <<>> /\ reading = NoFile

Increasing(s) == \A i, j \in 1..Len(s) : i < j => s[i] < s[j]
Below(s, t) == \A i \in 1..Len(s) : s[i] < t
UpTo(s, t) == \A i \in 1..Len(s) : s[i] <= t
Queued(t) == \E i \in 1..Len(queue) : queue[i] = t

QueueInOrder ==
  /\ Increasing(queue)
  /\ UpTo(queue, backupMod)
  /\ watch = "queueing" => Below(queue, backupMod)
  /\ batch = <<>> \/ batch = queue

ReadsBackup ==
  reading /= NoFile =>
    /\ Len(batch) = 1
    /\ batch[1] = backupMod => reading = backup
    /\ watch = "idle" /\ ~failed => batch[1] = backupMod

BackupAtHand ==
  /\ watch = "queueing" => backup = db
  /\ up /\ watch = "idle" /\ ~failed /\ ~BackupDue =>
       backup = db /\ (Current \/ Queued(backupMod))

IInv ==
  Types /\ StopForgetsNothing /\ DownForgets /\ QueueInOrder /\ ReadsBackup /\ BackupAtHand

-------------------------------------------------------------------------------
\* Copies.

LEMMA Later ==
  ASSUME NEW t \in Nat, NEW u \in Nat, t <= u
  PROVE  /\ 0..t \subseteq 0..u
         /\ CopyUpTo(t) \subseteq CopyUpTo(u)
         /\ Seq(0..t) \subseteq Seq(0..u)
         /\ [Names -> CopyUpTo(t)] \subseteq [Names -> CopyUpTo(u)]
<1>1. 0..t \subseteq 0..u
  OBVIOUS
<1>2. CopyUpTo(t) \subseteq CopyUpTo(u)
  BY <1>1 DEF CopyUpTo
<1>3. Seq(0..t) \subseteq Seq(0..u)
  BY <1>1
<1>4. [Names -> CopyUpTo(t)] \subseteq [Names -> CopyUpTo(u)]
  BY <1>2
<1> QED BY <1>1, <1>2, <1>3, <1>4

LEMMA CopyChanges ==
  ASSUME NEW t \in Nat, NEW c \in CopyUpTo(t)
  PROVE  /\ \A x \in 0..MaxChanges : [c EXCEPT !.index = x] \in CopyUpTo(t)
         /\ \A x \in Names : [c EXCEPT !.name = x] \in CopyUpTo(t)
         /\ \A x \in 0..t : [c EXCEPT !.mod = x] \in CopyUpTo(t) /\ [c EXCEPT !.mod = x].mod = x
         /\ \A x \in States : [c EXCEPT !.state = x] \in CopyUpTo(t) /\ [c EXCEPT !.state = x].state = x
         /\ c.mod \in 0..t
         /\ c.index \in 0..MaxChanges
         /\ c.state \in States
  BY DEF CopyUpTo

LEMMA TornCopiesAreCopies ==
  ASSUME NEW t \in Nat, NEW c \in CopyUpTo(t)
  PROVE  TornCopies(c) \subseteq CopyUpTo(t)
<1>1. {"torn", "broken"} \subseteq States
  BY DEF States
<1> QED BY <1>1, CopyChanges DEF TornCopies

LEMMA NoFileIsCopy ==
  ASSUME NEW t \in Nat
  PROVE  /\ NoFile \in CopyUpTo(t)
         /\ EmptyFile \in CopyUpTo(t)
         /\ NewDatabase \in CopyUpTo(t) /\ NewDatabase.state = "whole"
<1>1. NoFile = [index |-> 0, name |-> 0, mod |-> 0, state |-> "none"]
  BY DEF NoFile, Never, NoName
<1>2. NoFile \in CopyUpTo(t)
  <2>1. 0 \in 0..MaxChanges /\ 0 \in 0..t /\ 0 \in Names \cup {NoName} /\ "none" \in States
    BY DEF NoName, States
  <2> QED BY <1>1, <2>1 DEF CopyUpTo
<1>3. "empty" \in States /\ "whole" \in States
  BY DEF States
<1> QED BY <1>2, <1>3, CopyChanges DEF EmptyFile, NewDatabase

LEMMA TailKeepsOrder ==
  ASSUME NEW S \in SUBSET Nat, NEW s \in Seq(S), s /= <<>>, Increasing(s)
  PROVE  /\ Tail(s) \in Seq(S)
         /\ Increasing(Tail(s))
         /\ \A t \in Nat : UpTo(s, t) => UpTo(Tail(s), t)
         /\ \A t \in Nat : Below(s, t) => Below(Tail(s), t)
         /\ \A t \in Nat : s[1] /= t /\ (\E i \in 1..Len(s) : s[i] = t)
              => \E i \in 1..Len(Tail(s)) : Tail(s)[i] = t
<1>1. /\ Tail(s) \in Seq(S)
      /\ Len(Tail(s)) = Len(s) - 1
      /\ \A i \in 1..(Len(s) - 1) : Tail(s)[i] = s[i + 1]
      /\ Len(s) \in Nat \ {0}
  OBVIOUS
<1>2. Increasing(Tail(s))
  BY <1>1 DEF Increasing
<1>3. ASSUME NEW t \in Nat
      PROVE  /\ UpTo(s, t) => UpTo(Tail(s), t)
             /\ Below(s, t) => Below(Tail(s), t)
  BY <1>1 DEF UpTo, Below
<1>4. ASSUME NEW t \in Nat, s[1] /= t, NEW i \in 1..Len(s), s[i] = t
      PROVE  \E j \in 1..Len(Tail(s)) : Tail(s)[j] = t
  <2>1. i - 1 \in 1..(Len(s) - 1) /\ (i - 1) + 1 = i
    BY <1>1, <1>4
  <2>2. Tail(s)[i - 1] = t
    BY <1>1, <1>4, <2>1
  <2> QED BY <1>1, <2>1, <2>2
<1> QED BY <1>1, <1>2, <1>3, <1>4

LEMMA ElementOf ==
  ASSUME NEW S, NEW s \in Seq(S), NEW i \in 1..Len(s)
  PROVE  s[i] \in S
  OBVIOUS

LEMMA SomeItem ==
  ASSUME NEW S, NEW s \in Seq(S), s /= <<>>
  PROVE  /\ Tail(s) \in Seq(S)
         /\ Len(Tail(s)) = Len(s) - 1
         /\ Head(s) = s[1]
         /\ Len(s) \in Nat \ {0}
  OBVIOUS

LEMMA OneItem ==
  ASSUME NEW S, NEW s \in Seq(S), Len(s) = 1
  PROVE  s[1] \in S /\ Tail(s) = <<>>
<1>1. s /= <<>>
  OBVIOUS
<1>2. Tail(s) \in Seq(S) /\ Len(Tail(s)) = 0
  BY <1>1, SomeItem
<1>3. Tail(s) = <<>>
  BY <1>2, SomeItem
<1>4. 1 \in 1..Len(s)
  OBVIOUS
<1>5. s[1] \in S
  BY <1>4, ElementOf
<1> QED BY <1>3, <1>5

LEMMA AppendKeepsOrder ==
  ASSUME NEW S \in SUBSET Nat, NEW s \in Seq(S), NEW t \in S, Increasing(s), Below(s, t)
  PROVE  /\ Append(s, t) \in Seq(S)
         /\ Increasing(Append(s, t))
         /\ UpTo(Append(s, t), t)
         /\ \E i \in 1..Len(Append(s, t)) : Append(s, t)[i] = t
<1>1. /\ Append(s, t) \in Seq(S)
      /\ Len(Append(s, t)) = Len(s) + 1
      /\ Append(s, t)[Len(s) + 1] = t
      /\ \A i \in 1..Len(s) : Append(s, t)[i] = s[i] /\ s[i] \in S
      /\ Len(s) \in Nat /\ t \in Nat
  OBVIOUS
<1>2. Increasing(Append(s, t))
  BY <1>1 DEF Increasing, Below
<1>3. ASSUME NEW i \in 1..Len(Append(s, t))
      PROVE  Append(s, t)[i] <= t
  <2>1. CASE i \in 1..Len(s)
    <3>1. s[i] < t /\ Append(s, t)[i] = s[i] /\ s[i] \in Nat
      BY <1>1, <2>1 DEF Below
    <3> QED BY <1>1, <3>1
  <2>2. CASE i = Len(s) + 1
    BY <1>1, <2>2
  <2> QED BY <1>1, <2>1, <2>2
<1> QED BY <1>1, <1>2, <1>3 DEF UpTo

-------------------------------------------------------------------------------
\* Types.  What the clock has reached stays reached.

LEMMA TimePasses ==
  ASSUME Types, Tick \/ UNCHANGED clock
  PROVE  /\ clock' \in Nat /\ clock <= clock'
         /\ 0..clock \subseteq 0..clock'
         /\ CopyUpTo(clock) \subseteq CopyUpTo(clock')
         /\ Seq(0..clock) \subseteq Seq(0..clock')
         /\ [Names -> CopyUpTo(clock)] \subseteq [Names -> CopyUpTo(clock')]
<1>1. clock \in Nat /\ clock' \in Nat /\ clock <= clock'
  BY DEF Types, Tick
<1> QED BY <1>1, Later

LEMMA OpeningsAreCopies ==
  ASSUME Types, NEW d \in Openings(InPlace)
  PROVE  d \in CopyUpTo(clock) /\ d.state \in {"whole", "damaged"}
<1>1. InPlace \in CopyUpTo(clock) /\ clock \in Nat
  BY DEF InPlace, Types
<1> DEFINE c == InPlace
<1>2. c \in CopyUpTo(clock) /\ c.state \in States
  BY <1>1, CopyChanges
<1> HIDE DEF c
<1>3. CASE c.state \in {"none", "empty"}
  BY <1>1, <1>3, NoFileIsCopy DEF Openings, c
<1>4. CASE c.state \in {"whole", "damaged"}
  BY <1>2, <1>4 DEF Openings, c
<1>5. CASE c.state = "torn"
  <2> DEFINE lost == [c EXCEPT !.name = NoName, !.mod = Never]
  <2>1. lost \in CopyUpTo(clock)
    <3>1. 0 \in 0..clock /\ NoName \in Names \cup {NoName}
      BY <1>1
    <3> QED BY <1>2, <3>1 DEF CopyUpTo, Never
  <2> HIDE DEF lost
  <2>2. PICK r \in {c, lost}, i \in {0, c.index} : d = [r EXCEPT !.state = "damaged", !.index = i]
    BY <1>5 DEF Openings, c, lost
  <2>3. r \in CopyUpTo(clock)
    BY <1>2, <2>1
  <2>4. i \in 0..MaxChanges
    BY <1>1, <1>2, CopyChanges
  <2>5. "damaged" \in States
    BY DEF States
  <2> QED BY <2>2, <2>3, <2>4, <2>5 DEF CopyUpTo
<1>6. CASE c.state = "broken"
  BY <1>6 DEF Openings, c
<1> QED BY <1>2, <1>3, <1>4, <1>5, <1>6 DEF States

LEMMA TypesInit ==
  ASSUME BackupInit
  PROVE  Types
<1>1. clock \in Nat /\ 0 \in 0..clock
  BY DEF BackupInit
<1>2. NoFile \in CopyUpTo(clock)
  BY <1>1, NoFileIsCopy
<1>3. bucket \in [Names -> CopyUpTo(clock)]
  BY <1>2 DEF BackupInit
<1>4. queue \in Seq(0..clock) /\ batch \in Seq(0..clock)
  BY DEF BackupInit
<1>5. db \in CopyUpTo(clock) /\ backup \in CopyUpTo(clock) /\ restore \in CopyUpTo(clock) /\ reading \in CopyUpTo(clock)
  BY <1>2 DEF BackupInit
<1>6. lastMod \in 0..clock /\ dbMod \in 0..clock /\ backupMod \in 0..clock
  BY <1>1 DEF BackupInit, Never
<1>7. index \in 0..MaxChanges /\ changes \in 0..MaxChanges /\ losses \in 0..MaxLosses
  BY DEF BackupInit
<1>8. watch \in {"idle", "copying", "writing", "queueing"}
  BY DEF BackupInit
<1>9. up = FALSE /\ failed \in BOOLEAN
  BY DEF BackupInit
<1> QED BY <1>1, <1>3, <1>4, <1>5, <1>6, <1>7, <1>8, <1>9 DEF Types

\* The daemon starts with a database SQLite has opened, with a name in it.
LEMMA StartOpens ==
  ASSUME Types, Start
  PROVE  /\ db' \in CopyUpTo(clock) /\ db'.state \in {"whole", "damaged"} /\ db'.name \in Names
         /\ StartWith(db')
<1>1. losses + 1 \in Names
  BY DEF Types, Names
<1>2. PICK d \in Openings(InPlace) : StartWith(NameDerived(d))
  BY DEF Start
<1>3. d \in CopyUpTo(clock) /\ d.state \in {"whole", "damaged"}
  BY OpeningsAreCopies
<1>4. db' = NameDerived(d)
  BY <1>2 DEF StartWith
<1>5. /\ NameDerived(d) \in CopyUpTo(clock)
      /\ NameDerived(d).state \in {"whole", "damaged"}
      /\ NameDerived(d).name \in Names
  BY <1>1, <1>3 DEF NameDerived, CopyUpTo
<1> QED BY <1>2, <1>4, <1>5

LEMMA StartKeepsTypes ==
  ASSUME Types, Start
  PROVE  Types'
<1>1. /\ db' \in CopyUpTo(clock) /\ db'.state \in {"whole", "damaged"} /\ db'.name \in Names
      /\ StartWith(db')
  BY StartOpens
<1>2. Tick \/ UNCHANGED clock
  BY <1>1 DEF StartWith
<1>3. db'.index \in 0..MaxChanges /\ db'.mod \in 0..clock
  BY <1>1 DEF CopyUpTo
<1>4. dbMod' \in 0..clock'
  BY <1>1, <1>2, TimePasses DEF StartWith, Types, Tick
<1>5. NoFile \in CopyUpTo(clock')
  BY <1>2, TimePasses, NoFileIsCopy
<1> QED BY <1>1, <1>2, <1>3, <1>4, <1>5, TimePasses DEF StartWith, Types, remoteVars, bounds

LEMMA StartRefusedKeepsTypes ==
  ASSUME Types, StartRefused
  PROVE  Types'
<1>1. Tick /\ db' = restore /\ restore' = NoFile /\ dbMod' = clock'
  BY DEF StartRefused
<1>2. dbMod' \in 0..clock' /\ NoFile \in CopyUpTo(clock')
  BY <1>1, TimePasses, NoFileIsCopy
<1> QED BY <1>1, <1>2, TimePasses DEF StartRefused, Types, watchVars, remoteVars, bounds

LEMMA WatchStepKeepsTypes ==
  ASSUME Types, WatchStep
  PROVE  Types'
<1>1. CASE Flush
  <2>1. Tick
    BY <1>1 DEF Flush
  <2>2. db' \in CopyUpTo(clock) /\ db'.name = db.name /\ db'.state = db.state
    BY <1>1 DEF Flush, Types, CopyUpTo
  <2>3. dbMod' \in 0..clock'
    BY <1>1, <2>1, TimePasses DEF Flush
  <2> QED BY <1>1, <2>1, <2>2, <2>3, TimePasses DEF Flush, Types, watchVars, remoteVars, bounds
<1>2. CASE IndexBackup
  <2>1. Tick \/ UNCHANGED clock
    BY <1>2 DEF IndexBackup, RecordBackup
  <2>2. db' \in CopyUpTo(clock) /\ db'.name = db.name /\ db'.state = db.state
    BY <1>2 DEF IndexBackup, RecordBackup, Types, CopyUpTo
  <2>3. dbMod' \in 0..clock' /\ lastMod' \in 0..clock'
    BY <1>2, <2>1, TimePasses DEF IndexBackup, RecordBackup, Types
  <2> QED BY <1>2, <2>1, <2>2, <2>3, TimePasses DEF IndexBackup, Types, remoteVars
<1>3. CASE CopyBegins
  <2>1. Tick
    BY <1>3 DEF CopyBegins
  <2>2. backup' \in CopyUpTo(clock) /\ reading' \in CopyUpTo(clock)
    BY <1>3, TornCopiesAreCopies DEF CopyBegins, Types
  <2>3. backupMod' \in 0..clock'
    BY <1>3, <2>1, TimePasses DEF CopyBegins
  <2> QED BY <1>3, <2>1, <2>2, <2>3, TimePasses DEF CopyBegins, Types, bounds
<1>4. CASE CopyEnds
  <2>1. Tick
    BY <1>4 DEF CopyEnds
  <2>2. backupMod' \in 0..clock'
    BY <1>4, <2>1, TimePasses DEF CopyEnds
  <2> QED BY <1>4, <2>1, <2>2, TimePasses DEF CopyEnds, Types, bounds, remoteVars
<1>5. CASE CopyFails
  BY <1>5 DEF CopyFails, Types, fileVars, remoteVars
<1>6. CASE QueueBackup
  BY <1>6 DEF QueueBackup, Types, fileVars, bounds
<1> QED BY <1>1, <1>2, <1>3, <1>4, <1>5, <1>6 DEF WatchStep

LEMMA RemoteStepKeepsTypes ==
  ASSUME Types, RemoteStep, IInv
  PROVE  Types'
<1>1. batch /= <<>> => Tail(batch) \in Seq(0..clock)
  BY DEF Types
<1>2. queue /= <<>> => Tail(queue) \in Seq(0..clock)
  BY DEF Types
<1>3. batch /= <<>> => queue /= <<>>
  BY DEF IInv, QueueInOrder
<1>4. reading /= NoFile => batch /= <<>>
  BY DEF IInv, ReadsBackup
<1>5. NoFile \in CopyUpTo(clock)
  BY NoFileIsCopy DEF Types
<1>6. CASE UploadRemotes
  BY <1>6 DEF UploadRemotes, Types, watchVars, fileVars, bounds
<1>7. CASE UploadStale
  BY <1>1, <1>2, <1>3, <1>7 DEF UploadStale, Visiting, Types, watchVars, fileVars, bounds
<1>8. CASE UploadReads
  BY <1>8 DEF UploadReads, Types, watchVars, fileVars, bounds
<1>9. CASE UploadStores
  BY <1>1, <1>2, <1>3, <1>4, <1>5, <1>9 DEF UploadStores, Store, Types, watchVars, fileVars, bounds
<1>10. CASE UploadFails
  BY <1>1, <1>2, <1>3, <1>4, <1>5, <1>10 DEF UploadFails, Store, Types, watchVars, fileVars
<1> QED BY <1>6, <1>7, <1>8, <1>9, <1>10 DEF RemoteStep

LEMMA TypesStep ==
  ASSUME IInv, [BackupNext]_vars
  PROVE  Types'
<1> USE DEF IInv
<1>1. CASE Start
  BY <1>1, StartKeepsTypes
<1>2. CASE Change
  BY <1>2 DEF Change, Types, remoteVars, fileVars
<1>3. CASE WatchStep
  BY <1>3, WatchStepKeepsTypes
<1>4. CASE RemoteStep
  BY <1>4, RemoteStepKeepsTypes
<1>5. ASSUME NEW n \in Names, RestoreIndex(n)
      PROVE  Types'
  <2>1. restore' \in CopyUpTo(clock)
    BY <1>5, TornCopiesAreCopies, NoFileIsCopy DEF RestoreIndex, Types
  <2> QED BY <1>5, <2>1 DEF RestoreIndex, Types, watchVars, remoteVars
<1>6. CASE Stop
  <2>1. clock' = clock /\ reading' \in CopyUpTo(clock')
    BY <1>6, NoFileIsCopy DEF Stop, Types
  <2>2. queue' \in Seq(0..clock') /\ batch' \in Seq(0..clock')
    BY <1>6 DEF Stop
  <2>3. lastMod' \in 0..clock'
    BY <1>6, <2>1 DEF Stop, Types, Never
  <2>4. index' \in 0..MaxChanges /\ watch' \in {"idle", "copying", "writing", "queueing"}
    BY <1>6 DEF Stop
  <2>5. up' = FALSE /\ failed' \in BOOLEAN
    BY <1>6 DEF Stop
  <2>6. UNCHANGED <<db, dbMod, backup, backupMod, restore, bucket, changes, losses>>
    BY <1>6 DEF Stop, fileVars
  <2> QED BY <2>1, <2>2, <2>3, <2>4, <2>5, <2>6 DEF Types
<1>7. CASE LoseDatabase
  BY <1>7, NoFileIsCopy DEF LoseDatabase, Types, watchVars, remoteVars
<1>8. CASE RemoveRestore
  BY <1>8, NoFileIsCopy DEF RemoveRestore, Types, watchVars, remoteVars, bounds
<1>9. CASE StartRefused
  BY <1>9, StartRefusedKeepsTypes
<1>10. CASE UNCHANGED vars
  BY <1>10 DEF vars, Types, watchVars, remoteVars, fileVars, bounds
<1> QED BY <1>1, <1>2, <1>3, <1>4, <1>5, <1>6, <1>7, <1>8, <1>9, <1>10 DEF BackupNext

-------------------------------------------------------------------------------
\* Times.  What is written down in a database is older than the database.

LEMMA TimesStep ==
  ASSUME IInv, [BackupNext]_vars
  PROVE  StopForgetsNothing'
<1> USE DEF IInv
<1>1. CASE Start
  <2>1. db'.mod \in 0..clock /\ clock \in Nat /\ StartWith(db')
    BY <1>1, StartOpens DEF Types, CopyUpTo
  <2>2. CASE db' = db
    BY <2>1, <2>2 DEF StartWith, StopForgetsNothing
  <2>3. CASE db' /= db
    BY <2>1, <2>3 DEF StartWith, Tick, StopForgetsNothing
  <2> QED BY <2>2, <2>3
<1>2. CASE Flush
  <2>1. db.mod \in 0..clock /\ clock \in Nat /\ db'.mod = db.mod
    BY <1>2 DEF Flush, Types, CopyUpTo
  <2> QED BY <1>2, <2>1 DEF Flush, Tick, StopForgetsNothing
<1>3. CASE IndexBackup
  <2>1. CASE UNCHANGED <<db, dbMod>>
    BY <2>1 DEF StopForgetsNothing
  <2>2. CASE Tick /\ db' = [db EXCEPT !.mod = dbMod] /\ dbMod' = clock'
    <3>1. db'.mod = dbMod /\ dbMod \in 0..clock /\ clock \in Nat
      BY <2>2 DEF Types, CopyUpTo
    <3> QED BY <2>2, <3>1 DEF Tick, StopForgetsNothing
  <2> QED BY <1>3, <2>1, <2>2 DEF IndexBackup, RecordBackup
<1>4. CASE db' = NoFile \/ UNCHANGED <<db, dbMod>>
  BY <1>4 DEF StopForgetsNothing
<1>5. ASSUME NEW n \in Names, RestoreIndex(n)
      PROVE  UNCHANGED <<db, dbMod>>
  BY <1>5 DEF RestoreIndex
<1>6. CASE Change \/ CopyBegins \/ CopyEnds \/ CopyFails \/ QueueBackup
  BY <1>4, <1>6 DEF Change, CopyBegins, CopyEnds, CopyFails, QueueBackup, fileVars
<1>7. CASE RemoteStep
  BY <1>4, <1>7 DEF RemoteStep, UploadRemotes, UploadStale, UploadReads, UploadStores, UploadFails, fileVars
<1>8. CASE Stop \/ LoseDatabase \/ RemoveRestore \/ UNCHANGED vars
  BY <1>4, <1>8 DEF Stop, LoseDatabase, RemoveRestore, vars, fileVars
<1>9. CASE StartRefused
  <2>1. db'.mod \in 0..clock /\ clock \in Nat /\ dbMod' = clock + 1
    BY <1>9, CopyChanges DEF StartRefused, Tick, Types
  <2> QED BY <2>1 DEF StopForgetsNothing
<1> QED BY <1>1, <1>2, <1>3, <1>4, <1>5, <1>6, <1>7, <1>8, <1>9 DEF BackupNext, WatchStep

LEMMA DownStep ==
  ASSUME IInv, [BackupNext]_vars
  PROVE  DownForgets'
<1> USE DEF IInv
<1>1. CASE up'
  BY <1>1 DEF DownForgets
<1>2. CASE Stop
  BY <1>2 DEF Stop, DownForgets
<1>3. CASE ~up /\ UNCHANGED <<up, watch, queue, batch, reading>>
  BY <1>3 DEF DownForgets
<1>4. batch /= <<>> => up
  BY DEF DownForgets
<1>5. reading /= NoFile => up
  BY DEF DownForgets
<1>6. CASE WatchStep
  <2>1. up /\ up' = up
    BY <1>6 DEF DownForgets, WatchStep, Flush, IndexBackup, CopyBegins, CopyEnds, CopyFails, QueueBackup
  <2> QED BY <1>1, <2>1
<1>7. CASE RemoteStep
  <2>1. up /\ up' = up
    BY <1>4, <1>5, <1>7 DEF RemoteStep, UploadRemotes, UploadStale, UploadReads, UploadStores, UploadFails, Visiting
  <2> QED BY <1>1, <2>1
<1>8. CASE Start \/ Change
  BY <1>1, <1>8 DEF Start, StartWith, Change
<1>9. ASSUME NEW n \in Names, RestoreIndex(n)
      PROVE  up'
  BY <1>9 DEF RestoreIndex
<1>10. CASE StartRefused \/ LoseDatabase \/ RemoveRestore
  BY <1>3, <1>10 DEF StartRefused, LoseDatabase, RemoveRestore, watchVars, remoteVars
<1>11. CASE UNCHANGED vars
  BY <1>11 DEF vars, watchVars, remoteVars, DownForgets
<1> QED BY <1>1, <1>2, <1>6, <1>7, <1>8, <1>9, <1>10, <1>11 DEF BackupNext

-------------------------------------------------------------------------------
\* The queue and the pass over it.

\* What is visited is the first item of the queue, and leaves both.
LEMMA VisitFirst ==
  ASSUME IInv, batch /= <<>>
  PROVE  /\ batch = queue
         /\ Head(batch) = queue[1]
         /\ Len(queue) \in Nat \ {0}
         /\ Tail(queue) \in Seq(0..clock)
         /\ Increasing(Tail(queue))
         /\ UpTo(Tail(queue), backupMod)
         /\ Below(queue, backupMod) => Below(Tail(queue), backupMod)
         /\ queue[1] /= backupMod /\ Queued(backupMod)
              => \E i \in 1..Len(Tail(queue)) : Tail(queue)[i] = backupMod
<1>1. /\ batch = queue /\ queue /= <<>> /\ queue \in Seq(0..clock) /\ Increasing(queue)
      /\ UpTo(queue, backupMod) /\ backupMod \in Nat /\ 0..clock \in SUBSET Nat
  BY DEF IInv, QueueInOrder, Types
<1>2. Head(batch) = queue[1] /\ Len(queue) \in Nat \ {0}
  BY <1>1
<1>3. /\ Tail(queue) \in Seq(0..clock)
      /\ Increasing(Tail(queue))
      /\ UpTo(queue, backupMod) => UpTo(Tail(queue), backupMod)
      /\ Below(queue, backupMod) => Below(Tail(queue), backupMod)
      /\ queue[1] /= backupMod /\ (\E i \in 1..Len(queue) : queue[i] = backupMod)
           => \E i \in 1..Len(Tail(queue)) : Tail(queue)[i] = backupMod
  BY <1>1, TailKeepsOrder
<1> QED BY <1>1, <1>2, <1>3 DEF Queued

\* The current item is the last one.
LEMMA CurrentIsLast ==
  ASSUME IInv, batch /= <<>>, Head(batch) = backupMod
  PROVE  Len(batch) = 1
<1>1. /\ batch = queue /\ queue[1] = backupMod /\ Len(queue) \in Nat \ {0}
      /\ Increasing(queue) /\ UpTo(queue, backupMod)
      /\ backupMod \in Nat /\ queue \in Seq(0..clock)
  BY VisitFirst DEF IInv, QueueInOrder, Types
<1>2. ASSUME Len(queue) >= 2
      PROVE  FALSE
  <2>1. 1 \in 1..Len(queue) /\ 2 \in 1..Len(queue) /\ 1 < 2
    BY <1>1, <1>2
  <2>2. queue[1] < queue[2]
    BY <1>1, <2>1 DEF Increasing
  <2>3. queue[2] <= backupMod
    BY <1>1, <2>1 DEF UpTo
  <2>4. queue[2] \in 0..clock
    BY <1>1, <2>1, ElementOf
  <2>5. queue[2] \in Nat
    BY <2>4
  <2> QED BY <1>1, <2>2, <2>3, <2>5
<1>3. Len(queue) \in Nat \ {0}
  BY VisitFirst
<1>4. ~(Len(queue) >= 2)
  BY <1>2
<1>5. \A n \in Nat \ {0} : ~(n >= 2) => n = 1
  OBVIOUS
<1>6. Len(queue) = 1
  BY <1>3, <1>4, <1>5
<1> QED BY <1>1, <1>6

LEMMA QueueStep ==
  ASSUME IInv, [BackupNext]_vars
  PROVE  QueueInOrder'
<1> USE DEF IInv
<1>1. CASE UNCHANGED <<queue, batch, backupMod>> /\ watch' /= "queueing"
  BY <1>1 DEF QueueInOrder
<1>2. CASE UNCHANGED <<queue, batch, backupMod, watch>>
  BY <1>2 DEF QueueInOrder
<1>3. CASE CopyBegins \/ CopyEnds
  <2>1. backupMod' = clock + 1 /\ UNCHANGED <<queue, batch>>
    BY <1>3 DEF CopyBegins, CopyEnds, Tick, remoteVars
  <2>2. clock \in Nat /\ queue \in Seq(0..clock)
    BY DEF Types
  <2>3. UpTo(queue, clock + 1) /\ Below(queue, clock + 1)
    BY <2>2 DEF UpTo, Below
  <2> QED BY <2>1, <2>3 DEF QueueInOrder
<1>4. CASE QueueBackup
  <2>1. /\ queue' = Append(queue, backupMod) /\ batch' = <<>> /\ backupMod' = backupMod /\ watch' = "idle"
        /\ Below(queue, backupMod) /\ Increasing(queue)
    BY <1>4 DEF QueueBackup, RemoteFree, fileVars, QueueInOrder
  <2>2. queue \in Seq(0..clock) /\ backupMod \in 0..clock /\ 0..clock \in SUBSET Nat
    BY DEF Types
  <2>3. Increasing(queue') /\ UpTo(queue', backupMod)
    BY <2>1, <2>2, AppendKeepsOrder
  <2> QED BY <2>1, <2>3 DEF QueueInOrder
<1>5. CASE Start \/ Change \/ Flush
  BY <1>2, <1>5 DEF Start, StartWith, Change, Flush, remoteVars, watchVars, fileVars
<1>6. CASE IndexBackup \/ CopyFails
  BY <1>1, <1>6 DEF IndexBackup, CopyFails, remoteVars, fileVars
<1>7. CASE UploadRemotes
  BY <1>7 DEF UploadRemotes, watchVars, fileVars, QueueInOrder
<1>8. CASE UploadReads
  BY <1>2, <1>8 DEF UploadReads, watchVars, fileVars
<1>9. CASE UploadStale \/ UploadStores
  <2>1. batch /= <<>>
    BY <1>9 DEF UploadStale, UploadStores, Visiting, ReadsBackup
  <2>2. queue' = Tail(queue) /\ batch' = Tail(queue) /\ UNCHANGED <<backupMod, watch>>
    BY <1>9, <2>1, VisitFirst DEF UploadStale, UploadStores, watchVars, fileVars
  <2> QED BY <2>1, <2>2, VisitFirst DEF QueueInOrder
<1>10. CASE UploadFails
  <2>1. batch \in Seq(0..clock) /\ Len(batch) = 1
    BY <1>10 DEF UploadFails, ReadsBackup, Types
  <2>2. Tail(batch) = <<>>
    BY <2>1, OneItem
  <2> QED BY <1>10, <2>2 DEF UploadFails, watchVars, fileVars, QueueInOrder
<1>11. ASSUME NEW n \in Names, RestoreIndex(n)
       PROVE  UNCHANGED <<queue, batch, backupMod, watch>>
  BY <1>11 DEF RestoreIndex, watchVars, remoteVars
<1>12. CASE Stop
  <2>1. queue' = <<>> /\ batch' = <<>> /\ watch' = "idle"
    BY <1>12 DEF Stop
  <2> QED BY <2>1 DEF QueueInOrder, Increasing, UpTo
<1>13. CASE StartRefused \/ LoseDatabase \/ RemoveRestore \/ UNCHANGED vars
  BY <1>2, <1>13 DEF StartRefused, LoseDatabase, RemoveRestore, vars, watchVars, remoteVars, fileVars
<1> QED BY <1>2, <1>3, <1>4, <1>5, <1>6, <1>7, <1>8, <1>9, <1>10, <1>11, <1>12, <1>13
        DEF BackupNext, WatchStep, RemoteStep

LEMMA ReadsStep ==
  ASSUME IInv, [BackupNext]_vars
  PROVE  ReadsBackup'
<1> USE DEF IInv
<1>1. CASE UNCHANGED <<reading, batch, backup, backupMod, watch, failed>>
  BY <1>1 DEF ReadsBackup
<1>2. CASE reading' = NoFile
  BY <1>2 DEF ReadsBackup
<1>3. CASE Start \/ Change \/ Flush
  BY <1>1, <1>3 DEF Start, StartWith, Change, Flush, remoteVars, watchVars, fileVars
<1>4. CASE IndexBackup
  BY <1>4 DEF IndexBackup, remoteVars, ReadsBackup
<1>5. CASE CopyBegins \/ CopyEnds
  <2>1. backupMod' = clock + 1 /\ watch' \in {"writing", "queueing"} /\ batch' = batch
    BY <1>5 DEF CopyBegins, CopyEnds, Tick, remoteVars
  <2>2. reading' /= NoFile => reading /= NoFile
    BY <1>5 DEF CopyBegins, CopyEnds, remoteVars
  <2>3. reading /= NoFile => Len(batch) = 1 /\ batch[1] \in 0..clock
    BY OneItem DEF ReadsBackup, Types
  <2>4. clock \in Nat
    BY DEF Types
  <2> QED BY <2>1, <2>2, <2>3, <2>4 DEF ReadsBackup
<1>6. CASE CopyFails
  BY <1>6 DEF CopyFails, remoteVars, fileVars, ReadsBackup
<1>7. CASE QueueBackup \/ UploadRemotes
  <2>1. batch = <<>> /\ reading' = reading
    BY <1>7 DEF QueueBackup, UploadRemotes, RemoteFree
  <2>2. reading = NoFile
    BY <2>1 DEF ReadsBackup
  <2> QED BY <1>2, <2>1, <2>2
<1>8. CASE UploadStale
  BY <1>2, <1>8 DEF UploadStale, Visiting
<1>9. CASE UploadReads
  <2>1. Len(batch) = 1 /\ Head(batch) = backupMod
    BY <1>9, CurrentIsLast DEF UploadReads, Visiting
  <2>2. batch[1] = backupMod
    BY <2>1 DEF Types
  <2> QED BY <1>9, <2>1, <2>2 DEF UploadReads, watchVars, fileVars, ReadsBackup
<1>10. CASE UploadStores \/ UploadFails \/ Stop
  BY <1>2, <1>10 DEF UploadStores, UploadFails, Stop
<1>11. ASSUME NEW n \in Names, RestoreIndex(n)
       PROVE  UNCHANGED <<reading, batch, backup, backupMod, watch, failed>>
  BY <1>11 DEF RestoreIndex, watchVars, remoteVars
<1>12. CASE StartRefused \/ LoseDatabase \/ RemoveRestore \/ UNCHANGED vars
  BY <1>1, <1>12 DEF StartRefused, LoseDatabase, RemoveRestore, vars, watchVars, remoteVars, fileVars
<1> QED BY <1>1, <1>3, <1>4, <1>5, <1>6, <1>7, <1>8, <1>9, <1>10, <1>11, <1>12
        DEF BackupNext, WatchStep, RemoteStep

-------------------------------------------------------------------------------
\* What has to be backed up.

LEMMA AtHandStep ==
  ASSUME IInv, [BackupNext]_vars, Types', StopForgetsNothing'
  PROVE  BackupAtHand'
<1> USE DEF IInv
<1>1. CASE UNCHANGED <<watch, db, backup, up, failed, dbMod, lastMod, bucket, queue, backupMod>>
  BY <1>1 DEF BackupAtHand, BackupDue, Current, Queued
<1>2. CASE watch' /= "queueing" /\ (watch' /= "idle" \/ failed' \/ ~up' \/ BackupDue')
  BY <1>2 DEF BackupAtHand
<1>3. CASE Start
  <2>0. StartWith(db') /\ ~up
    BY <1>3, StartOpens DEF Start
  <2>1. watch' = "idle"
    BY <2>0 DEF StartWith, DownForgets
  <2>2. db' /= NoFile
    BY <1>3, StartOpens DEF NoFile
  <2>3. lastMod' = db'.mod /\ db'.mod < dbMod'
    BY <2>0, <2>2 DEF StartWith, StopForgetsNothing
  <2>4. db'.mod \in Nat /\ dbMod' \in Nat
    BY DEF Types, CopyUpTo
  <2>5. BackupDue'
    BY <2>3, <2>4 DEF BackupDue
  <2> QED BY <1>2, <2>1, <2>5
<1>4. CASE Change \/ UploadRemotes \/ UploadReads
  BY <1>1, <1>4 DEF Change, UploadRemotes, UploadReads, watchVars, remoteVars, fileVars
<1>5. CASE Flush
  <2>1. dbMod' = clock + 1 /\ lastMod' = lastMod /\ watch' = "idle"
    BY <1>5 DEF Flush, Tick, watchVars
  <2>2. lastMod \in 0..clock /\ clock \in Nat
    BY DEF Types
  <2>3. BackupDue'
    BY <2>1, <2>2 DEF BackupDue
  <2> QED BY <1>2, <2>1, <2>3
<1>6. CASE IndexBackup \/ CopyBegins
  BY <1>2, <1>6 DEF IndexBackup, CopyBegins
<1>7. CASE CopyEnds
  BY <1>7 DEF CopyEnds, BackupAtHand
<1>8. CASE CopyFails
  BY <1>2, <1>8 DEF CopyFails
<1>9. CASE QueueBackup
  <2>1. /\ queue' = Append(queue, backupMod) /\ watch' = "idle" /\ backup = db
        /\ UNCHANGED <<backup, db, backupMod>>
        /\ Below(queue, backupMod) /\ Increasing(queue)
    BY <1>9 DEF QueueBackup, fileVars, BackupAtHand, QueueInOrder
  <2>2. queue \in Seq(0..clock) /\ backupMod \in 0..clock /\ 0..clock \in SUBSET Nat
    BY DEF Types
  <2>3. Queued(backupMod)'
    BY <2>1, <2>2, AppendKeepsOrder DEF Queued
  <2> QED BY <2>1, <2>3 DEF BackupAtHand
<1>10. CASE UploadStale
  <2>1. /\ batch /= <<>> /\ Head(batch) /= backupMod /\ queue' = Tail(queue)
        /\ UNCHANGED <<watch, db, backup, up, failed, dbMod, lastMod, bucket, backupMod>>
    BY <1>10 DEF UploadStale, Visiting, watchVars, fileVars
  <2>2. Queued(backupMod) => Queued(backupMod)'
    BY <2>1, VisitFirst DEF Queued
  <2> QED BY <2>1, <2>2 DEF BackupAtHand, BackupDue, Current
<1>11. CASE UploadStores
  <2>1. /\ reading /= NoFile /\ bucket' = [bucket EXCEPT ![db.name] = reading]
        /\ UNCHANGED <<watch, db, backup, up, failed, dbMod, lastMod, backupMod>>
    BY <1>11 DEF UploadStores, Store, watchVars, fileVars
  <2>2. watch = "queueing" => backup = db
    BY DEF BackupAtHand
  <2>3. ASSUME up, watch = "idle", ~failed, ~BackupDue
        PROVE  backup = db /\ Current'
    <3>1. backup = db
      BY <2>3 DEF BackupAtHand
    <3>2. reading = backup
      BY <2>1, <2>3 DEF ReadsBackup
    <3>3. bucket'[db.name] = reading
      BY <2>1, <2>3 DEF Types
    <3> QED BY <2>1, <3>1, <3>2, <3>3 DEF Current
  <2> QED BY <2>1, <2>2, <2>3 DEF BackupAtHand, BackupDue
<1>12. CASE UploadFails
  <2>1. /\ reading /= NoFile
        /\ UNCHANGED <<watch, db, backup, up, failed, dbMod, lastMod, queue, backupMod>>
    BY <1>12 DEF UploadFails, watchVars, fileVars
  <2>2. watch = "queueing" => backup = db
    BY DEF BackupAtHand
  <2>3. ASSUME up, watch = "idle", ~failed, ~BackupDue
        PROVE  backup = db /\ Queued(backupMod)
    <3>1. backup = db
      BY <2>3 DEF BackupAtHand
    <3>2. Len(batch) = 1 /\ batch[1] = backupMod /\ batch = queue
      BY <2>1, <2>3 DEF ReadsBackup, QueueInOrder
    <3>3. 1 \in 1..Len(queue) /\ queue[1] = backupMod
      BY <3>2
    <3> QED BY <3>1, <3>3 DEF Queued
  <2> QED BY <2>1, <2>2, <2>3 DEF BackupAtHand, BackupDue, Queued
<1>13. ASSUME NEW n \in Names, RestoreIndex(n)
       PROVE  UNCHANGED <<watch, db, backup, up, failed, dbMod, lastMod, bucket, queue, backupMod>>
  BY <1>13 DEF RestoreIndex, watchVars, remoteVars
<1>14. CASE Stop
  BY <1>2, <1>14 DEF Stop
<1>15. CASE StartRefused \/ LoseDatabase
  BY <1>2, <1>15 DEF StartRefused, LoseDatabase, DownForgets, watchVars
<1>16. CASE RemoveRestore \/ UNCHANGED vars
  BY <1>1, <1>16 DEF RemoveRestore, vars, watchVars, remoteVars, fileVars
<1> QED BY <1>1, <1>3, <1>4, <1>5, <1>6, <1>7, <1>8, <1>9, <1>10, <1>11, <1>12, <1>13, <1>14, <1>15, <1>16
        DEF BackupNext, WatchStep, RemoteStep

-------------------------------------------------------------------------------
LEMMA InvInit ==
  ASSUME BackupInit
  PROVE  IInv
<1>1. Types
  BY TypesInit
<1>2. StopForgetsNothing
  BY DEF BackupInit, StopForgetsNothing
<1>3. QueueInOrder
  BY DEF BackupInit, QueueInOrder, Increasing, UpTo
<1>4. DownForgets /\ ReadsBackup /\ BackupAtHand
  BY DEF BackupInit, DownForgets, ReadsBackup, BackupAtHand
<1> QED BY <1>1, <1>2, <1>3, <1>4 DEF IInv

THEOREM InvHolds == BackupSpec => []IInv
<1>1. BackupInit => IInv
  BY InvInit
<1>2. IInv /\ [BackupNext]_vars => IInv'
  <2> SUFFICES ASSUME IInv, [BackupNext]_vars
               PROVE  IInv'
    OBVIOUS
  <2>1. Types' /\ StopForgetsNothing'
    BY TypesStep, TimesStep
  <2>2. DownForgets' /\ QueueInOrder' /\ ReadsBackup' /\ BackupAtHand'
    BY <2>1, DownStep, QueueStep, ReadsStep, AtHandStep
  <2> QED BY <2>1, <2>2 DEF IInv
<1> QED BY <1>1, <1>2, PTL DEF BackupSpec

\* The types of the database, its copies, the queue and the threads, for any
\* bounds; a daemon that runs has opened a database, whole or damaged, with a name
\* for its backup.
THEOREM TypeCorrect == BackupSpec => []BackupTypeOK
<1>1. IInv => BackupTypeOK
  BY DEF IInv, Types, BackupTypeOK, CopyUpTo, Copy
<1> QED BY <1>1, InvHolds, PTL

\* Whenever the daemon dies, the time it finds in its database, or in one it
\* has restored, is older than the database: the next start backs it up.
THEOREM StopsForgetNothing == BackupSpec => []StopForgetsNothing
<1>1. IInv => StopForgetsNothing
  BY DEF IInv
<1> QED BY <1>1, InvHolds, PTL

\* Unless a copy has just failed, a database that is not in the bucket as it is
\* is being copied, queued, or found changed by the next round.
THEOREM BackupsAreDue == BackupSpec => []BackupIsDue
<1>1. IInv => BackupIsDue
  BY DEF IInv, BackupAtHand, BackupIsDue, Queued
<1> QED BY <1>1, InvHolds, PTL

===============================================================================
