------------------------- MODULE DaemonTypeProofs -------------------------
(***************************************************************************)
(* Type correctness of Daemon, for any files, bounds and commands, and     *)
(* what its proof has in common with those of DaemonProofs.                *)
(*                                                                         *)
(* A step of the daemon is one of a few kinds as far as the index, the     *)
(* statements and the rows are concerned (IndexStep): nothing happens to   *)
(* them (Stays), the holder of Watch::mtx goes on (Moves), versions are    *)
(* marked (Marks), or it is one of the actions that add, delete, restore,  *)
(* execute or lose something.  IndexSteps says so once; the invariants are *)
(* then shown kind by kind.  What DELETE leaves of the rows is a recursive *)
(* function, so what holds of it is proved by the least counterexample.    *)
(***************************************************************************)
EXTENDS Daemon, TransferQueueProofs, WellFoundedInduction

USE DaemonAssumption, FileIndexAssumption

-------------------------------------------------------------------------------
\* Induction up to a number, by the least counterexample.

LEMMA LeastElement ==
  ASSUME NEW T, T \subseteq Nat, T /= {}
  PROVE  \E x \in T : \A y \in T : x <= y
<1>1. PICK x \in T : \A y \in T : ~(<<y, x>> \in OpToRel(<, Nat))
  BY WFMin, NatLessThanWellFounded, Zenon
<1>2. ASSUME NEW y \in T PROVE x <= y
  <2>1. ~(y < x)
    BY <1>1, Zenon DEF OpToRel
  <2> QED BY <2>1
<1> QED BY <1>2

LEMMA InductionUpTo ==
  ASSUME NEW n \in Nat, NEW True, 0 \in True,
         \A i \in 1..n : i - 1 \in True => i \in True
  PROVE  0..n \subseteq True
<1> DEFINE T == {i \in 0..n : i \notin True}
<1> SUFFICES ASSUME T /= {} PROVE FALSE
  OBVIOUS
<1>0. T \subseteq Nat
  OBVIOUS
<1>1. PICK x \in T : \A y \in T : x <= y
  <2> HIDE DEF T
  <2> QED BY <1>0, LeastElement
<1>2. x \in 1..n /\ x - 1 \in 0..n /\ ~(x <= x - 1)
  BY <1>1
<1>3. x - 1 \in True
  BY <1>1, <1>2
<1> QED BY <1>1, <1>2, <1>3

-------------------------------------------------------------------------------
\* What is left of the rows when a path is deleted.

Rest(r, path, n, f) ==
  f = [i \in 0..n |-> IF i = 0 THEN <<>>
                      ELSE IF r[i].path = path THEN f[i - 1] ELSE Append(f[i - 1], r[i])]

\* The recursion that RowsNotOf is defined by has a solution.
LEMMA RestExists ==
  ASSUME NEW r, NEW path, NEW n \in Nat
  PROVE  \E f : Rest(r, path, n, f)
<1> DEFINE True == {m \in 0..n : \E f : Rest(r, path, m, f)}
<1>1. 0 \in True
  <2>1. Rest(r, path, 0, [i \in 0..0 |-> <<>>])
    BY DEF Rest
  <2> QED BY <2>1
<1>2. ASSUME NEW m \in 1..n, m - 1 \in True PROVE m \in True
  <2>1. PICK f : Rest(r, path, m - 1, f)
    BY <1>2
  <2> DEFINE last == IF r[m].path = path THEN f[m - 1] ELSE Append(f[m - 1], r[m])
             g == [i \in 0..m |-> IF i = m THEN last ELSE f[i]]
  <2>2. \A i \in 0..m : i /= m => i \in 0..(m - 1) /\ (i /= 0 => i - 1 \in 0..(m - 1) /\ i - 1 /= m)
    OBVIOUS
  <2>3. m - 1 \in 0..m /\ m - 1 /= m /\ m /= 0 /\ m \in 0..m
    OBVIOUS
  <2>4. \A i \in 0..(m - 1) : f[i] = IF i = 0 THEN <<>>
                          ELSE IF r[i].path = path THEN f[i - 1] ELSE Append(f[i - 1], r[i])
    BY <2>1 DEF Rest
  <2>5. \A i \in 0..m : g[i] = IF i = 0 THEN <<>>
                          ELSE IF r[i].path = path THEN g[i - 1] ELSE Append(g[i - 1], r[i])
    <3> SUFFICES ASSUME NEW i \in 0..m
                 PROVE  g[i] = IF i = 0 THEN <<>>
                          ELSE IF r[i].path = path THEN g[i - 1] ELSE Append(g[i - 1], r[i])
      OBVIOUS
    <3>1. CASE i = m
      BY <2>3, <3>1
    <3>2. CASE i /= m
      <4>1. i \in 0..(m - 1) /\ g[i] = f[i]
        BY <2>2, <3>2
      <4>2. CASE i = 0
        BY <2>4, <4>1, <4>2
      <4>3. CASE i /= 0
        <5>1. g[i - 1] = f[i - 1]
          BY <2>2, <3>2, <4>3
        <5> HIDE DEF g
        <5> QED BY <2>4, <4>1, <4>3, <5>1
      <4> QED BY <4>2, <4>3
    <3> QED BY <3>1, <3>2
  <2>6. Rest(r, path, m, g)
    <3>1. g = [i \in 0..m |-> g[i]]
      OBVIOUS
    <3> HIDE DEF g
    <3> QED BY <2>5, <3>1 DEF Rest
  <2>7. m \in 0..n
    OBVIOUS
  <2> QED BY <2>6, <2>7
<1>3. 0..n \subseteq True
  <2> HIDE DEF True
  <2> QED BY <1>1, <1>2, InductionUpTo
<1> QED BY <1>3

\* They are rows there were, in one place each.
LEMMA RowsNotOfProps ==
  ASSUME NEW S, NEW r \in Seq(S), NEW path
  PROVE  /\ RowsNotOf(r, path) \in Seq(S)
         /\ \A k \in 1..Len(RowsNotOf(r, path)) : \E j \in 1..Len(r) : RowsNotOf(r, path)[k] = r[j]
         /\ (\A i, j \in 1..Len(r) : i /= j => r[i].name /= r[j].name) =>
              \A k, l \in 1..Len(RowsNotOf(r, path)) :
                k /= l => RowsNotOf(r, path)[k].name /= RowsNotOf(r, path)[l].name
<1> DEFINE n == Len(r)
           once == \A i, j \in 1..n : i /= j => r[i].name /= r[j].name
           f == CHOOSE g : Rest(r, path, n, g)
           P(i) == /\ f[i] \in Seq(S)
                   /\ \A k \in 1..Len(f[i]) : \E j \in 1..i : f[i][k] = r[j]
                   /\ once => \A k, l \in 1..Len(f[i]) : k /= l => f[i][k].name /= f[i][l].name
           True == {i \in 0..n : P(i)}
<1>1. n \in Nat
  OBVIOUS
<1>2. Rest(r, path, n, f)
  BY <1>1, RestExists
<1>3. RowsNotOf(r, path) = f[n]
  BY DEF RowsNotOf, Rest
<1> HIDE DEF f
<1>4. f[0] = <<>> /\ \A i \in 1..n : f[i] = IF r[i].path = path THEN f[i - 1] ELSE Append(f[i - 1], r[i])
  <2> HIDE DEF n
  <2>1. 0 \in 0..n /\ \A i \in 1..n : i \in 0..n /\ i /= 0
    BY <1>1
  <2>2. \A i \in 0..n : f[i] = IF i = 0 THEN <<>>
                      ELSE IF r[i].path = path THEN f[i - 1] ELSE Append(f[i - 1], r[i])
    BY <1>2 DEF Rest
  <2> QED BY <2>1, <2>2
<1>5. 0 \in True
  <2>1. 0 \in 0..n /\ <<>> \in Seq(S) /\ 1..Len(<<>>) = {}
    BY <1>1
  <2>2. P(0)
    BY <1>4, <2>1
  <2> QED BY <2>1, <2>2
<1>6. ASSUME NEW i \in 1..n, i - 1 \in True PROVE i \in True
  <2> DEFINE s == f[i - 1]
  <2>1. P(i - 1) /\ i \in 0..n /\ i \in 1..i /\ i \notin 1..(i - 1) /\ \A j \in 1..(i - 1) : j \in 1..i /\ j \in 1..n
    BY <1>1, <1>6
  <2>2. CASE f[i] = s
    BY <2>1, <2>2
  <2>3. CASE f[i] = Append(s, r[i])
    <3>1. r[i] \in S /\ s \in Seq(S)
      BY <2>1
    <3>2. /\ f[i] \in Seq(S) /\ Len(s) \in Nat
          /\ Len(f[i]) = Len(s) + 1
          /\ f[i][Len(s) + 1] = r[i]
          /\ \A k \in 1..Len(s) : f[i][k] = s[k]
          /\ \A k \in 1..Len(f[i]) : k \in 1..Len(s) \/ k = Len(s) + 1
      BY <2>3, <3>1
    <3> HIDE DEF s
    <3>3. ASSUME NEW k \in 1..Len(f[i]) PROVE \E j \in 1..i : f[i][k] = r[j]
      BY <2>1, <3>2 DEF s
    <3>4. ASSUME once, NEW k \in 1..Len(f[i]), NEW l \in 1..Len(f[i]), k /= l
          PROVE  f[i][k].name /= f[i][l].name
      <4>1. ASSUME NEW a \in 1..Len(s) PROVE s[a].name /= r[i].name
        <5>1. PICK j \in 1..(i - 1) : s[a] = r[j]
          BY <2>1 DEF s
        <5> QED BY <2>1, <3>4, <5>1
      <4>2. CASE k \in 1..Len(s) /\ l \in 1..Len(s)
        BY <2>1, <3>2, <3>4, <4>2 DEF s
      <4>3. CASE k = Len(s) + 1 \/ l = Len(s) + 1
        BY <3>2, <3>4, <4>1, <4>3
      <4> QED BY <3>2, <4>2, <4>3
    <3> QED BY <2>1, <3>2, <3>3, <3>4
  <2> QED BY <1>4, <2>2, <2>3
<1>7. 0..n \subseteq True
  <2> HIDE DEF True
  <2> QED BY <1>1, <1>5, <1>6, InductionUpTo
<1>8. n \in 0..n /\ n \in True
  <2> HIDE DEF True, n
  <2> QED BY <1>1, <1>7
<1>9. P(n)
  BY <1>8
<1> QED BY <1>3, <1>9

-------------------------------------------------------------------------------
\* Types.

SectionOK ==
  /\ section.at \in {"seen", "modtime", "hash"} => issued < MaxNames
  /\ section.at = "delete" => section.done <= Len(index[section.path])
  /\ section.at = "flush" => ~restoring /\ section.done <= section.size /\ section.size <= Len(sqlQueue)
  /\ ~restoring => restored = 0

SocketTypeOK ==
  /\ serving \in BOOLEAN
  /\ cleaning \subseteq Names
  /\ unresolved \in Names \cup {NoName}

Types == IInv /\ IndexTypeOK /\ SectionOK /\ SocketTypeOK

\* Which fields a section has.
LEMMA SectionFields ==
  ASSUME NEW s \in Section
  PROVE  /\ s.at \in {"free", "scan", "seen", "modtime", "hash", "enqueue", "delete", "flush"}
         /\ s.at = "free" => s = Free
         /\ s.at \in {"scan", "seen", "modtime", "hash", "enqueue"} => s.todo \in SUBSET Files
         /\ s.at \in {"seen", "modtime", "hash", "enqueue", "delete"} => s.path \in Files
         /\ s.at \in {"hash", "enqueue"} => s.mod \in Nat
         /\ s.at = "enqueue" => s.name \in Names
         /\ s.at \in {"delete", "flush"} => s.done \in Nat
         /\ s.at = "flush" => s.size \in Nat
  BY DEF Section, Free

\* What the sections the actions build are made of.
LEMMA MakeSection ==
  ASSUME NEW todo \in SUBSET Files, NEW p \in Files, NEW mod \in Nat, NEW name \in Names,
         NEW done \in Nat, NEW size \in Nat
  PROVE  /\ Free \in Section
         /\ Scanning(todo) \in Section
         /\ [at |-> "seen", todo |-> todo, path |-> p] \in Section
         /\ [at |-> "modtime", todo |-> todo, path |-> p] \in Section
         /\ [at |-> "hash", todo |-> todo, path |-> p, mod |-> mod] \in Section
         /\ [at |-> "enqueue", todo |-> todo, path |-> p, mod |-> mod, name |-> name] \in Section
         /\ [at |-> "delete", path |-> p, done |-> done] \in Section
         /\ [at |-> "flush", done |-> done, size |-> size] \in Section
<1>1. Free \in Section /\ Scanning(todo) \in Section
  BY DEF Section, Free, Scanning
<1>2. /\ [at |-> "seen", todo |-> todo, path |-> p] \in Section
      /\ [at |-> "modtime", todo |-> todo, path |-> p] \in Section
  BY DEF Section
<1>3. [at |-> "hash", todo |-> todo, path |-> p, mod |-> mod] \in Section
  BY DEF Section
<1>4. [at |-> "enqueue", todo |-> todo, path |-> p, mod |-> mod, name |-> name] \in Section
  BY DEF Section
<1>5. [at |-> "delete", path |-> p, done |-> done] \in Section
  BY DEF Section
<1>6. [at |-> "flush", done |-> done, size |-> size] \in Section
  BY DEF Section
<1> QED BY <1>1, <1>2, <1>3, <1>4, <1>5, <1>6

\* One version, or one statement, further.
LEMMA NextSection ==
  ASSUME section \in Section, section.at \in {"delete", "flush"},
         section' = [section EXCEPT !.done = @ + 1]
  PROVE  /\ section' \in Section
         /\ section'.at = section.at
         /\ section'.done = section.done + 1
         /\ section.at = "delete" => section'.path = section.path
         /\ section.at = "flush" => section'.size = section.size
<1>1. CASE section.at = "delete"
  <2>1. section \in [at : {"delete"}, path : Files, done : Nat]
    BY <1>1 DEF Section, Free
  <2>2. section' \in [at : {"delete"}, path : Files, done : Nat]
    BY <2>1
  <2> QED BY <1>1, <2>1, <2>2 DEF Section
<1>2. CASE section.at = "flush"
  <2>1. section \in [at : {"flush"}, done : Nat, size : Nat]
    BY <1>2 DEF Section, Free
  <2>2. section' \in [at : {"flush"}, done : Nat, size : Nat]
    BY <2>1
  <2> QED BY <1>2, <2>1, <2>2 DEF Section
<1> QED BY <1>1, <1>2

\* Queueing a statement.
LEMMA QueueSqlProps ==
  ASSUME sqlQueue \in Seq(Statement), NEW s \in Statement, QueueSql(s)
  PROVE  /\ sqlQueue' \in Seq(Statement)
         /\ Len(sqlQueue) \in Nat
         /\ Len(sqlQueue') = Len(sqlQueue) + 1
         /\ sqlQueue'[Len(sqlQueue) + 1] = s
         /\ \A i \in 1..Len(sqlQueue) : sqlQueue'[i] = sqlQueue[i]
         /\ \A i \in 1..Len(sqlQueue') : i \in 1..Len(sqlQueue) \/ i = Len(sqlQueue) + 1
  BY DEF QueueSql

\* The statements the actions queue are statements.
LEMMA Statements ==
  ASSUME NEW p \in Files, NEW mod \in Nat, NEW name \in Names, NEW hash \in Hash
  PROVE  /\ [do |-> "insert", path |-> p, mod |-> mod, name |-> name, hash |-> hash] \in Statement
         /\ [do |-> "gone", path |-> p] \in Statement
         /\ [do |-> "delete", path |-> p] \in Statement
         /\ [do |-> "uploaded", name |-> name] \in Statement
  BY DEF Statement

\* What is read from a file has its type.
LEMMA FileFacts ==
  ASSUME FsTypeOK, NEW p \in Files
  PROVE  FsLastMod(p) \in Nat /\ HashFile(p) \in Hash
  BY DEF FsTypeOK, FileState, FsLastMod, NoModTime, HashFile, Hash, EmptyHash

-------------------------------------------------------------------------------
\* Queues, bucket and file system.

\* The invariant of TransferQueueProofs holds here too: a step of the daemon
\* is one of TransferQueue's Next, or queues an item, or leaks the mutex.
LEMMA QueueSideKept ==
  ASSUME Types, DaemonNext
  PROVE  IInv'
<1> USE DEF Types
<1>0. QueueInv /\ FsTypeOK /\ BucketTypeOK /\ issued \in 0..MaxNames /\ crashes \in Nat
  BY IInvIsQueueInv DEF IInv, TypeOK
<1>1. ASSUME UNCHANGED <<fsVars, queueVars, bucketVars, issued, crashes>> PROVE IInv'
  BY <1>1, NextIInv DEF vars
<1>2. ASSUME RemotePass, UNCHANGED <<fsVars, issued>> PROVE IInv'
  BY <1>2, NextIInv DEF Next
<1>3. CASE DieAnyhow
  BY <1>3, NextIInv DEF DieAnyhow, Next
<1>4. CASE FilesChange
  BY <1>4, NextIInv DEF FilesChange, OtherPrograms, Next
<1>5. CASE Transfer
  BY <1>2, <1>5 DEF Transfer, RemotePass
<1>6. CASE Upload
  <2>1. Mapped(Head(batch).path) \in BOOLEAN
    BY DEF Mapped
  <2>2. UploadObject(Mapped(Head(batch).path)) /\ UNCHANGED <<fsVars, issued, crashes>>
    BY <1>6 DEF Upload
  <2>3. RemotePass
    BY <2>1, <2>2 DEF RemotePass
  <2> QED BY <1>2, <2>2, <2>3
<1>7. CASE DieOfMissingFile
  BY <1>2, <1>7 DEF DieOfMissingFile, RemotePass
<1>8. ASSUME NEW n \in Names, QueueForDelete(n), UNCHANGED <<fsVars, bucketVars, issued, crashes>>
      PROVE  IInv'
  <2>1. [name |-> n] \in Item("delete") /\ "delete" \in Kinds
    BY DEF Item, NameItem, Kinds
  <2>2. QueueInv'
    BY <1>0, <1>8, <2>1, EnqueueKeepsQueueInv DEF QueueForDelete
  <2> QED BY <1>0, <1>8, <2>2 DEF IInv, TypeOK, QueueInv, FsTypeOK, BucketTypeOK, fsVars, bucketVars
<1>9. CASE QueueStep
  <2>1. UNCHANGED <<fsVars, bucketVars, issued, crashes>>
    BY <1>9 DEF QueueStep, Elsewhere
  <2>2. CASE QueueVersion
    <3> DEFINE item == [path |-> section.path, name |-> section.name, mod |-> section.mod]
    <3>1. QueueForUpload(item) /\ section.at = "enqueue"
      BY <2>2 DEF QueueVersion
    <3>2. item \in Item("upload") /\ "upload" \in Kinds
      BY <3>1, SectionFields DEF Item, UploadItem, Kinds, IndexTypeOK
    <3> HIDE DEF item
    <3>3. CASE UNCHANGED queueVars
      BY <1>1, <2>1, <3>3
    <3>4. CASE Enqueue("upload", item)
      <4>1. QueueInv'
        BY <1>0, <3>1, <3>2, <3>4, EnqueueKeepsQueueInv DEF QueueForUpload
      <4> QED BY <1>0, <2>1, <4>1 DEF IInv, TypeOK, QueueInv, FsTypeOK, BucketTypeOK, fsVars, bucketVars
    <3> QED BY <3>1, <3>3, <3>4 DEF QueueForUpload, queueVars
  <2>3. CASE DelVersion
    <3> DEFINE n == index[section.path][section.done + 1].name
    <3>1. section.at = "delete" /\ section.done < Len(index[section.path]) /\ QueueForDelete(n)
      BY <2>3 DEF DelVersion
    <3>2. section.path \in Files /\ section.done \in Nat
      BY <3>1, SectionFields DEF IndexTypeOK
    <3>3. index[section.path] \in Seq(Version)
      BY <3>2 DEF IndexTypeOK
    <3>4. section.done + 1 \in 1..Len(index[section.path])
      BY <3>1, <3>2, <3>3
    <3>5. n \in Names
      <4>1. index[section.path][section.done + 1] \in Version
        BY <3>3, <3>4
      <4> QED BY <4>1 DEF Version
    <3> QED BY <1>8, <2>1, <3>1, <3>5
  <2> QED BY <1>9, <2>2, <2>3 DEF QueueStep
<1>10. CASE CleanQueue
  BY <1>8, <1>10 DEF CleanQueue, SocketTypeOK
<1>11. CASE NewVersion
  <2>1. section.at = "hash" /\ issued' = issued + 1 /\ UNCHANGED <<fsVars, queueVars, bucketVars, crashes>>
    BY <1>11 DEF NewVersion, AddFileVersion, Elsewhere
  <2>2. issued' \in 0..MaxNames
    <3>1. issued < MaxNames
      BY <2>1 DEF SectionOK
    <3> QED BY <1>0, <2>1, <3>1, TransferQueueAssumption
  <2> QED BY <1>0, <2>1, <2>2 DEF IInv, TypeOK, QueueInv, FsTypeOK, BucketTypeOK, QueueTypeOK,
             PassAccounting, UnvisitedStayQueued, fsVars, bucketVars, queueVars
<1>12. CASE CleanLeaks
  <2>1. /\ pass = "idle" /\ pass' = "leaked"
        /\ UNCHANGED <<fsVars, queue, batch, kept, checked, turn, stored, issued, crashes>>
        /\ faults' = faults \/ (faults < MaxFaults /\ faults' = faults + 1)
    BY <1>12 DEF CleanLeaks, RemoteFree
  <2>2. BucketTypeOK'
    <3>1. faults \in 0..MaxFaults /\ stored \in [Names -> Nat]
      BY <1>0 DEF BucketTypeOK
    <3>2. faults' \in 0..MaxFaults
      BY <2>1, <3>1, TransferQueueAssumption
    <3> QED BY <2>1, <3>1, <3>2 DEF BucketTypeOK
  <2>3. QueueInv'
    BY <1>0, <2>1 DEF QueueInv, QueueTypeOK, PassAccounting, UnvisitedStayQueued, Kinds, Item
  <2> QED BY <1>0, <2>1, <2>2, <2>3 DEF IInv, TypeOK, QueueInv, FsTypeOK, fsVars
<1>13. CASE Restore \/ Scan \/ Flush
  BY <1>1, <1>13 DEF Restore, Scan, Flush, ByItself, Elsewhere
<1>14. CASE SectionStep
  BY <1>1, <1>14 DEF SectionStep, Elsewhere
<1>15. CASE Command
  BY <1>1, <1>15 DEF Command, Elsewhere
<1>16. CASE CleanList \/ \E n \in Names : CleanResolve(n)
  BY <1>1, <1>16 DEF CleanList, CleanResolve, vars
<1> QED BY <1>3, <1>4, <1>5, <1>6, <1>7, <1>9, <1>10, <1>11, <1>12, <1>13, <1>14, <1>15, <1>16
        DEF DaemonNext, Clean

-------------------------------------------------------------------------------
(* Kinds of steps, as the index sees them.                                   *)

Stays == UNCHANGED <<indexVars, issued>>

\* The holder of Watch::mtx goes on, or somebody takes it.
Moves ==
  /\ UNCHANGED <<index, hashIndex, sqlQueue, rows, restoring, restored, issued>>
  /\ section.at \notin {"delete", "flush"}
  /\ section' \in Section
  /\ section'.at /= "enqueue"
  /\ section'.at \in {"seen", "modtime", "hash"} => issued < MaxNames
  /\ section'.at = "delete" => section'.done = 0
  /\ section'.at = "flush" => ~restoring /\ section'.done = 0 /\ section'.size = Len(sqlQueue)

\* Versions are marked; only that of name n may be marked as uploaded.
Marked(n) ==
  /\ index' \in [Files -> Seq(Version)]
  /\ \A p \in Files :
       /\ Len(index'[p]) = Len(index[p])
       /\ \A i \in 1..Len(index[p]) :
            /\ index'[p][i].name = index[p][i].name
            /\ index'[p][i].remote => index[p][i].remote \/ index[p][i].name = n

Marks(n) ==
  /\ Marked(n)
  /\ sqlQueue' = sqlQueue \/ \E s \in Statement : s.do \notin {"insert", "delete"} /\ QueueSql(s)
  /\ UNCHANGED <<hashIndex, rows, restoring, restored, issued>>
  /\ \/ UNCHANGED section
     \/ /\ section.at \notin {"delete", "flush"}
        /\ section' \in Section
        /\ section'.at \in {"free", "modtime"}
        /\ section'.at = "modtime" => issued < MaxNames

\* The types of the index, kind by kind.
LEMMA StaysTypes ==
  ASSUME Types, Stays
  PROVE  IndexTypeOK' /\ SectionOK'
  BY DEF Types, Stays, indexVars, watchVars, IndexTypeOK, SectionOK

LEMMA MovesTypes ==
  ASSUME Types, Moves
  PROVE  IndexTypeOK' /\ SectionOK'
<1> USE DEF Types, Moves
<1>1. IndexTypeOK'
  BY DEF IndexTypeOK
<1>2. section'.at = "delete" => section'.path \in Files /\ Len(index[section'.path]) \in Nat
  BY <1>1, SectionFields DEF IndexTypeOK
<1>3. Len(sqlQueue) \in Nat
  BY DEF IndexTypeOK
<1> QED BY <1>1, <1>2, <1>3 DEF SectionOK

LEMMA MarksTypes ==
  ASSUME Types, NEW n, Marks(n)
  PROVE  IndexTypeOK' /\ SectionOK'
<1> USE DEF Types, Marks
<1>1. section \in Section /\ sqlQueue \in Seq(Statement)
  BY DEF IndexTypeOK
<1>2. sqlQueue' \in Seq(Statement) /\ Len(sqlQueue) \in Nat /\ Len(sqlQueue') >= Len(sqlQueue)
  BY <1>1, QueueSqlProps
<1>3. IndexTypeOK'
  BY <1>2 DEF IndexTypeOK, Marked
<1>4. SectionOK'
  <2>1. CASE UNCHANGED section
    <3>1. section.at = "delete" => section.path \in Files /\ Len(index'[section.path]) = Len(index[section.path])
      BY <1>1, SectionFields DEF Marked
    <3>2. section.at = "flush" => section.size \in Nat
      BY <1>1, SectionFields
    <3> QED BY <1>2, <2>1, <3>1, <3>2 DEF SectionOK
  <2>2. CASE section'.at \in {"free", "modtime"} /\ (section'.at = "modtime" => issued < MaxNames)
    BY <2>2 DEF SectionOK
  <2> QED BY <2>1, <2>2
<1> QED BY <1>3, <1>4

\* A scan that finds a file gone or changed marks its latest version.
LEMMA MarkGoneProps ==
  ASSUME Types, NEW p \in Files, MarkGone(p)
  PROVE  Marked(NoName)
<1> DEFINE s == index[p]
           m == Len(s)
           t == [s EXCEPT ![m] = [s[m] EXCEPT !.local = FALSE]]
<1>1. index \in [Files -> Seq(Version)] /\ s \in Seq(Version) /\ m \in Nat
  BY DEF Types, IndexTypeOK
<1>2. index' = [index EXCEPT ![p] = t]
  BY DEF MarkGone
<1>3. /\ t \in Seq(Version) /\ Len(t) = m
      /\ \A i \in 1..m : t[i].name = s[i].name /\ t[i].remote = s[i].remote
  <2>1. CASE m = 0
    <3> DEFINE v == [s[m] EXCEPT !.local = FALSE]
    <3>1. t = [s EXCEPT ![0] = v] /\ s = <<>>
      BY <1>1, <2>1
    <3> HIDE DEF v, s
    <3>2. t = <<>>
      BY <3>1
    <3> QED BY <1>1, <2>1, <3>1, <3>2
  <2>2. CASE m \in 1..m
    <3>1. s[m] \in Version
      BY <1>1, <2>2
    <3>2. [s[m] EXCEPT !.local = FALSE] \in Version
      BY <3>1 DEF Version
    <3>3. [s[m] EXCEPT !.local = FALSE].name = s[m].name /\ [s[m] EXCEPT !.local = FALSE].remote = s[m].remote
      BY <3>1 DEF Version
    <3> DEFINE v == [s[m] EXCEPT !.local = FALSE]
    <3> HIDE DEF v, s
    <3>4. t = [s EXCEPT ![m] = v]
      BY DEF v
    <3> HIDE DEF t
    <3>5. t \in Seq(Version) /\ Len(t) = m /\ \A i \in 1..m : t[i] = IF i = m THEN v ELSE s[i]
      BY <1>1, <2>2, <3>2, <3>4 DEF v
    <3> QED BY <3>3, <3>5 DEF v
  <2> QED BY <1>1, <2>1, <2>2
<1> HIDE DEF t
<1> QED BY <1>1, <1>2, <1>3 DEF Marked

\* uploadSuccess marks the versions of one name.
LEMMA UploadSuccessProps ==
  ASSUME Types, NEW p \in Files, NEW n \in Names, UploadSuccess(p, n), UNCHANGED issued
  PROVE  Marks(n)
<1> DEFINE s == index[p]
           t == [i \in DOMAIN s |-> IF s[i].name = n THEN [s[i] EXCEPT !.remote = TRUE] ELSE s[i]]
<1>1. index \in [Files -> Seq(Version)] /\ s \in Seq(Version) /\ Len(s) \in Nat /\ DOMAIN s = 1..Len(s)
  BY DEF Types, IndexTypeOK
<1>2. CASE Mapped(p)
  <2>1. index' = [index EXCEPT ![p] = t] /\ QueueSql([do |-> "uploaded", name |-> n])
        /\ UNCHANGED <<hashIndex, rows, restoring, restored, section>>
    BY <1>2 DEF UploadSuccess
  <2>2. \A i \in 1..Len(s) : /\ s[i] \in Version
                             /\ [s[i] EXCEPT !.remote = TRUE] \in Version
                             /\ [s[i] EXCEPT !.remote = TRUE].name = s[i].name
    <3> SUFFICES ASSUME NEW i \in 1..Len(s)
                 PROVE  /\ s[i] \in Version
                        /\ [s[i] EXCEPT !.remote = TRUE] \in Version
                        /\ [s[i] EXCEPT !.remote = TRUE].name = s[i].name
      OBVIOUS
    <3>1. s[i] \in Version
      BY <1>1
    <3> HIDE DEF s
    <3> QED BY <3>1 DEF Version
  <2>3. /\ t \in Seq(Version) /\ Len(t) = Len(s)
        /\ \A i \in 1..Len(s) : t[i].name = s[i].name /\ (t[i].remote => s[i].remote \/ s[i].name = n)
    <3> HIDE DEF s
    <3>1. /\ \A i \in 1..Len(s) : t[i] \in Version
          /\ \A i \in 1..Len(s) : t[i].name = s[i].name /\ (t[i].remote => s[i].remote \/ s[i].name = n)
      BY <1>1, <2>2
    <3>2. t = [i \in 1..Len(s) |-> t[i]]
      BY <1>1
    <3> HIDE DEF t
    <3> QED BY <1>1, <3>1, <3>2
  <2>4. Marked(n)
    <3> HIDE DEF t
    <3> QED BY <1>1, <2>1, <2>3 DEF Marked
  <2>5. [do |-> "uploaded", name |-> n] \in Statement /\ [do |-> "uploaded", name |-> n].do \notin {"insert", "delete"}
    BY DEF Statement
  <2> QED BY <2>1, <2>4, <2>5 DEF Marks
<1>3. CASE ~Mapped(p)
  <2>1. UNCHANGED <<index, sqlQueue, hashIndex, rows, restoring, restored, section>>
    BY <1>3 DEF UploadSuccess
  <2>2. Marked(n)
    BY <1>1, <2>1 DEF Marked
  <2> QED BY <2>1, <2>2 DEF Marks
<1> QED BY <1>2, <1>3

\* Adding a version at the end.
LEMMA AppendVersion ==
  ASSUME index \in [Files -> Seq(Version)], NEW p \in Files, NEW v \in Version,
         index' = [index EXCEPT ![p] = Append(@, v)]
  PROVE  /\ index' \in [Files -> Seq(Version)]
         /\ \A q \in Files : q /= p => index'[q] = index[q]
         /\ Len(index[p]) \in Nat
         /\ Len(index'[p]) = Len(index[p]) + 1
         /\ index'[p][Len(index[p]) + 1] = v
         /\ \A i \in 1..Len(index[p]) : index'[p][i] = index[p][i] /\ i \in 1..Len(index'[p])
         /\ \A i \in 1..Len(index'[p]) : i \in 1..Len(index[p]) \/ i = Len(index[p]) + 1
<1> DEFINE s == index[p]
           t == Append(s, v)
<1>1. s \in Seq(Version)
  OBVIOUS
<1>2. /\ t \in Seq(Version) /\ Len(s) \in Nat
      /\ Len(t) = Len(s) + 1
      /\ t[Len(s) + 1] = v
      /\ \A i \in 1..Len(s) : t[i] = s[i] /\ i \in 1..Len(t)
      /\ \A i \in 1..Len(t) : i \in 1..Len(s) \/ i = Len(s) + 1
  BY <1>1
<1>3. index' = [index EXCEPT ![p] = t]
  OBVIOUS
<1> HIDE DEF t
<1> QED BY <1>2, <1>3

\* The row restoreFileIdx reads next, and what becomes of it.
LEMMA RestoreRowProps ==
  ASSUME Types, RestoreRow
  PROVE  /\ restored + 1 \in 1..Len(rows) /\ rows[restored + 1] \in Row
         /\ restored' = restored + 1
         /\ section = Free /\ restoring
         /\ UNCHANGED <<sqlQueue, rows, restoring, section>>
         /\ hashIndex' = [hashIndex EXCEPT ![rows[restored + 1].name] = rows[restored + 1].path]
         /\ \E v \in Version : /\ v.name = rows[restored + 1].name
                               /\ v.remote => rows[restored + 1].remote
                               /\ index' = [index EXCEPT ![rows[restored + 1].path] = Append(@, v)]
<1> DEFINE r == rows[restored + 1]
           v == IF r.path \in Tracked THEN BareVersion(r) ELSE RowVersion(r)
<1>1. /\ restored < Len(rows) /\ restored \in 0..Len(rows) /\ rows \in Seq(Row) /\ Len(rows) \in Nat
      /\ restored' = restored + 1 /\ section = Free /\ restoring
      /\ UNCHANGED <<sqlQueue, rows, restoring, section>>
      /\ index' = [index EXCEPT ![r.path] = Append(@, v)]
      /\ hashIndex' = [hashIndex EXCEPT ![r.name] = r.path]
  BY DEF RestoreRow, WatchFree, Types, IndexTypeOK
<1>2. restored + 1 \in 1..Len(rows)
  BY <1>1
<1>3. r \in Row
  BY <1>1, <1>2
<1>4. v \in Version /\ v.name = r.name /\ (v.remote => r.remote)
  <2> HIDE DEF r
  <2> QED BY <1>3 DEF Row, Version, BareVersion, RowVersion, NoHash, Hash
<1> HIDE DEF r, v
<1> QED BY <1>1, <1>2, <1>3, <1>4 DEF r

LEMMA RestoreRowTypes ==
  ASSUME Types, RestoreRow, UNCHANGED issued
  PROVE  IndexTypeOK' /\ SectionOK'
<1> DEFINE r == rows[restored + 1]
<1>1. /\ restored + 1 \in 1..Len(rows) /\ r \in Row /\ restored' = restored + 1
      /\ section = Free /\ restoring /\ UNCHANGED <<sqlQueue, rows, restoring, section>>
      /\ hashIndex' = [hashIndex EXCEPT ![r.name] = r.path]
  BY RestoreRowProps
<1>2. PICK v \in Version : index' = [index EXCEPT ![r.path] = Append(@, v)]
  BY RestoreRowProps
<1>3. r.path \in Files /\ r.name \in Names
  BY <1>1 DEF Row
<1> HIDE DEF r
<1>4. index' \in [Files -> Seq(Version)]
  BY <1>2, <1>3, AppendVersion DEF Types, IndexTypeOK
<1>5. restored' \in 0..Len(rows')
  BY <1>1 DEF Types, IndexTypeOK
<1>6. IndexTypeOK'
  BY <1>1, <1>3, <1>4, <1>5 DEF Types, IndexTypeOK
<1> QED BY <1>1, <1>6 DEF SectionOK, Free

LEMMA RestoreDoneTypes ==
  ASSUME Types, RestoreDone, UNCHANGED issued
  PROVE  IndexTypeOK' /\ SectionOK'
<1>1. /\ UNCHANGED <<index, hashIndex, sqlQueue, rows, section>>
      /\ restoring /\ restoring' = FALSE /\ restored' = 0
  BY DEF RestoreDone
<1>2. 0 \in 0..Len(rows)
  BY DEF Types, IndexTypeOK
<1> QED BY <1>1, <1>2 DEF Types, IndexTypeOK, SectionOK

\* What addFileVersion adds to the index, the reverse index and the statements.
LEMMA AddFileVersionProps ==
  ASSUME Types, AddFileVersion
  PROVE  /\ section.at = "hash" /\ section.path \in Files
         /\ issued \in Nat /\ issued' = issued + 1 /\ issued' \in Names
         /\ UNCHANGED <<rows, restoring, restored>>
         /\ hashIndex' = [hashIndex EXCEPT ![issued'] = section.path]
         /\ section' \in Section /\ section'.at = "enqueue" /\ section'.name = issued'
         /\ \E v \in Version : /\ v.name = issued' /\ ~v.remote
                               /\ index' = [index EXCEPT ![section.path] = Append(@, v)]
         /\ \E s \in Statement : s.do = "insert" /\ s.path = section.path /\ s.name = issued' /\ QueueSql(s)
<1> DEFINE p == section.path
           v == [mod |-> section.mod, name |-> issued', hash |-> HashFile(p),
                 local |-> TRUE, remote |-> FALSE]
           s == [do |-> "insert", path |-> p, mod |-> v.mod, name |-> v.name, hash |-> v.hash]
           next == [at |-> "enqueue", todo |-> section.todo, path |-> p, mod |-> v.mod, name |-> v.name]
<1>1. /\ section.at = "hash" /\ section \in Section /\ issued < MaxNames /\ issued \in 0..MaxNames
      /\ issued' = issued + 1 /\ UNCHANGED <<rows, restoring, restored>>
      /\ index' = [index EXCEPT ![p] = Append(@, v)]
      /\ hashIndex' = [hashIndex EXCEPT ![v.name] = p]
      /\ QueueSql(s) /\ section' = next /\ FsTypeOK
  BY DEF AddFileVersion, Types, SectionOK, IndexTypeOK, IInv, TypeOK
<1>2. p \in Files /\ section.todo \in SUBSET Files /\ section.mod \in Nat
  BY <1>1, SectionFields
<1>3. issued \in Nat /\ issued' \in Names
  BY <1>1, TransferQueueAssumption DEF Names
<1>4. HashFile(p) \in Hash
  BY <1>1, <1>2, FileFacts
<1>5. v \in Version /\ v.name = issued' /\ v.mod = section.mod /\ v.hash = HashFile(p) /\ v.remote = FALSE
  BY <1>2, <1>3, <1>4 DEF Version
<1> HIDE DEF v
<1>6. s \in Statement /\ s.do = "insert" /\ s.path = p /\ s.name = issued'
  BY <1>2, <1>3, <1>4, <1>5 DEF Statement
<1>7. next \in Section /\ next.at = "enqueue" /\ next.name = issued'
  BY <1>2, <1>3, <1>5, MakeSection
<1> HIDE DEF s, next
<1> QED BY <1>1, <1>2, <1>3, <1>5, <1>6, <1>7

LEMMA AddFileVersionTypes ==
  ASSUME Types, AddFileVersion
  PROVE  IndexTypeOK' /\ SectionOK'
<1>1. /\ section.path \in Files /\ issued' \in Names
      /\ UNCHANGED <<rows, restoring, restored>>
      /\ hashIndex' = [hashIndex EXCEPT ![issued'] = section.path]
      /\ section' \in Section /\ section'.at = "enqueue"
  BY AddFileVersionProps
<1>2. PICK v \in Version : index' = [index EXCEPT ![section.path] = Append(@, v)]
  BY AddFileVersionProps
<1>3. PICK s \in Statement : QueueSql(s)
  BY AddFileVersionProps
<1>4. index' \in [Files -> Seq(Version)]
  BY <1>1, <1>2, AppendVersion DEF Types, IndexTypeOK
<1>5. sqlQueue' \in Seq(Statement)
  BY <1>3, QueueSqlProps DEF Types, IndexTypeOK
<1>6. IndexTypeOK'
  BY <1>1, <1>4, <1>5 DEF Types, IndexTypeOK
<1> QED BY <1>1, <1>6 DEF Types, SectionOK

\* The version delFileWatch is at.
LEMMA DelVersionProps ==
  ASSUME Types, DelVersion
  PROVE  /\ section.at = "delete" /\ section.path \in Files /\ section.done \in Nat
         /\ section.done + 1 \in 1..Len(index[section.path])
         /\ index[section.path][section.done + 1] \in Version
         /\ QueueForDelete(index[section.path][section.done + 1].name)
         /\ hashIndex' = [hashIndex EXCEPT ![index[section.path][section.done + 1].name] = NoPath]
         /\ section' \in Section /\ section'.at = "delete" /\ section'.path = section.path
         /\ section'.done = section.done + 1
         /\ UNCHANGED <<index, sqlQueue, rows, restoring, restored>>
<1>1. /\ section.at = "delete" /\ section \in Section /\ section.done < Len(index[section.path])
      /\ section' = [section EXCEPT !.done = @ + 1]
  BY DEF DelVersion, Types, IndexTypeOK
<1>2. section.path \in Files /\ section.done \in Nat
  BY <1>1, SectionFields
<1>3. index[section.path] \in Seq(Version)
  BY <1>2 DEF Types, IndexTypeOK
<1>4. section.done + 1 \in 1..Len(index[section.path])
  BY <1>1, <1>2, <1>3
<1>5. index[section.path][section.done + 1] \in Version
  BY <1>3, <1>4
<1>6. section' \in Section /\ section'.at = "delete" /\ section'.path = section.path
      /\ section'.done = section.done + 1
  BY <1>1, NextSection
<1> QED BY <1>1, <1>2, <1>4, <1>5, <1>6 DEF DelVersion

LEMMA DelVersionTypes ==
  ASSUME Types, DelVersion, UNCHANGED issued
  PROVE  IndexTypeOK' /\ SectionOK'
<1> DEFINE n == index[section.path][section.done + 1].name
<1>1. /\ section.at = "delete" /\ section.path \in Files /\ section.done \in Nat
      /\ section.done + 1 \in 1..Len(index[section.path])
      /\ index[section.path][section.done + 1] \in Version
      /\ hashIndex' = [hashIndex EXCEPT ![n] = NoPath]
      /\ section' \in Section /\ section'.at = "delete" /\ section'.path = section.path
      /\ section'.done = section.done + 1
      /\ UNCHANGED <<index, sqlQueue, rows, restoring, restored>>
  BY DelVersionProps
<1>2. n \in Names
  BY <1>1 DEF Version
<1> HIDE DEF n
<1>3. IndexTypeOK'
  BY <1>1, <1>2 DEF Types, IndexTypeOK
<1>4. section'.done <= Len(index'[section'.path])
  BY <1>1
<1> QED BY <1>1, <1>3, <1>4 DEF Types, SectionOK

LEMMA DelFinishTypes ==
  ASSUME Types, DelFinish, UNCHANGED issued
  PROVE  IndexTypeOK' /\ SectionOK'
<1>1. /\ section.at = "delete" /\ section \in Section
      /\ index' = [index EXCEPT ![section.path] = <<>>]
      /\ QueueSql([do |-> "delete", path |-> section.path])
      /\ section' = Free /\ UNCHANGED <<hashIndex, rows, restoring, restored>>
  BY DEF DelFinish, Types, IndexTypeOK
<1>2. section.path \in Files
  BY <1>1, SectionFields
<1>3. [do |-> "delete", path |-> section.path] \in Statement
  BY <1>2 DEF Statement
<1>4. sqlQueue' \in Seq(Statement)
  BY <1>1, <1>3, QueueSqlProps DEF Types, IndexTypeOK
<1>5. index' \in [Files -> Seq(Version)]
  <2>1. <<>> \in Seq(Version)
    OBVIOUS
  <2> QED BY <1>1, <2>1 DEF Types, IndexTypeOK
<1>6. Free \in Section
  BY DEF Section, Free
<1>7. IndexTypeOK'
  BY <1>1, <1>4, <1>5, <1>6 DEF Types, IndexTypeOK
<1> QED BY <1>1, <1>7 DEF Types, SectionOK, Free

\* What a statement makes of the rows.
LEMMA ExecuteProps ==
  ASSUME NEW r \in Seq(Row), NEW s \in Statement
  PROVE  /\ Execute(r, s) \in Seq(Row)
         /\ s.do = "insert" =>
              /\ s.name \in Names
              /\ \E e \in Row : e.path = s.path /\ e.name = s.name /\ Execute(r, s) = Append(r, e)
         /\ s.do \in {"gone", "uploaded"} =>
              /\ Len(Execute(r, s)) = Len(r)
              /\ \A k \in 1..Len(r) : Execute(r, s)[k].path = r[k].path /\ Execute(r, s)[k].name = r[k].name
         /\ s.do /= "insert" =>
              /\ \A k \in 1..Len(Execute(r, s)) :
                   \E j \in 1..Len(r) : Execute(r, s)[k].name = r[j].name
              /\ (\A i, j \in 1..Len(r) : i /= j => r[i].name /= r[j].name) =>
                   \A k, l \in 1..Len(Execute(r, s)) :
                     k /= l => Execute(r, s)[k].name /= Execute(r, s)[l].name
<1>1. CASE s.do = "insert"
  <2> DEFINE e == [path |-> s.path, mod |-> s.mod, name |-> s.name, hash |-> s.hash,
                   local |-> TRUE, remote |-> FALSE]
  <2>1. Execute(r, s) = Append(r, e)
    BY <1>1 DEF Execute
  <2>2. s \in [do : {"insert"}, path : Files, mod : Nat, name : Names, hash : Hash]
    BY <1>1 DEF Statement
  <2>3. e \in Row /\ e.path = s.path /\ e.name = s.name /\ s.name \in Names
    BY <2>2 DEF Row
  <2> HIDE DEF e
  <2>4. Append(r, e) \in Seq(Row)
    BY <2>3
  <2> QED BY <1>1, <2>1, <2>3, <2>4
<1>2. ASSUME s.do \in {"gone", "uploaded"}
      PROVE  /\ Execute(r, s) \in Seq(Row) /\ Len(Execute(r, s)) = Len(r)
             /\ \A k \in 1..Len(r) : Execute(r, s)[k].path = r[k].path /\ Execute(r, s)[k].name = r[k].name
  <2> DEFINE hit(i) == IF s.do = "gone" THEN r[i].path = s.path ELSE r[i].name = s.name
             new(i) == IF s.do = "gone" THEN [r[i] EXCEPT !.local = FALSE] ELSE [r[i] EXCEPT !.remote = TRUE]
             t == [i \in 1..Len(r) |-> IF hit(i) THEN new(i) ELSE r[i]]
  <2>1. DOMAIN r = 1..Len(r) /\ Len(r) \in Nat
    OBVIOUS
  <2>2. Execute(r, s) = t
    <3>1. CASE s.do = "gone"
      BY <2>1, <3>1 DEF Execute
    <3>2. CASE s.do = "uploaded"
      BY <2>1, <3>2 DEF Execute
    <3> QED BY <1>2, <3>1, <3>2
  <2>3. ASSUME NEW i \in 1..Len(r)
        PROVE  t[i] \in Row /\ t[i].path = r[i].path /\ t[i].name = r[i].name
    <3>1. r[i] \in Row
      OBVIOUS
    <3>2. /\ [r[i] EXCEPT !.local = FALSE] \in Row
          /\ [r[i] EXCEPT !.local = FALSE].path = r[i].path /\ [r[i] EXCEPT !.local = FALSE].name = r[i].name
      BY <3>1 DEF Row
    <3>3. /\ [r[i] EXCEPT !.remote = TRUE] \in Row
          /\ [r[i] EXCEPT !.remote = TRUE].path = r[i].path /\ [r[i] EXCEPT !.remote = TRUE].name = r[i].name
      BY <3>1 DEF Row
    <3>4. new(i) \in Row /\ new(i).path = r[i].path /\ new(i).name = r[i].name
      BY <3>2, <3>3
    <3> HIDE DEF new, hit
    <3> QED BY <3>1, <3>4
  <2>4. t = [i \in 1..Len(r) |-> t[i]]
    OBVIOUS
  <2> HIDE DEF t
  <2> QED BY <2>1, <2>2, <2>3, <2>4
<1>3. CASE s.do \in {"gone", "uploaded"}
  <2>1. s.do /= "insert"
    BY <1>3
  <2> QED BY <1>2, <1>3, <2>1
<1>4. CASE s.do = "delete"
  <2>1. Execute(r, s) = RowsNotOf(r, s.path)
    BY <1>4 DEF Execute
  <2> QED BY <1>4, <2>1, RowsNotOfProps
<1>5. s.do \in {"insert", "gone", "uploaded", "delete"}
  BY DEF Statement
<1> QED BY <1>1, <1>3, <1>4, <1>5

\* The statement execQueuedSQL is at.
LEMMA FlushStatementProps ==
  ASSUME Types, FlushStatement
  PROVE  /\ section.at = "flush" /\ ~restoring
         /\ section.done \in Nat /\ section.size \in Nat
         /\ section.done < section.size /\ section.size <= Len(sqlQueue)
         /\ section.done + 1 \in 1..Len(sqlQueue) /\ Len(sqlQueue) \in Nat
         /\ sqlQueue[section.done + 1] \in Statement
         /\ rows' = Execute(rows, sqlQueue[section.done + 1])
         /\ section' \in Section /\ section'.at = "flush"
         /\ section'.done = section.done + 1 /\ section'.size = section.size
         /\ UNCHANGED <<index, hashIndex, sqlQueue, restoring, restored>>
<1>1. /\ section.at = "flush" /\ section \in Section /\ section.done < section.size
      /\ rows' = Execute(rows, sqlQueue[section.done + 1])
      /\ section' = [section EXCEPT !.done = @ + 1]
      /\ UNCHANGED <<index, hashIndex, sqlQueue, restoring, restored>>
  BY DEF FlushStatement, Types, IndexTypeOK
<1>2. section.done \in Nat /\ section.size \in Nat
  BY <1>1, SectionFields
<1>3. ~restoring /\ section.size <= Len(sqlQueue)
  BY <1>1 DEF Types, SectionOK
<1>4. sqlQueue \in Seq(Statement) /\ Len(sqlQueue) \in Nat
  BY DEF Types, IndexTypeOK
<1>5. section.done + 1 \in 1..Len(sqlQueue)
  BY <1>1, <1>2, <1>3, <1>4
<1>6. sqlQueue[section.done + 1] \in Statement
  BY <1>4, <1>5
<1>7. section' \in Section /\ section'.at = "flush"
      /\ section'.done = section.done + 1 /\ section'.size = section.size
  BY <1>1, NextSection
<1> QED BY <1>1, <1>2, <1>3, <1>4, <1>5, <1>6, <1>7

LEMMA FlushStatementTypes ==
  ASSUME Types, FlushStatement, UNCHANGED issued
  PROVE  IndexTypeOK' /\ SectionOK'
<1>1. /\ section.at = "flush" /\ ~restoring
      /\ section.done \in Nat /\ section.size \in Nat
      /\ section.done < section.size /\ section.size <= Len(sqlQueue)
      /\ sqlQueue[section.done + 1] \in Statement
      /\ rows' = Execute(rows, sqlQueue[section.done + 1])
      /\ section' \in Section /\ section'.at = "flush"
      /\ section'.done = section.done + 1 /\ section'.size = section.size
      /\ UNCHANGED <<index, hashIndex, sqlQueue, restoring, restored>>
  BY FlushStatementProps
<1>2. rows' \in Seq(Row)
  BY <1>1, ExecuteProps DEF Types, IndexTypeOK
<1>3. restored = 0 /\ restored' \in 0..Len(rows')
  BY <1>1, <1>2 DEF Types, SectionOK
<1>4. IndexTypeOK'
  BY <1>1, <1>2, <1>3 DEF Types, IndexTypeOK
<1>5. section'.done <= section'.size /\ section'.size <= Len(sqlQueue')
  BY <1>1
<1> QED BY <1>1, <1>3, <1>4, <1>5 DEF SectionOK

LEMMA FlushEndTypes ==
  ASSUME Types, FlushEnd, UNCHANGED issued
  PROVE  IndexTypeOK' /\ SectionOK'
<1>1. /\ sqlQueue' = <<>> /\ section' = Free /\ UNCHANGED <<index, hashIndex, rows, restoring, restored>>
  BY DEF FlushEnd
<1>2. sqlQueue' \in Seq(Statement) /\ Free \in Section
  BY <1>1 DEF Section, Free
<1> QED BY <1>1, <1>2 DEF Types, IndexTypeOK, SectionOK, Free

LEMMA LoseIndexTypes ==
  ASSUME Types, LoseIndex
  PROVE  IndexTypeOK' /\ SectionOK'
<1>1. /\ index' = [p \in Files |-> <<>>] /\ hashIndex' = [n \in Names |-> NoPath]
      /\ sqlQueue' = <<>> /\ restoring' = TRUE /\ restored' = 0 /\ section' = Free /\ UNCHANGED rows
  BY DEF LoseIndex
<1>2. <<>> \in Seq(Version) /\ <<>> \in Seq(Statement) /\ Free \in Section
  BY DEF Section, Free
<1>3. 0 \in 0..Len(rows)
  BY DEF Types, IndexTypeOK
<1>4. IndexTypeOK'
  BY <1>1, <1>2, <1>3 DEF Types, IndexTypeOK
<1> QED BY <1>1, <1>4 DEF SectionOK, Free

-------------------------------------------------------------------------------
\* Every step is of one of the kinds.

IndexStep ==
  \/ Stays
  \/ Moves
  \/ Marks(NoName)
  \/ Upload /\ Marks(Head(batch).name)
  \/ RestoreRow /\ UNCHANGED issued
  \/ RestoreDone /\ UNCHANGED issued
  \/ NewVersion
  \/ QueueStep /\ DelVersion /\ UNCHANGED issued
  \/ DelFinish /\ UNCHANGED issued
  \/ FlushStatement /\ UNCHANGED issued
  \/ FlushEnd /\ UNCHANGED issued
  \/ DieOfMissingFile
  \/ DieAnyhow

LEMMA IndexSteps ==
  ASSUME Types, [DaemonNext]_daemonVars
  PROVE  IndexStep
<1> USE DEF Types
<1>0. section \in Section /\ issued \in Nat /\ index \in [Files -> Seq(Version)] /\ Len(sqlQueue) \in Nat
      /\ (section.at \in {"seen", "modtime", "hash"} => issued < MaxNames)
  BY DEF IndexTypeOK, SectionOK, IInv, TypeOK
<1>1. CASE UNCHANGED daemonVars
  BY <1>1 DEF daemonVars, vars, IndexStep, Stays
<1>2. CASE Restore
  BY <1>2 DEF Restore, ByItself, IndexStep
<1>3. CASE Scan
  <2>1. /\ section = Free /\ section' = Scanning(Tracked)
        /\ UNCHANGED <<index, hashIndex, sqlQueue, rows, restoring, restored, issued>>
    BY <1>3 DEF Scan, ScanStart, WatchFree, ByItself
  <2>2. Scanning(Tracked) \in Section
    BY DEF Section, Scanning, Tracked
  <2> QED BY <2>1, <2>2 DEF IndexStep, Moves, Free, Scanning
<1>4. CASE Flush
  <2> DEFINE next == [at |-> "flush", done |-> 0, size |-> Len(sqlQueue)]
  <2>1. /\ section = Free /\ ~restoring /\ section' = next
        /\ UNCHANGED <<index, hashIndex, sqlQueue, rows, restoring, restored, issued>>
    BY <1>4 DEF Flush, FlushStart, WatchFree, ByItself
  <2>2. next \in Section
    BY <1>0 DEF Section
  <2> QED BY <2>1, <2>2 DEF IndexStep, Moves, Free
<1>5. ASSUME NEW p \in Files, AddWatch(p), UNCHANGED issued PROVE Moves
  <2> DEFINE next == [at |-> "modtime", todo |-> {}, path |-> p]
  <2>1. /\ section = Free /\ section' = next /\ issued < MaxNames
        /\ UNCHANGED <<index, hashIndex, sqlQueue, rows, restoring, restored, issued>>
    BY <1>5 DEF AddWatch, WatchFree
  <2>2. next \in Section
    BY DEF Section
  <2> QED BY <2>1, <2>2 DEF Moves, Free
<1>6. ASSUME NEW p \in Files, DelWatch(p), UNCHANGED issued PROVE Moves
  <2> DEFINE next == [at |-> "delete", path |-> p, done |-> 0]
  <2>1. /\ section = Free /\ section' = next
        /\ UNCHANGED <<index, hashIndex, sqlQueue, rows, restoring, restored, issued>>
    BY <1>6 DEF DelWatch, WatchFree
  <2>2. next \in Section
    BY DEF Section
  <2> QED BY <2>1, <2>2 DEF Moves, Free
<1>7. CASE Command
  BY <1>5, <1>6, <1>7 DEF Command, IndexStep
<1>8. ASSUME ScanEnd, UNCHANGED issued PROVE Moves
  <2>1. /\ section.at = "scan" /\ section' = Free
        /\ UNCHANGED <<index, hashIndex, sqlQueue, rows, restoring, restored, issued>>
    BY <1>8 DEF ScanEnd
  <2> QED BY <2>1 DEF Moves, Free, Section
<1>9. ASSUME NEW p \in Files, ScanSees(p), UNCHANGED issued PROVE Moves
  <2> DEFINE next == [at |-> "seen", todo |-> section.todo \ {p}, path |-> p]
  <2>1. /\ section.at = "scan" /\ section' = next /\ issued < MaxNames
        /\ UNCHANGED <<index, hashIndex, sqlQueue, rows, restoring, restored, issued>>
    BY <1>9 DEF ScanSees
  <2>2. section.todo \ {p} \in SUBSET Files
    BY <1>0, <2>1, SectionFields
  <2>3. next \in Section
    BY <2>2 DEF Section
  <2> QED BY <2>1, <2>3 DEF Moves
<1>10. ASSUME ScanSame, UNCHANGED issued PROVE Moves
  <2>1. /\ section.at = "seen" /\ section' = Scanning(section.todo)
        /\ UNCHANGED <<index, hashIndex, sqlQueue, rows, restoring, restored, issued>>
    BY <1>10 DEF ScanSame
  <2>2. Scanning(section.todo) \in Section
    BY <1>0, <2>1, SectionFields DEF Section, Scanning
  <2> QED BY <2>1, <2>2 DEF Moves, Scanning
<1>11. ASSUME ReadModTime, UNCHANGED issued PROVE Moves
  <2> DEFINE next == [at |-> "hash", todo |-> section.todo, path |-> section.path,
                      mod |-> FsLastMod(section.path)]
  <2>1. /\ section.at = "modtime" /\ section' = next
        /\ UNCHANGED <<index, hashIndex, sqlQueue, rows, restoring, restored, issued>>
    BY <1>11 DEF ReadModTime
  <2>2. section.todo \in SUBSET Files /\ section.path \in Files
    BY <1>0, <2>1, SectionFields
  <2>3. FsLastMod(section.path) \in Nat
    BY <2>2, FileFacts DEF IInv, TypeOK
  <2>4. next \in Section
    BY <2>2, <2>3 DEF Section
  <2> QED BY <1>0, <2>1, <2>4 DEF Moves
<1>12. ASSUME QueueVersion, UNCHANGED issued PROVE Moves
  <2>1. /\ section.at = "enqueue" /\ section' = Scanning(section.todo)
        /\ UNCHANGED <<index, hashIndex, sqlQueue, rows, restoring, restored, issued>>
    BY <1>12 DEF QueueVersion
  <2>2. Scanning(section.todo) \in Section
    BY <1>0, <2>1, SectionFields DEF Section, Scanning
  <2> QED BY <2>1, <2>2 DEF Moves, Scanning
<1>13. ASSUME NEW p \in Files, ScanGone(p), UNCHANGED issued PROVE Marks(NoName)
  <2>1. /\ section.at = "scan" /\ MarkGone(p) /\ QueueSql([do |-> "gone", path |-> p])
        /\ section' = Free /\ UNCHANGED <<hashIndex, rows, restoring, restored, issued>>
    BY <1>13 DEF ScanGone
  <2>2. [do |-> "gone", path |-> p] \in Statement /\ [do |-> "gone", path |-> p].do \notin {"insert", "delete"}
    BY DEF Statement
  <2>3. Free \in Section /\ Free.at = "free"
    BY DEF Section, Free
  <2>4. Marked(NoName)
    BY <2>1, MarkGoneProps
  <2> QED BY <2>1, <2>2, <2>3, <2>4 DEF Marks
<1>14. ASSUME ScanChanged, UNCHANGED issued PROVE Marks(NoName)
  <2> DEFINE next == [at |-> "modtime", todo |-> section.todo, path |-> section.path]
  <2>1. /\ section.at = "seen" /\ MarkGone(section.path) /\ section' = next
        /\ UNCHANGED <<hashIndex, sqlQueue, rows, restoring, restored, issued>>
    BY <1>14 DEF ScanChanged
  <2>2. section.path \in Files /\ section.todo \in SUBSET Files
    BY <1>0, <2>1, SectionFields
  <2>3. next \in Section /\ next.at = "modtime"
    BY <2>2 DEF Section
  <2>4. Marked(NoName)
    BY <2>1, <2>2, MarkGoneProps
  <2> HIDE DEF next
  <2> QED BY <1>0, <2>1, <2>3, <2>4 DEF Marks
<1>15. CASE SectionStep
  BY <1>8, <1>9, <1>10, <1>11, <1>13, <1>14, <1>15 DEF SectionStep, IndexStep
<1>16. CASE NewVersion
  BY <1>16 DEF IndexStep
<1>17. CASE QueueStep
  BY <1>12, <1>17 DEF QueueStep, IndexStep
<1>18. CASE Clean
  BY <1>18 DEF Clean, CleanList, CleanLeaks, CleanResolve, CleanQueue, vars, IndexStep, Stays
<1>19. CASE Transfer \/ FilesChange
  BY <1>19 DEF Transfer, FilesChange, IndexStep, Stays
<1>20. CASE Upload
  <2>1. Visiting("upload") /\ UploadSuccess(Head(batch).path, Head(batch).name) /\ UNCHANGED issued
    BY <1>20 DEF Upload, UploadObject
  <2>2. Head(batch) \in Item("upload")
    BY <2>1, HeadOfBatch, IInvIsQueueInv DEF Kinds
  <2>3. Head(batch).path \in Files /\ Head(batch).name \in Names
    BY <2>2 DEF Item, UploadItem
  <2> QED BY <1>20, <2>1, <2>3, UploadSuccessProps DEF IndexStep
<1>21. CASE DieOfMissingFile \/ DieAnyhow
  BY <1>21 DEF IndexStep
<1> QED BY <1>1, <1>2, <1>3, <1>4, <1>7, <1>15, <1>16, <1>17, <1>18, <1>19, <1>20, <1>21 DEF DaemonNext

-------------------------------------------------------------------------------
(* Type correctness.                                                         *)

\* The types hold at the start ...
LEMMA TypesInit == DaemonInit => Types
<1> SUFFICES ASSUME DaemonInit PROVE Types
  OBVIOUS
<1>1. IInv
  BY InitIInv DEF DaemonInit
<1>2. IndexTypeOK
  <2>1. /\ index = [p \in Files |-> <<>>] /\ hashIndex = [n \in Names |-> NoPath]
        /\ sqlQueue = <<>> /\ rows = <<>> /\ restoring = TRUE /\ restored = 0 /\ section = Free
    BY DEF DaemonInit, IndexInit
  <2>2. <<>> \in Seq(Version) /\ <<>> \in Seq(Statement) /\ <<>> \in Seq(Row) /\ Len(<<>>) = 0
    OBVIOUS
  <2>3. Free \in Section /\ 0 \in 0..0
    BY DEF Section, Free
  <2>4. restored \in 0..Len(rows)
    BY <2>1, <2>2, <2>3
  <2> QED BY <2>1, <2>2, <2>3, <2>4 DEF IndexTypeOK
<1>3. SectionOK
  BY DEF DaemonInit, IndexInit, SectionOK, Free
<1> QED BY <1>1, <1>2, <1>3 DEF DaemonInit, Types, SocketTypeOK

\* ... and are kept by every step.
LEMMA TypesNext == Types /\ [DaemonNext]_daemonVars => Types'
<1> SUFFICES ASSUME Types, [DaemonNext]_daemonVars PROVE Types'
  OBVIOUS
<1>1. IInv'
  <2>1. CASE UNCHANGED daemonVars
    BY <2>1, NextIInv DEF Types, daemonVars
  <2> QED BY <2>1, QueueSideKept
<1>2. IndexTypeOK' /\ SectionOK'
  <2>1. IndexStep
    BY IndexSteps
  <2>2. CASE Stays
    BY <2>2, StaysTypes
  <2>3. CASE Moves
    BY <2>3, MovesTypes
  <2>4. ASSUME NEW n, Marks(n) PROVE IndexTypeOK' /\ SectionOK'
    BY <2>4, MarksTypes
  <2>5. CASE RestoreRow /\ UNCHANGED issued
    BY <2>5, RestoreRowTypes
  <2>6. CASE RestoreDone /\ UNCHANGED issued
    BY <2>6, RestoreDoneTypes
  <2>7. CASE NewVersion
    BY <2>7, AddFileVersionTypes DEF NewVersion
  <2>8. CASE QueueStep /\ DelVersion /\ UNCHANGED issued
    BY <2>8, DelVersionTypes
  <2>9. CASE DelFinish /\ UNCHANGED issued
    BY <2>9, DelFinishTypes
  <2>10. CASE FlushStatement /\ UNCHANGED issued
    BY <2>10, FlushStatementTypes
  <2>11. CASE FlushEnd /\ UNCHANGED issued
    BY <2>11, FlushEndTypes
  <2>12. CASE DieOfMissingFile \/ DieAnyhow
    BY <2>12, LoseIndexTypes DEF DieOfMissingFile, DieAnyhow, Die
  <2> QED BY <2>1, <2>2, <2>3, <2>4, <2>5, <2>6, <2>7, <2>8, <2>9, <2>10, <2>11, <2>12, Zenon DEF IndexStep
<1>3. SocketTypeOK'
  <2> USE DEF Types, SocketTypeOK
  <2>1. CASE UNCHANGED socketVars
    BY <2>1 DEF socketVars, cleanVars
  <2>2. CASE UNCHANGED daemonVars
    BY <2>1, <2>2 DEF daemonVars
  <2>3. CASE Restore \/ Scan \/ Flush
    BY <2>1, <2>3 DEF Restore, Scan, Flush, ByItself, Elsewhere, socketVars
  <2>4. CASE SectionStep
    BY <2>4 DEF SectionStep, Elsewhere, cleanVars
  <2>5. CASE NewVersion \/ QueueStep
    BY <2>1, <2>5 DEF NewVersion, QueueStep, Elsewhere, socketVars
  <2>6. CASE Command
    BY <2>6 DEF Command, Elsewhere, cleanVars
  <2>7. CASE CleanList
    BY <2>7 DEF CleanList, Listed
  <2>8. CASE CleanLeaks
    BY <2>1, <2>8 DEF CleanLeaks
  <2>9. ASSUME NEW n \in Names, CleanResolve(n) PROVE SocketTypeOK'
    BY <2>9 DEF CleanResolve
  <2>10. CASE CleanQueue
    BY <2>10 DEF CleanQueue
  <2>11. CASE Transfer \/ Upload \/ FilesChange
    BY <2>1, <2>11 DEF Transfer, Upload, FilesChange
  <2>12. CASE DieOfMissingFile \/ DieAnyhow
    BY <2>12 DEF DieOfMissingFile, DieAnyhow, Die
  <2> QED BY <2>2, <2>3, <2>4, <2>5, <2>6, <2>7, <2>8, <2>9, <2>10, <2>11, <2>12 DEF DaemonNext, Clean
<1> QED BY <1>1, <1>2, <1>3 DEF Types

\* Every variable of the daemon keeps its type, whatever the threads, the
\* clients and the other programs do, and through every death of the process.
THEOREM DaemonTypeCorrect == DaemonSpec => []DaemonTypeOK
<1>1. Types => DaemonTypeOK
  BY DEF Types, DaemonTypeOK, IInv, SocketTypeOK
<1> QED BY <1>1, TypesInit, TypesNext, PTL DEF DaemonSpec

===============================================================================
