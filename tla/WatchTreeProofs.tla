---------------------------- MODULE WatchTreeProofs ----------------------------
(***************************************************************************)
(* WatchTree for any directories, files and bounds: its types, that what a *)
(* deletion has been through stays deleted while it runs (DeletedSoFar),   *)
(* and that the statements queued would take the database to the index     *)
(* (ReplayGivesIndex).                                                     *)
(*                                                                         *)
(* DeletedSoFar is not inductive.  It needs that only the holder of        *)
(* Watch::mtx walks (MtxInv), that a walk that deletes has no frame in     *)
(* it that adds, and that a frame that adds has deleted nothing, so that   *)
(* what a deletion has been through is not watched again beneath it        *)
(* (WalkOK).  ReplayGivesIndex needs of them that nothing is queued while  *)
(* the daemon is down.  What the statements make of the tables is a        *)
(* recursive function of the queue; the first part shows what one more     *)
(* statement adds to it.                                                   *)
(***************************************************************************)
EXTENDS WatchTree, WellFoundedInduction, SequenceTheorems, TLAPS

USE FileSystemAssumption, WatchTreeAssumption

-------------------------------------------------------------------------------
\* Induction up to a number, by the least counterexample.

LEMMA LeastElement ==
  ASSUME NEW T, T \subseteq Nat, T /= {}
  PROVE  \E x \in T : \A y \in T : x <= y
<1>1. PICK x \in T : \A y \in T : ~(<<y, x>> \in OpToRel(<, Nat))
  BY WFMin, NatLessThanWellFounded, Zenon
<1>2. ASSUME NEW y \in T PROVE x <= y
  <2>1. ~(y < x)
    BY <1>1, Zenon DEF OpToRel
  <2> QED BY <2>1
<1> QED BY <1>2

LEMMA InductionUpTo ==
  ASSUME NEW n \in Nat, NEW True, 0 \in True,
         \A i \in 1..n : i - 1 \in True => i \in True
  PROVE  0..n \subseteq True
<1> DEFINE T == {i \in 0..n : i \notin True}
<1> SUFFICES ASSUME T /= {} PROVE FALSE
  OBVIOUS
<1>0. T \subseteq Nat
  OBVIOUS
<1>1. PICK x \in T : \A y \in T : x <= y
  <2> HIDE DEF T
  <2> QED BY <1>0, LeastElement
<1>2. x \in 1..n /\ x - 1 \in 0..n /\ ~(x <= x - 1)
  BY <1>1
<1>3. x - 1 \in True
  BY <1>1, <1>2
<1> QED BY <1>1, <1>2, <1>3

LEMMA Prefix ==
  ASSUME NEW S, NEW s \in Seq(S), NEW n \in 0..Len(s)
  PROVE  /\ SubSeq(s, 1, n) \in Seq(S)
         /\ Len(SubSeq(s, 1, n)) = n
         /\ \A i \in 1..n : SubSeq(s, 1, n)[i] = s[i]
<1>1. 1 \in Int /\ n \in Int /\ n - 1 + 1 = n /\ (1 <= n \/ n = 0) /\ \A i \in 1..n : 1 + i - 1 = i
  OBVIOUS
<1>2. \A i \in 1..n : s[i] \in S
  OBVIOUS
<1>3. /\ SubSeq(s, 1, n) \in Seq(S)
      /\ Len(SubSeq(s, 1, n)) = IF 1 <= n THEN n - 1 + 1 ELSE 0
      /\ \A i \in 1..(n - 1 + 1) : SubSeq(s, 1, n)[i] = s[1 + i - 1]
  BY <1>1, <1>2, SubSeqProperties
<1>4. Len(SubSeq(s, 1, n)) = n
  BY <1>1, <1>3
<1> QED BY <1>1, <1>3, <1>4

-------------------------------------------------------------------------------
\* The tables after a queue of statements.

\* at holds the tables after each of the first n statements of q.
Runs(t, q, n, at) ==
  at = [i \in 0..n |-> IF i = 0 THEN t ELSE Execute(at[i - 1], q[i])]

\* The recursion that After is defined by has a solution.
LEMMA RunExists ==
  ASSUME NEW t, NEW q, NEW n \in Nat
  PROVE  \E at : Runs(t, q, n, at)
<1> DEFINE True == {m \in 0..n : \E at : Runs(t, q, m, at)}
<1>1. 0 \in True
  <2>1. Runs(t, q, 0, [i \in 0..0 |-> t])
    BY DEF Runs
  <2> QED BY <2>1
<1>2. ASSUME NEW m \in 1..n, m - 1 \in True PROVE m \in True
  <2>1. PICK f : Runs(t, q, m - 1, f)
    BY <1>2
  <2> DEFINE g == [i \in 0..m |-> IF i = m THEN Execute(f[m - 1], q[m]) ELSE f[i]]
  <2>2. \A i \in 0..m : i /= m => i \in 0..(m - 1) /\ (i /= 0 => i - 1 \in 0..(m - 1) /\ i - 1 /= m)
    OBVIOUS
  <2>3. m - 1 \in 0..m /\ m - 1 /= m /\ m /= 0 /\ m \in 0..m
    OBVIOUS
  <2>4. \A i \in 0..(m - 1) : f[i] = IF i = 0 THEN t ELSE Execute(f[i - 1], q[i])
    BY <2>1 DEF Runs
  <2>5. ASSUME NEW i \in 0..m PROVE g[i] = IF i = 0 THEN t ELSE Execute(g[i - 1], q[i])
    <3>1. CASE i = m
      <4>1. g[m - 1] = f[m - 1] /\ g[m] = Execute(f[m - 1], q[m])
        BY <2>3
      <4> HIDE DEF g
      <4> QED BY <2>3, <3>1, <4>1
    <3>2. CASE i /= m
      <4>1. i \in 0..(m - 1) /\ g[i] = f[i]
        BY <2>2, <3>2
      <4>2. CASE i = 0
        BY <2>4, <4>1, <4>2
      <4>3. CASE i /= 0
        <5>1. g[i - 1] = f[i - 1]
          BY <2>2, <3>2, <4>3
        <5> HIDE DEF g
        <5> QED BY <2>4, <4>1, <4>3, <5>1
      <4> QED BY <4>2, <4>3
    <3> QED BY <3>1, <3>2
  <2>6. Runs(t, q, m, g)
    <3>1. g = [i \in 0..m |-> g[i]]
      OBVIOUS
    <3> HIDE DEF g
    <3> QED BY <2>5, <3>1 DEF Runs
  <2>7. m \in 0..n
    OBVIOUS
  <2> QED BY <2>6, <2>7
<1>3. 0..n \subseteq True
  <2> HIDE DEF True
  <2> QED BY <1>1, <1>2, InductionUpTo
<1> QED BY <1>3

\* After is the end of a run.
LEMMA AfterRuns ==
  ASSUME NEW t, NEW q, Len(q) \in Nat
  PROVE  \E at : /\ at[0] = t
                 /\ \A i \in 1..Len(q) : at[i] = Execute(at[i - 1], q[i])
                 /\ After(t, q) = at[Len(q)]
<1> DEFINE n == Len(q)
           at == CHOOSE g : Runs(t, q, n, g)
<1>1. Runs(t, q, n, at)
  BY RunExists
<1>2. After(t, q) = at[n]
  BY DEF After, Runs
<1> HIDE DEF at
<1>3. n \in Nat /\ 0 \in 0..n /\ \A i \in 1..n : i \in 0..n /\ i /= 0
  OBVIOUS
<1> HIDE DEF n
<1>4. \A i \in 0..n : at[i] = IF i = 0 THEN t ELSE Execute(at[i - 1], q[i])
  BY <1>1 DEF Runs
<1>5. at[0] = t /\ \A i \in 1..n : at[i] = Execute(at[i - 1], q[i])
  BY <1>3, <1>4
<1> QED BY <1>2, <1>5 DEF n

\* No statement, no change.
LEMMA AfterNone ==
  ASSUME NEW t
  PROVE  After(t, <<>>) = t
<1>1. Len(<<>>) = 0
  OBVIOUS
<1> QED BY <1>1, AfterRuns

\* One more statement is executed on what the others have made of the tables.
LEMMA AfterAppend ==
  ASSUME NEW S, NEW t, NEW q \in Seq(S), NEW s \in S
  PROVE  After(t, Append(q, s)) = Execute(After(t, q), s)
<1> DEFINE n == Len(q)
           r == Append(q, s)
<1>1. n \in Nat /\ Len(r) = n + 1 /\ r[n + 1] = s /\ \A i \in 1..n : r[i] = q[i]
  OBVIOUS
<1>2. PICK f : f[0] = t /\ (\A i \in 1..n : f[i] = Execute(f[i - 1], q[i])) /\ After(t, q) = f[n]
  BY <1>1, AfterRuns
<1>3. PICK g : g[0] = t /\ (\A i \in 1..Len(r) : g[i] = Execute(g[i - 1], r[i])) /\ After(t, r) = g[Len(r)]
  <2>1. Len(r) \in Nat
    BY <1>1
  <2> HIDE DEF r
  <2> QED BY <2>1, AfterRuns
<1> HIDE DEF n, r
<1> DEFINE True == {i \in 0..n : f[i] = g[i]}
<1>4. 0 \in True
  BY <1>1, <1>2, <1>3
<1>5. ASSUME NEW i \in 1..n, i - 1 \in True PROVE i \in True
  <2>1. i \in 0..n /\ i \in 1..(n + 1)
    BY <1>1
  <2>2. g[i] = Execute(g[i - 1], r[i]) /\ f[i] = Execute(f[i - 1], q[i]) /\ f[i - 1] = g[i - 1] /\ r[i] = q[i]
    BY <1>1, <1>2, <1>3, <1>5, <2>1
  <2> QED BY <2>1, <2>2
<1>6. f[n] = g[n]
  <2>1. 0..n \subseteq True
    <3> HIDE DEF True
    <3> QED BY <1>1, <1>4, <1>5, InductionUpTo
  <2> QED BY <1>1, <2>1
<1>7. n + 1 \in 1..(n + 1) /\ (n + 1) - 1 = n
  BY <1>1
<1>8. g[n + 1] = Execute(g[n], s)
  <2>1. g[n + 1] = Execute(g[(n + 1) - 1], r[n + 1])
    BY <1>1, <1>3, <1>7
  <2> QED BY <1>1, <1>7, <2>1
<1> QED BY <1>1, <1>2, <1>3, <1>6, <1>8 DEF r

-------------------------------------------------------------------------------
\* The inductive invariant of the types, the mutex and the walk.

\* Who walks holds Watch::mtx, and while the daemon is down nothing is queued.
MtxInv ==
  /\ ~up => holder = "nobody" /\ sqlQueue = <<>>
  /\ holder = "nobody" => walk = <<>> /\ doing /= "scan"

Watched == WatchedDirs \cup WatchedFiles

\* The frames w of a walk while X is watched: all of them add or all delete, one
\* that adds has deleted nothing, and what one has deleted is not in X.
WalkOK(w, X) ==
  /\ w \in Seq(Frame)
  /\ \A i, j \in 1..Len(w) : w[i].does = w[j].does
  /\ \A i \in 1..Len(w) : (w[i].does = "add" => w[i].done = {}) /\ w[i].done \cap X = {}

\* The types of all but the walk.
RestTypeOK ==
  /\ FsTypeOK
  /\ dirIndex \in [Dirs -> DirWatch]
  /\ files \in [Files -> FileWatch]
  /\ dirRows \in [Dirs -> DirWatch]
  /\ fileRows \in [Files -> FileWatch]
  /\ sqlQueue \in Seq(Statement)
  /\ holder \in {"nobody", "watch", "socket"}
  /\ doing \in {"nothing", "walk", "scan"}
  /\ todo \subseteq Dirs
  /\ up \in BOOLEAN
  /\ listening \in BOOLEAN
  /\ commands \in 0..MaxCommands
  /\ makes \in 0..MaxMakes
  /\ crashes \in 0..MaxCrashes

TreeInv == RestTypeOK /\ MtxInv /\ WalkOK(walk, Watched)

LEMMA TreeInvGives ==
  ASSUME TreeInv
  PROVE  TreeTypeOK /\ DeletedSoFar
<1>1. walk \in Seq(Frame)
  BY DEF TreeInv, WalkOK
<1>2. DOMAIN walk = 1..Len(walk)
  BY <1>1
<1> QED BY <1>1, <1>2 DEF TreeInv, RestTypeOK, TreeTypeOK, WalkOK, DeletedSoFar, Watched

LEMMA TopType ==
  ASSUME TreeInv, Walking
  PROVE  /\ walk \in Seq(Frame) /\ walk /= <<>> /\ Len(walk) \in 1..Len(walk)
         /\ Top \in Frame /\ holder /= "nobody" /\ up
BY DEF TreeInv, RestTypeOK, MtxInv, WalkOK, Walking, Top

LEMMA NoWalk ==
  ASSUME NEW X
  PROVE  WalkOK(<<>>, X)
BY DEF WalkOK

LEMMA WalkStarts ==
  ASSUME NEW X, NEW fr \in Frame, fr.done = {}
  PROVE  WalkOK(<<fr>>, X)
BY DEF WalkOK

LEMMA TopChanges ==
  ASSUME NEW w, NEW X, WalkOK(w, X), w /= <<>>, NEW fr \in Frame, fr.does = w[Len(w)].does,
         fr.does = "add" => fr.done = {}, fr.done \cap X = {}
  PROVE  WalkOK([w EXCEPT ![Len(w)] = fr], X)
<1> DEFINE v == [w EXCEPT ![Len(w)] = fr]
<1>1. w \in Seq(Frame) /\ Len(w) \in 1..Len(w)
  BY DEF WalkOK
<1>2. v \in Seq(Frame) /\ Len(v) = Len(w) /\ v[Len(w)] = fr /\ \A i \in 1..Len(w) : i /= Len(w) => v[i] = w[i]
  BY <1>1
<1> HIDE DEF v
<1> QED BY <1>1, <1>2 DEF WalkOK

LEMMA TopPushed ==
  ASSUME NEW w, NEW X, WalkOK(w, X), NEW fr \in Frame, fr.done = {},
         w /= <<>> => fr.does = w[Len(w)].does
  PROVE  WalkOK(Append(w, fr), X)
<1> DEFINE v == Append(w, fr)
<1>1. w \in Seq(Frame) /\ Len(w) \in Nat /\ (Len(w) > 0 => w /= <<>> /\ Len(w) \in 1..Len(w))
  BY DEF WalkOK
<1>2. v \in Seq(Frame) /\ Len(v) = Len(w) + 1 /\ v[Len(w) + 1] = fr /\ \A i \in 1..Len(w) : v[i] = w[i]
  BY <1>1
<1> HIDE DEF v
<1>3. \A i \in 1..Len(v) : i \in 1..Len(w) \/ i = Len(w) + 1
  BY <1>1, <1>2
<1>4. \A i \in 1..Len(w) : w[i].does = fr.does
  BY <1>1 DEF WalkOK
<1> QED BY <1>2, <1>3, <1>4 DEF WalkOK

LEMMA TopPopped ==
  ASSUME NEW w, NEW X, WalkOK(w, X), w /= <<>>
  PROVE  LET rest == SubSeq(w, 1, Len(w) - 1) IN
           WalkOK(rest, X) /\ (rest /= <<>> => rest[Len(rest)] \in Frame /\ rest[Len(rest)].does = w[Len(w)].does)
<1> DEFINE v == SubSeq(w, 1, Len(w) - 1)
<1>1. w \in Seq(Frame) /\ Len(w) \in 1..Len(w) /\ Len(w) \in Nat
  BY DEF WalkOK
<1>2. v \in Seq(Frame) /\ Len(v) = Len(w) - 1 /\ \A i \in 1..Len(v) : v[i] = w[i] /\ i \in 1..Len(w)
  <2>1. Len(w) - 1 \in 0..Len(w)
    BY <1>1
  <2>2. v \in Seq(Frame) /\ Len(v) = Len(w) - 1 /\ \A i \in 1..(Len(w) - 1) : v[i] = w[i]
    BY <1>1, <2>1, Prefix
  <2> QED BY <1>1, <2>2
<1>3. v /= <<>> => Len(v) \in 1..Len(v)
  BY <1>2
<1> HIDE DEF v
<1>4. WalkOK(v, X)
  BY <1>2 DEF WalkOK
<1>5. v /= <<>> => v[Len(v)] \in Frame /\ v[Len(v)].does = w[Len(w)].does
  BY <1>1, <1>2, <1>3 DEF WalkOK
<1> QED BY <1>4, <1>5 DEF v

\* A walk that forgets what is no longer watched is still one.
LEMMA LessWatched ==
  ASSUME NEW w, NEW X, NEW Y, WalkOK(w, X), Y \subseteq X
  PROVE  WalkOK(w, Y)
BY DEF WalkOK

\* What an addition watches besides, it has not deleted.
LEMMA AdditionWatches ==
  ASSUME NEW w, NEW X, NEW Y, WalkOK(w, X), w /= <<>>, w[Len(w)].does = "add"
  PROVE  WalkOK(w, Y)
<1>1. w \in Seq(Frame) /\ Len(w) \in 1..Len(w)
  BY DEF WalkOK
<1> QED BY <1>1 DEF WalkOK

-------------------------------------------------------------------------------
\* The types of the statements and of what they make of the tables.

Tables == [Dirs -> DirWatch] \X [Files -> FileWatch]

LEMMA StatementTypes ==
  /\ \A d \in Dirs : [do |-> "delete dir", path |-> d] \in Statement
  /\ \A d \in Dirs, how \in {"flat", "recursive"} : [do |-> "insert dir", path |-> d, as |-> how] \in Statement
  /\ \A f \in Files : \A what \in {"insert file", "gone", "delete file"} : [do |-> what, path |-> f] \in Statement
BY DEF Statement

LEMMA ExecuteType ==
  ASSUME NEW t \in Tables, NEW s \in Statement
  PROVE  Execute(t, s) \in Tables
<1>1. t[1] \in [Dirs -> DirWatch] /\ t[2] \in [Files -> FileWatch]
  BY DEF Tables
<1>2. ExecuteDir(t[1], s) \in [Dirs -> DirWatch]
  <2>1. s.do = "insert dir" => s.as \in DirWatch
    BY DEF Statement, DirWatch
  <2>2. "unwatched" \in DirWatch
    BY DEF DirWatch
  <2> QED BY <1>1, <2>1, <2>2 DEF ExecuteDir
<1>3. ExecuteFile(t[2], s) \in [Files -> FileWatch]
  <2>1. {"here", "gone", "unwatched"} \subseteq FileWatch
    BY DEF FileWatch
  <2> QED BY <1>1, <2>1 DEF ExecuteFile
<1> QED BY <1>2, <1>3 DEF Execute, Tables

LEMMA AfterType ==
  ASSUME NEW t \in Tables, NEW q \in Seq(Statement)
  PROVE  After(t, q) \in Tables
<1> DEFINE n == Len(q)
<1>1. n \in Nat /\ \A i \in 1..n : q[i] \in Statement
  OBVIOUS
<1>2. PICK f : f[0] = t /\ (\A i \in 1..n : f[i] = Execute(f[i - 1], q[i])) /\ After(t, q) = f[n]
  BY <1>1, AfterRuns
<1> HIDE DEF n
<1> DEFINE True == {i \in 0..n : f[i] \in Tables}
<1>3. 0 \in True
  BY <1>1, <1>2
<1>4. ASSUME NEW i \in 1..n, i - 1 \in True PROVE i \in True
  <2>1. Execute(f[i - 1], q[i]) \in Tables
    BY <1>1, <1>4, ExecuteType
  <2>2. i \in 0..n
    BY <1>1
  <2> QED BY <1>2, <2>1, <2>2
<1>5. 0..n \subseteq True
  <2> HIDE DEF True
  <2> QED BY <1>1, <1>3, <1>4, InductionUpTo
<1> QED BY <1>1, <1>2, <1>5

LEMMA ExecutedTypes ==
  ASSUME RestTypeOK, NEW n \in 0..Len(sqlQueue), Executed(n)
  PROVE  dirRows' \in [Dirs -> DirWatch] /\ fileRows' \in [Files -> FileWatch]
<1> DEFINE q == SubSeq(sqlQueue, 1, n)
<1>1. q \in Seq(Statement)
  BY Prefix DEF RestTypeOK
<1>2. tables \in Tables
  BY DEF RestTypeOK, Tables, tables
<1>3. After(tables, q) \in Tables
  <2> HIDE DEF q
  <2> QED BY <1>1, <1>2, AfterType
<1>4. dirRows' = After(tables, q)[1] /\ fileRows' = After(tables, q)[2]
  BY DEF Executed
<1> HIDE DEF q
<1> QED BY <1>3, <1>4 DEF Tables

-------------------------------------------------------------------------------
\* What entering, leaving, watching and unwatching do to types and indexes.

LEMMA QueuedType ==
  ASSUME RestTypeOK, NEW s \in Statement, QueueSql(s)
  PROVE  sqlQueue' \in Seq(Statement)
BY DEF RestTypeOK, QueueSql

LEMMA EnterDirProps ==
  ASSUME RestTypeOK, NEW d \in Dirs, NEW recursive, EnterDir(d, recursive)
  PROVE  dirIndex' \in [Dirs -> DirWatch] /\ sqlQueue' \in Seq(Statement)
<1> DEFINE how == IF recursive THEN "recursive" ELSE "flat"
<1>1. how \in {"flat", "recursive"} /\ how \in DirWatch
  BY DEF DirWatch
<1>2. dirIndex' = [dirIndex EXCEPT ![d] = how] /\ QueueSql([do |-> "insert dir", path |-> d, as |-> how])
  BY DEF EnterDir
<1> HIDE DEF how
<1>3. [do |-> "insert dir", path |-> d, as |-> how] \in Statement
  BY <1>1, StatementTypes
<1>4. sqlQueue' \in Seq(Statement)
  BY <1>2, <1>3, QueuedType
<1> QED BY <1>1, <1>2, <1>4 DEF RestTypeOK

LEMMA LeaveDirProps ==
  ASSUME RestTypeOK, NEW d \in Dirs, LeaveDir(d)
  PROVE  /\ dirIndex' \in [Dirs -> DirWatch] /\ sqlQueue' \in Seq(Statement)
         /\ WatchedDirs' = WatchedDirs \ {d}
<1>1. [do |-> "delete dir", path |-> d] \in Statement /\ "unwatched" \in DirWatch
  BY StatementTypes DEF DirWatch
<1>2. sqlQueue' \in Seq(Statement)
  BY <1>1, QueuedType DEF LeaveDir
<1> QED BY <1>1, <1>2 DEF LeaveDir, RestTypeOK, WatchedDirs

LEMMA WatchFileProps ==
  ASSUME RestTypeOK, NEW f \in Files, WatchFile(f)
  PROVE  files' \in [Files -> FileWatch] /\ sqlQueue' \in Seq(Statement)
<1>1. [do |-> "insert file", path |-> f] \in Statement /\ "here" \in FileWatch
  BY StatementTypes DEF FileWatch
<1>2. sqlQueue' \in Seq(Statement)
  BY <1>1, QueuedType DEF WatchFile
<1> QED BY <1>1, <1>2 DEF WatchFile, RestTypeOK

LEMMA UnwatchFileProps ==
  ASSUME RestTypeOK, NEW f \in Files, UnwatchFile(f)
  PROVE  /\ files' \in [Files -> FileWatch] /\ sqlQueue' \in Seq(Statement)
         /\ WatchedFiles' = WatchedFiles \ {f}
<1>1. [do |-> "delete file", path |-> f] \in Statement /\ "unwatched" \in FileWatch
  BY StatementTypes DEF FileWatch
<1>2. sqlQueue' \in Seq(Statement)
  BY <1>1, QueuedType DEF UnwatchFile
<1> QED BY <1>1, <1>2 DEF UnwatchFile, RestTypeOK, WatchedFiles

LEMMA ScanFilesProps ==
  ASSUME RestTypeOK, ScanFiles
  PROVE  files' \in [Files -> FileWatch] /\ sqlQueue' \in Seq(Statement)
<1>1. CASE UNCHANGED <<files, sqlQueue>>
  BY <1>1 DEF RestTypeOK
<1>2. ASSUME NEW f \in Files, files' = [files EXCEPT ![f] = "gone"], QueueSql([do |-> "gone", path |-> f])
      PROVE  files' \in [Files -> FileWatch] /\ sqlQueue' \in Seq(Statement)
  <2>1. [do |-> "gone", path |-> f] \in Statement /\ "gone" \in FileWatch
    BY StatementTypes DEF FileWatch
  <2>2. sqlQueue' \in Seq(Statement)
    BY <1>2, <2>1, QueuedType
  <2> QED BY <1>2, <2>1, <2>2 DEF RestTypeOK
<1> QED BY <1>1, <1>2 DEF ScanFiles

LEMMA NewFrameType ==
  ASSUME NEW does \in {"add", "del"}, NEW d \in Dirs, NEW recursive \in BOOLEAN
  PROVE  /\ NewFrame(does, d, recursive) \in Frame
         /\ NewFrame(does, d, recursive).done = {} /\ NewFrame(does, d, recursive).does = does
BY DEF NewFrame, Frame

\* The walk after its top has dealt with n.
LEMMA PastProps ==
  ASSUME TreeInv, NEW n, Walking
  PROVE  /\ WalkOK(Past(n), Watched)
         /\ Past(n) /= <<>> /\ Len(Past(n)) = Len(walk)
         /\ LET past == Past(n)[Len(Past(n))] IN
              past \in Frame /\ past.does = Top.does /\ past.done = Top.done
<1> DEFINE fr == [Top EXCEPT !.left = @ \ {n}]
<1>1. fr \in Frame /\ fr.does = Top.does /\ fr.done = Top.done
  BY TopType DEF Frame
<1>2. Past(n) = [walk EXCEPT ![Len(walk)] = fr]
  BY DEF Past, Top
<1>3. Len(walk) \in 1..Len(walk) /\ walk \in Seq(Frame) /\ walk /= <<>> /\ WalkOK(walk, Watched)
  BY TopType DEF TreeInv
<1>4. (Top.does = "add" => Top.done = {}) /\ Top.done \cap Watched = {}
  BY <1>3 DEF WalkOK, Top
<1> HIDE DEF fr
<1>5. WalkOK(Past(n), Watched)
  BY <1>1, <1>2, <1>3, <1>4, TopChanges DEF Top
<1>6. Past(n) /= <<>> /\ Len(Past(n)) = Len(walk) /\ Past(n)[Len(walk)] = fr
  BY <1>2, <1>3
<1> QED BY <1>1, <1>5, <1>6

-------------------------------------------------------------------------------
\* Every step keeps TreeInv.

\* A step of the walk that leaves index and database alone.
LEMMA WalkOnly ==
  ASSUME TreeInv, UNCHANGED <<fsVars, bounds>>, UNCHANGED <<indexes, tables, sqlQueue, up>>,
         todo' \subseteq Dirs, holder' \in {"nobody", "watch", "socket"}, doing' \in {"nothing", "walk", "scan"},
         listening' \in BOOLEAN, MtxInv', WalkOK(walk', Watched)
  PROVE  TreeInv'
<1>1. Watched' = Watched
  BY DEF Watched, WatchedDirs, WatchedFiles, indexes
<1>2. RestTypeOK'
  BY DEF TreeInv, RestTypeOK, FsTypeOK, fsVars, bounds, indexes, tables
<1> QED BY <1>1, <1>2 DEF TreeInv

\* Who walks on keeps the mutex.
LEMMA MtxKept ==
  ASSUME TreeInv, Walking, UNCHANGED <<holder, up>>
  PROVE  MtxInv'
<1>1. holder' /= "nobody" /\ up'
  BY TopType
<1> QED BY <1>1 DEF MtxInv

LEMMA OpenDirStep ==
  ASSUME TreeInv, OpenDir, UNCHANGED <<fsVars, bounds>>
  PROVE  TreeInv'
<1> DEFINE fr == [Top EXCEPT !.open = TRUE, !.left = Entries(Top.dir)]
<1>1. Walking /\ walk' = [walk EXCEPT ![Len(walk)] = fr]
  BY DEF OpenDir, Top
<1>2. fr \in Frame /\ fr.does = Top.does /\ fr.done = Top.done
  BY <1>1, TopType DEF Frame, Entries
<1>3. WalkOK(walk, Watched) /\ walk /= <<>> /\ (Top.does = "add" => Top.done = {}) /\ Top.done \cap Watched = {}
  BY <1>1, TopType DEF TreeInv, WalkOK, Top
<1> HIDE DEF fr
<1>4. WalkOK(walk', Watched)
  BY <1>1, <1>2, <1>3, TopChanges DEF Top
<1>5. MtxInv'
  BY <1>1, MtxKept DEF OpenDir
<1> QED BY <1>4, <1>5, WalkOnly DEF OpenDir, TreeInv, RestTypeOK

LEMMA SkipEntryStep ==
  ASSUME TreeInv, NEW n \in Files \cup Dirs, SkipEntry(n), UNCHANGED <<fsVars, bounds>>
  PROVE  TreeInv'
<1>1. Walking /\ walk' = Past(n)
  BY DEF SkipEntry, Reading
<1>2. MtxInv'
  BY <1>1, MtxKept DEF SkipEntry
<1> QED BY <1>1, <1>2, PastProps, WalkOnly DEF SkipEntry, TreeInv, RestTypeOK

LEMMA DelSubdirStep ==
  ASSUME TreeInv, NEW d \in Dirs, DelSubdir(d), UNCHANGED <<fsVars, bounds>>
  PROVE  TreeInv'
<1> DEFINE fr == NewFrame("del", d, TRUE)
<1>1. Walking /\ walk' = Append(Past(d), fr) /\ Top.does = "del"
  BY DEF DelSubdir, Reading
<1>2. fr \in Frame /\ fr.done = {} /\ fr.does = "del"
  BY NewFrameType
<1>3. Past(d)[Len(Past(d))].does = "del" /\ WalkOK(Past(d), Watched)
  BY <1>1, PastProps
<1> HIDE DEF fr
<1>4. WalkOK(walk', Watched)
  BY <1>1, <1>2, <1>3, TopPushed
<1>5. MtxInv'
  BY <1>1, MtxKept DEF DelSubdir
<1> QED BY <1>4, <1>5, WalkOnly DEF DelSubdir, TreeInv, RestTypeOK

LEMMA AddSubdirStep ==
  ASSUME TreeInv, NEW d \in Dirs, AddSubdir(d), UNCHANGED <<fsVars, bounds>>
  PROVE  TreeInv'
<1> DEFINE fr == NewFrame("add", d, TRUE)
<1>1. Walking /\ walk' = Append(Past(d), fr) /\ Top.does = "add" /\ EnterDir(d, TRUE)
  BY DEF AddSubdir, Reading
<1>2. fr \in Frame /\ fr.done = {} /\ fr.does = "add"
  BY NewFrameType
<1>3. Past(d) /= <<>> /\ Past(d)[Len(Past(d))].does = "add" /\ WalkOK(Past(d), Watched)
  BY <1>1, PastProps
<1> HIDE DEF fr
<1>4. WalkOK(Past(d), Watched')
  BY <1>3, AdditionWatches
<1>5. WalkOK(walk', Watched')
  BY <1>1, <1>2, <1>3, <1>4, TopPushed
<1>6. MtxInv'
  BY <1>1, MtxKept DEF AddSubdir
<1>7. RestTypeOK'
  <2>1. dirIndex' \in [Dirs -> DirWatch] /\ sqlQueue' \in Seq(Statement)
    BY <1>1, EnterDirProps DEF TreeInv
  <2>2. todo' \subseteq Dirs
    BY DEF AddSubdir, WatchedDirs, TreeInv, RestTypeOK
  <2> QED BY <2>1, <2>2 DEF AddSubdir, TreeInv, RestTypeOK, FsTypeOK, fsVars, bounds, tables
<1> QED BY <1>5, <1>6, <1>7 DEF TreeInv

LEMMA AddEntryStep ==
  ASSUME TreeInv, NEW f \in Files, AddEntry(f), UNCHANGED <<fsVars, bounds>>
  PROVE  TreeInv'
<1>1. Walking /\ walk' = Past(f) /\ Top.does = "add" /\ WatchFile(f)
  BY DEF AddEntry, Reading
<1>2. Past(f) /= <<>> /\ Past(f)[Len(Past(f))].does = "add" /\ WalkOK(Past(f), Watched)
  BY <1>1, PastProps
<1>3. WalkOK(walk', Watched')
  BY <1>1, <1>2, AdditionWatches
<1>4. MtxInv'
  BY <1>1, MtxKept DEF AddEntry
<1>5. RestTypeOK'
  <2>1. files' \in [Files -> FileWatch] /\ sqlQueue' \in Seq(Statement)
    BY <1>1, WatchFileProps DEF TreeInv
  <2> QED BY <2>1 DEF AddEntry, TreeInv, RestTypeOK, FsTypeOK, fsVars, bounds, tables
<1> QED BY <1>3, <1>4, <1>5 DEF TreeInv

LEMMA DelEntryStep ==
  ASSUME TreeInv, NEW f \in Files, DelEntry(f), UNCHANGED <<fsVars, bounds>>
  PROVE  TreeInv'
<1> DEFINE past == Past(f)
           fr == [past[Len(walk)] EXCEPT !.done = @ \cup {f}]
<1>1. Walking /\ walk' = [past EXCEPT ![Len(walk)] = fr] /\ Top.does = "del" /\ UnwatchFile(f)
  BY DEF DelEntry, Reading
<1>2. past /= <<>> /\ Len(past) = Len(walk) /\ WalkOK(past, Watched)
  BY <1>1, PastProps
<1>3. past[Len(walk)] \in Frame /\ past[Len(walk)].does = "del" /\ past[Len(walk)].done = Top.done
  BY <1>1, <1>2, PastProps
<1>4. fr \in Frame /\ fr.does = "del" /\ fr.done = Top.done \cup {f}
  BY <1>3 DEF Frame
<1>5. /\ files' \in [Files -> FileWatch] /\ sqlQueue' \in Seq(Statement)
      /\ WatchedFiles' = WatchedFiles \ {f} /\ WatchedDirs' = WatchedDirs
  BY <1>1, UnwatchFileProps DEF TreeInv, DelEntry, WatchedDirs
<1>6. Watched' \subseteq Watched /\ f \notin Watched'
  BY <1>5 DEF Watched, WatchedDirs
<1>7. Top.done \cap Watched = {}
  BY <1>1, TopType DEF TreeInv, WalkOK, Top
<1> HIDE DEF past, fr
<1>8. WalkOK(past, Watched')
  BY <1>2, <1>6, LessWatched
<1>9. WalkOK(walk', Watched')
  <2>1. fr.done \cap Watched' = {}
    BY <1>4, <1>6, <1>7
  <2>2. walk' = [past EXCEPT ![Len(past)] = fr]
    BY <1>1, <1>2
  <2>3. fr.does = past[Len(past)].does /\ fr.does /= "add"
    BY <1>2, <1>3, <1>4
  <2> QED BY <1>2, <1>4, <1>8, <2>1, <2>2, <2>3, TopChanges
<1>10. MtxInv'
  BY <1>1, MtxKept DEF DelEntry
<1>11. RestTypeOK'
  BY <1>5 DEF DelEntry, TreeInv, RestTypeOK, FsTypeOK, fsVars, bounds, tables
<1> QED BY <1>9, <1>10, <1>11 DEF TreeInv

\* The frame below, when there is one, takes over what the one that returns has
\* deleted, and the mutex goes when there is none and the walk was a command's.
LEMMA ReturnProps ==
  ASSUME TreeInv, Walking, Return, NEW X, WalkOK(walk, X), up' = up, Top.does = "del" => Top.dir \notin X
  PROVE  /\ WalkOK(walk', X) /\ MtxInv'
         /\ holder' \in {"nobody", "watch", "socket"} /\ doing' \in {"nothing", "walk", "scan"}
<1> DEFINE rest == SubSeq(walk, 1, Len(walk) - 1)
           below == rest[Len(rest)]
           fr == [below EXCEPT !.done = @ \cup Top.done \cup {Top.dir}]
<1>1. /\ walk \in Seq(Frame) /\ walk /= <<>> /\ Len(walk) \in 1..Len(walk)
      /\ Top \in Frame /\ holder /= "nobody" /\ up
  BY TopType
<1>2. WalkOK(rest, X) /\ (rest /= <<>> => below \in Frame /\ below.does = Top.does)
  BY <1>1, TopPopped DEF Top
<1>3. Len(rest) = Len(walk) - 1 /\ rest \in Seq(Frame)
  <2>1. Len(walk) - 1 \in 0..Len(walk)
    BY <1>1
  <2> QED BY <1>1, <2>1, Prefix
<1>4. walk' = IF rest = <<>> \/ Top.does = "add" THEN rest ELSE [rest EXCEPT ![Len(rest)] = fr]
  BY DEF Return
<1>5. Top.done \cap X = {} /\ Top.done \subseteq Files \cup Dirs /\ Top.dir \in Dirs
  BY <1>1 DEF WalkOK, Top, Frame
<1>6. ASSUME rest /= <<>>, Top.does /= "add" PROVE fr \in Frame /\ fr.does = below.does /\ fr.does /= "add" /\ fr.done \cap X = {}
  <2>1. below \in Frame /\ below.does = Top.does /\ Top.dir \notin X
    BY <1>1, <1>2, <1>6 DEF Frame
  <2>2. fr \in Frame /\ fr.does = below.does /\ fr.done = below.done \cup Top.done \cup {Top.dir}
    BY <2>1, <1>5 DEF Frame
  <2>3. Len(rest) \in 1..Len(rest)
    BY <1>3, <1>6
  <2>4. below.done \cap X = {}
    BY <1>2, <2>3 DEF WalkOK
  <2> QED BY <1>5, <1>6, <2>1, <2>2, <2>4
<1> HIDE DEF rest, fr
<1>7. WalkOK(walk', X)
  BY <1>2, <1>4, <1>6, TopChanges
<1>8. rest = <<>> <=> Len(walk) = 1
  BY <1>1, <1>3
<1>9. CASE Len(walk) = 1 /\ doing = "walk"
  <2>1. holder' = "nobody" /\ doing' = "nothing" /\ walk' = <<>>
    BY <1>4, <1>8, <1>9 DEF Return, Unlock
  <2> QED BY <1>1, <1>7, <2>1 DEF MtxInv
<1>10. CASE ~(Len(walk) = 1 /\ doing = "walk")
  <2>1. UNCHANGED <<holder, doing>>
    BY <1>10 DEF Return
  <2> QED BY <1>7, <2>1, MtxKept DEF TreeInv, RestTypeOK
<1> QED BY <1>9, <1>10

LEMMA CloseAddedStep ==
  ASSUME TreeInv, CloseAdded, UNCHANGED <<fsVars, bounds>>
  PROVE  TreeInv'
<1>1. Walking /\ Return /\ up' = up /\ Top.does = "add" /\ WalkOK(walk, Watched)
  BY DEF CloseAdded, TreeInv
<1>2. /\ WalkOK(walk', Watched) /\ MtxInv'
      /\ holder' \in {"nobody", "watch", "socket"} /\ doing' \in {"nothing", "walk", "scan"}
  BY <1>1, ReturnProps
<1> QED BY <1>2, WalkOnly DEF CloseAdded, TreeInv, RestTypeOK

LEMMA CloseDeletedStep ==
  ASSUME TreeInv, CloseDeleted, UNCHANGED <<fsVars, bounds>>
  PROVE  TreeInv'
<1>1. Walking /\ Return /\ up' = up /\ LeaveDir(Top.dir) /\ WalkOK(walk, Watched) /\ files' = files
  BY DEF CloseDeleted, TreeInv
<1>2. Top.dir \in Dirs
  BY <1>1, TopType DEF Frame
<1>3. /\ dirIndex' \in [Dirs -> DirWatch] /\ sqlQueue' \in Seq(Statement)
      /\ WatchedDirs' = WatchedDirs \ {Top.dir}
  BY <1>1, <1>2, LeaveDirProps DEF TreeInv
<1>4. Watched' \subseteq Watched /\ Top.dir \notin Watched'
  BY <1>1, <1>2, <1>3 DEF Watched, WatchedFiles
<1>5. WalkOK(walk, Watched')
  BY <1>1, <1>4, LessWatched
<1>6. /\ WalkOK(walk', Watched') /\ MtxInv'
      /\ holder' \in {"nobody", "watch", "socket"} /\ doing' \in {"nothing", "walk", "scan"}
  BY <1>1, <1>4, <1>5, ReturnProps
<1>7. RestTypeOK'
  BY <1>3, <1>6 DEF CloseDeleted, TreeInv, RestTypeOK, FsTypeOK, fsVars, bounds, tables
<1> QED BY <1>6, <1>7 DEF TreeInv

LEMMA ThrowInSocketStep ==
  ASSUME TreeInv, ThrowInSocket, UNCHANGED <<fsVars, bounds>>
  PROVE  TreeInv'
<1>1. WalkOK(walk', Watched)
  BY NoWalk DEF ThrowInSocket
<1>2. up
  BY TopType DEF ThrowInSocket
<1>3. MtxInv'
  BY <1>2 DEF ThrowInSocket, Unlock, MtxInv
<1> QED BY <1>1, <1>3, WalkOnly DEF ThrowInSocket, Unlock, TreeInv, RestTypeOK

\* Whatever becomes of the tables meanwhile.
LEMMA GoDownStep ==
  ASSUME TreeInv, GoDown, UNCHANGED fsVars, UNCHANGED <<commands, makes>>, crashes' \in 0..MaxCrashes,
         dirRows' \in [Dirs -> DirWatch], fileRows' \in [Files -> FileWatch]
  PROVE  TreeInv'
<1>1. WalkOK(walk', Watched')
  BY NoWalk DEF GoDown
<1>2. MtxInv'
  BY DEF GoDown, Unlock, MtxInv
<1>3. RestTypeOK'
  <2>1. dirIndex' \in [Dirs -> DirWatch] /\ files' \in [Files -> FileWatch]
    BY DEF GoDown, DirWatch, FileWatch
  <2>2. sqlQueue' = <<>> /\ <<>> \in Seq(Statement)
    BY DEF GoDown
  <2> QED BY <2>1, <2>2 DEF GoDown, Unlock, TreeInv, RestTypeOK, FsTypeOK, fsVars
<1> QED BY <1>1, <1>2, <1>3 DEF TreeInv

LEMMA ThrowInWatchStep ==
  ASSUME TreeInv, ThrowInWatch, UNCHANGED <<fsVars, bounds>>
  PROVE  TreeInv'
BY GoDownStep DEF ThrowInWatch, bounds, tables, TreeInv, RestTypeOK

LEMMA CrashStep ==
  ASSUME TreeInv, Crash, UNCHANGED <<fsVars, commands, makes>>
  PROVE  TreeInv'
<1>1. dirRows' \in [Dirs -> DirWatch] /\ fileRows' \in [Files -> FileWatch]
  <2>1. CASE UNCHANGED tables
    BY <2>1 DEF tables, TreeInv, RestTypeOK
  <2>2. ASSUME NEW n \in 1..Len(sqlQueue), Executed(n)
        PROVE  dirRows' \in [Dirs -> DirWatch] /\ fileRows' \in [Files -> FileWatch]
    <3>1. Len(sqlQueue) \in Nat
      BY DEF TreeInv, RestTypeOK
    <3>2. n \in 0..Len(sqlQueue)
      BY <3>1
    <3> QED BY <2>2, <3>2, ExecutedTypes DEF TreeInv
  <2> QED BY <2>1, <2>2 DEF Crash
<1>2. crashes' \in 0..MaxCrashes
  BY DEF Crash, TreeInv, RestTypeOK
<1> QED BY <1>1, <1>2, GoDownStep DEF Crash

\* Nobody walks while the mutex is free.
LEMMA FreeProps ==
  ASSUME TreeInv, MtxFree
  PROVE  walk = <<>> /\ up /\ doing /= "scan"
BY DEF TreeInv, MtxInv, MtxFree

LEMMA CommandStep ==
  ASSUME TreeInv, Command, UNCHANGED <<fsVars, makes, crashes>>
  PROVE  TreeInv'
<1>0. walk = <<>> /\ up /\ doing /= "scan"
  BY FreeProps DEF Command
<1>1. commands' \in 0..MaxCommands
  BY DEF Command, TreeInv, RestTypeOK
<1>2. PICK n \in Files \cup Dirs, recursive \in BOOLEAN : AddCommand(n, recursive) \/ DelCommand(n, recursive)
  BY DEF Command
<1>3. ASSUME NEW does \in {"add", "del"}, n \in Dirs, walk' = <<NewFrame(does, n, recursive)>>,
             Lock("socket", "walk"), files' = files, dirIndex' \in [Dirs -> DirWatch], sqlQueue' \in Seq(Statement)
      PROVE  TreeInv'
  <2>1. NewFrame(does, n, recursive) \in Frame /\ NewFrame(does, n, recursive).done = {}
    BY <1>3, NewFrameType
  <2>2. WalkOK(walk', Watched')
    BY <1>3, <2>1, WalkStarts
  <2>3. MtxInv'
    BY <1>0, <1>3 DEF MtxInv, Lock, Command
  <2>4. RestTypeOK'
    BY <1>1, <1>3 DEF Lock, Command, TreeInv, RestTypeOK, FsTypeOK, fsVars, tables
  <2> QED BY <2>2, <2>3, <2>4 DEF TreeInv
<1>4. ASSUME files' \in [Files -> FileWatch], sqlQueue' \in Seq(Statement), UNCHANGED <<dirIndex, walk, holder, doing>>
      PROVE  TreeInv'
  <2>1. WalkOK(walk', Watched')
    BY <1>0, <1>4, NoWalk
  <2>2. MtxInv'
    BY <1>0, <1>4 DEF MtxInv, Command, TreeInv
  <2>3. RestTypeOK'
    BY <1>1, <1>4 DEF Command, TreeInv, RestTypeOK, FsTypeOK, fsVars, tables
  <2> QED BY <2>1, <2>2, <2>3 DEF TreeInv
<1>5. CASE AddCommand(n, recursive)
  <2>1. CASE n \in Dirs
    <3>1. dirIndex' \in [Dirs -> DirWatch] /\ sqlQueue' \in Seq(Statement)
      BY <1>5, <2>1, EnterDirProps DEF AddCommand, TreeInv
    <3> QED BY <1>3, <1>5, <2>1, <3>1 DEF AddCommand
  <2>2. CASE n \notin Dirs
    BY <1>4, <1>5, <2>2, WatchFileProps DEF AddCommand, TreeInv
  <2> QED BY <2>1, <2>2
<1>6. CASE DelCommand(n, recursive)
  <2>1. CASE n \in Dirs
    BY <1>3, <1>6, <2>1 DEF DelCommand, indexes, TreeInv, RestTypeOK
  <2>2. CASE n \notin Dirs
    BY <1>4, <1>6, <2>2, UnwatchFileProps DEF DelCommand, TreeInv
  <2> QED BY <2>1, <2>2
<1> QED BY <1>2, <1>5, <1>6

LEMMA ScanStartStep ==
  ASSUME TreeInv, ScanStart, UNCHANGED <<fsVars, bounds>>
  PROVE  TreeInv'
<1>1. walk = <<>> /\ up
  BY FreeProps DEF ScanStart
<1>2. WalkOK(walk', Watched')
  BY <1>1, NoWalk DEF ScanStart
<1>3. MtxInv'
  BY <1>1 DEF ScanStart, Lock, MtxInv
<1>4. files' \in [Files -> FileWatch] /\ sqlQueue' \in Seq(Statement)
  BY ScanFilesProps DEF ScanStart, TreeInv
<1>5. RestTypeOK'
  BY <1>4 DEF ScanStart, Lock, WatchedDirs, TreeInv, RestTypeOK, FsTypeOK, fsVars, bounds, tables
<1> QED BY <1>2, <1>3, <1>5 DEF TreeInv

\* The scan's loop has the mutex, and runs.
LEMMA LoopingProps ==
  ASSUME TreeInv, Looping
  PROVE  holder /= "nobody" /\ up /\ walk = <<>>
BY DEF TreeInv, MtxInv, Looping, Walking

LEMMA ScanDirStep ==
  ASSUME TreeInv, NEW d \in Dirs, ScanDir(d), UNCHANGED <<fsVars, bounds>>
  PROVE  TreeInv'
<1>1. NewFrame("add", d, dirIndex[d] = "recursive") \in Frame /\ NewFrame("add", d, dirIndex[d] = "recursive").done = {}
  BY NewFrameType
<1>2. WalkOK(walk', Watched)
  BY <1>1, WalkStarts DEF ScanDir
<1>3. MtxInv'
  BY LoopingProps DEF ScanDir, MtxInv
<1> QED BY <1>2, <1>3, WalkOnly DEF ScanDir, TreeInv, RestTypeOK

LEMMA ScanVanishedStep ==
  ASSUME TreeInv, NEW d \in Dirs, ScanVanished(d), UNCHANGED <<fsVars, bounds>>
  PROVE  TreeInv'
<1>1. walk = <<>> /\ up
  BY LoopingProps DEF ScanVanished
<1>2. WalkOK(walk', Watched')
  BY <1>1, NoWalk DEF ScanVanished
<1>3. MtxInv'
  BY <1>1 DEF ScanVanished, Unlock, MtxInv
<1>4. dirIndex' \in [Dirs -> DirWatch] /\ sqlQueue' \in Seq(Statement)
  BY LeaveDirProps DEF ScanVanished, TreeInv
<1>5. RestTypeOK'
  BY <1>4 DEF ScanVanished, Unlock, TreeInv, RestTypeOK, FsTypeOK, fsVars, bounds, tables
<1> QED BY <1>2, <1>3, <1>5 DEF TreeInv

LEMMA ScanEndStep ==
  ASSUME TreeInv, ScanEnd, UNCHANGED <<fsVars, bounds>>
  PROVE  TreeInv'
<1>1. walk = <<>> /\ up
  BY LoopingProps DEF ScanEnd
<1>2. WalkOK(walk', Watched)
  BY <1>1, NoWalk DEF ScanEnd
<1>3. MtxInv'
  BY <1>1 DEF ScanEnd, Unlock, MtxInv
<1> QED BY <1>2, <1>3, WalkOnly DEF ScanEnd, Unlock, TreeInv, RestTypeOK

LEMMA FlushStep ==
  ASSUME TreeInv, Flush, UNCHANGED <<fsVars, bounds>>
  PROVE  TreeInv'
<1>1. Len(sqlQueue) \in 0..Len(sqlQueue) /\ <<>> \in Seq(Statement)
  BY DEF TreeInv, RestTypeOK
<1>2. dirRows' \in [Dirs -> DirWatch] /\ fileRows' \in [Files -> FileWatch]
  BY <1>1, ExecutedTypes DEF Flush, TreeInv
<1>3. RestTypeOK'
  BY <1>1, <1>2 DEF Flush, TreeInv, RestTypeOK, FsTypeOK, fsVars, bounds, indexes, lockVars
<1>4. MtxInv' /\ WalkOK(walk', Watched')
  BY DEF Flush, TreeInv, MtxInv, Watched, WatchedDirs, WatchedFiles, indexes, lockVars
<1> QED BY <1>3, <1>4 DEF TreeInv

LEMMA StartStep ==
  ASSUME TreeInv, Start, UNCHANGED <<fsVars, bounds>>
  PROVE  TreeInv'
<1>1. walk = <<>> /\ holder = "nobody" /\ doing /= "scan"
  BY DEF TreeInv, MtxInv, Start
<1>2. WalkOK(walk', Watched')
  BY <1>1, NoWalk DEF Start, lockVars
<1>3. MtxInv'
  BY <1>1 DEF Start, lockVars, MtxInv
<1>4. RestTypeOK'
  BY DEF Start, TreeInv, RestTypeOK, FsTypeOK, fsVars, bounds, tables, lockVars
<1> QED BY <1>2, <1>3, <1>4 DEF TreeInv

LEMMA OtherProgramsStep ==
  ASSUME TreeInv, OtherPrograms
  PROVE  TreeInv'
<1>1. disk \in [Files -> FileState] /\ dirs \subseteq Dirs /\ makes \in 0..MaxMakes
  BY DEF TreeInv, RestTypeOK, FsTypeOK
<1>2. MtxInv' /\ WalkOK(walk', Watched')
  BY DEF OtherPrograms, TreeInv, MtxInv, Watched, WatchedDirs, WatchedFiles, indexes, lockVars
<1>3. ASSUME disk' \in [Files -> FileState], dirs' \subseteq Dirs, makes' \in 0..MaxMakes
      PROVE  TreeInv'
  BY <1>2, <1>3 DEF OtherPrograms, TreeInv, RestTypeOK, FsTypeOK, indexes, tables, lockVars
<1>4. ASSUME NEW f \in Files, WriteFile(f), UNCHANGED makes PROVE TreeInv'
  <2>1. disk[f].mod \in Nat /\ disk[f].data \in Nat
    BY <1>1 DEF FileState
  <2>2. PICK m \in {disk[f].mod, disk[f].mod + 1} :
          disk' = [disk EXCEPT ![f] = [here |-> TRUE, mod |-> m, data |-> disk[f].data + 1]]
    BY <1>4 DEF WriteFile
  <2>3. [here |-> TRUE, mod |-> m, data |-> disk[f].data + 1] \in FileState
    BY <2>1 DEF FileState
  <2> QED BY <1>1, <1>3, <1>4, <2>2, <2>3 DEF WriteFile
<1>5. ASSUME NEW f \in Files, RemoveFile(f), UNCHANGED makes PROVE TreeInv'
  <2>1. [disk[f] EXCEPT !.here = FALSE] \in FileState
    BY <1>1 DEF FileState
  <2> QED BY <1>1, <1>3, <1>5, <2>1 DEF RemoveFile
<1>6. ASSUME NEW d \in Dirs, RemoveDir(d), UNCHANGED makes PROVE TreeInv'
  BY <1>1, <1>3, <1>6 DEF RemoveDir
<1>7. ASSUME NEW d \in Dirs, makes < MaxMakes, makes' = makes + 1, MakeDir(d) PROVE TreeInv'
  <2>1. makes' \in 0..MaxMakes
    BY <1>1, <1>7
  <2> QED BY <1>1, <1>3, <1>7, <2>1 DEF MakeDir
<1> QED BY <1>4, <1>5, <1>6, <1>7 DEF OtherPrograms

LEMMA TreeInvInit ==
  ASSUME TreeInit
  PROVE  TreeInv
<1>1. FsTypeOK
  <2>1. PICK here \in SUBSET Files :
          disk = [f \in Files |-> [here |-> f \in here, mod |-> IF f \in here THEN 1 ELSE 0,
                                   data |-> IF f \in here THEN 1 ELSE 0]]
    BY DEF TreeInit, FsInit
  <2>2. ASSUME NEW f \in Files
        PROVE  [here |-> f \in here, mod |-> IF f \in here THEN 1 ELSE 0,
                data |-> IF f \in here THEN 1 ELSE 0] \in FileState
    <3>1. (f \in here) \in BOOLEAN /\ (IF f \in here THEN 1 ELSE 0) \in Nat
      OBVIOUS
    <3> QED BY <3>1 DEF FileState
  <2> QED BY <2>1, <2>2 DEF FsTypeOK, TreeInit, FsInit
<1>2. <<>> \in Seq(Statement) /\ WalkOK(walk, Watched)
  BY NoWalk DEF TreeInit, Idle
<1> QED BY <1>1, <1>2 DEF TreeInit, Idle, TreeInv, RestTypeOK, MtxInv, DirWatch, FileWatch

LEMMA TreeInvStep ==
  ASSUME TreeInv, [TreeNext]_treeVars
  PROVE  TreeInv'
<1>1. CASE UNCHANGED treeVars
  BY <1>1 DEF treeVars, fsVars, indexes, tables, lockVars, bounds, TreeInv, RestTypeOK, FsTypeOK, MtxInv, Watched,
              WatchedDirs, WatchedFiles
<1>2. ASSUME WalkStep, UNCHANGED <<fsVars, bounds>> PROVE TreeInv'
  BY <1>2, OpenDirStep, SkipEntryStep, AddSubdirStep, DelSubdirStep, AddEntryStep, DelEntryStep, CloseAddedStep,
     CloseDeletedStep, ThrowInSocketStep, ThrowInWatchStep, Zenon DEF WalkStep
<1>3. ASSUME ScanStep, UNCHANGED <<fsVars, bounds>> PROVE TreeInv'
  BY <1>3, ScanDirStep, ScanVanishedStep, ScanEndStep, Zenon DEF ScanStep
<1> QED BY <1>1, <1>2, <1>3, ScanStartStep, FlushStep, StartStep, CommandStep, CrashStep, OtherProgramsStep, Zenon
        DEF TreeNext, HolderStep

\* The directories, the files, their rows, the statements queued and the frames
\* of a walk always have their types.
THEOREM TreeTypesHold == TreeSpec => []TreeTypeOK
<1>1. TreeSpec => []TreeInv
  BY TreeInvInit, TreeInvStep, PTL DEF TreeSpec
<1>2. TreeInv => TreeTypeOK
  BY TreeInvGives
<1> QED BY <1>1, <1>2, PTL

\* What delDirWatch has been through, at any depth, is in neither index until it
\* returns, whatever other programs do to the tree meanwhile.
THEOREM DeletedStaysOut == TreeSpec => []DeletedSoFar
<1>1. TreeSpec => []TreeInv
  BY TreeInvInit, TreeInvStep, PTL DEF TreeSpec
<1>2. TreeInv => DeletedSoFar
  BY TreeInvGives
<1> QED BY <1>1, <1>2, PTL

-------------------------------------------------------------------------------
\* The statements queued take the database to the index.

\* The tables t are what the index D, F would be restored from.
Stored(t, D, F) ==
  /\ t[1] = D
  /\ \A f \in Files : /\ F[f] = "unwatched" <=> t[2][f] = "unwatched"
                      /\ F[f] = "gone" => t[2][f] = "gone"

Replayed == After(tables, sqlQueue)

LEMMA ReplayedType ==
  ASSUME TreeInv
  PROVE  /\ Replayed \in Tables
         /\ Replayed[1] \in [Dirs -> DirWatch] /\ Replayed[2] \in [Files -> FileWatch]
<1>1. tables \in Tables /\ sqlQueue \in Seq(Statement)
  BY DEF TreeInv, RestTypeOK, Tables, tables
<1>2. Replayed \in Tables
  BY <1>1, AfterType DEF Replayed
<1> QED BY <1>2 DEF Tables

\* A step that queues nothing, executes nothing and leaves the index.
LEMMA NothingQueued ==
  ASSUME ReplayGivesIndex, UNCHANGED <<indexes, tables, sqlQueue>>, up' => up
  PROVE  ReplayGivesIndex'
<1>1. After(tables, sqlQueue)' = After(tables, sqlQueue)
  BY DEF tables
<1> QED BY <1>1 DEF ReplayGivesIndex, indexes

\* A step that queues a statement which does to the tables what the step does to
\* the index.
LEMMA OneQueued ==
  ASSUME TreeInv, NEW s \in Statement, QueueSql(s), UNCHANGED tables,
         Stored(Execute(Replayed, s), dirIndex', files')
  PROVE  ReplayGivesIndex'
<1>1. sqlQueue \in Seq(Statement) /\ sqlQueue' = Append(sqlQueue, s) /\ tables' = tables
  BY DEF TreeInv, RestTypeOK, QueueSql
<1>2. After(tables, sqlQueue)' = Execute(Replayed, s)
  BY <1>1, AfterAppend DEF Replayed
<1> QED BY <1>2 DEF ReplayGivesIndex, Stored

LEMMA StoredNow ==
  ASSUME ReplayGivesIndex, up
  PROVE  Stored(Replayed, dirIndex, files)
BY DEF ReplayGivesIndex, Stored, Replayed

LEMMA EnterDirReplay ==
  ASSUME TreeInv, ReplayGivesIndex, up, NEW d \in Dirs, NEW recursive, EnterDir(d, recursive), UNCHANGED <<tables, files>>
  PROVE  ReplayGivesIndex'
<1> DEFINE how == IF recursive THEN "recursive" ELSE "flat"
           s == [do |-> "insert dir", path |-> d, as |-> how]
<1>1. how \in {"flat", "recursive"}
  OBVIOUS
<1>2. dirIndex[d] = "unwatched" /\ dirIndex' = [dirIndex EXCEPT ![d] = how] /\ QueueSql(s)
  BY DEF EnterDir
<1> HIDE DEF how
<1>3. s \in Statement
  BY <1>1, StatementTypes
<1>4. Stored(Replayed, dirIndex, files)
  BY StoredNow
<1>5. s.do = "insert dir" /\ s.path = d /\ s.as = how
  OBVIOUS
<1> HIDE DEF s
<1>6. ExecuteDir(Replayed[1], s) = dirIndex' /\ ExecuteFile(Replayed[2], s) = Replayed[2]
  BY <1>2, <1>4, <1>5 DEF ExecuteDir, ExecuteFile, Stored
<1>7. Stored(Execute(Replayed, s), dirIndex', files')
  BY <1>4, <1>6 DEF Execute, Stored
<1> QED BY <1>2, <1>3, <1>7, OneQueued

LEMMA LeaveDirReplay ==
  ASSUME TreeInv, ReplayGivesIndex, up, NEW d \in Dirs, LeaveDir(d), UNCHANGED <<tables, files>>
  PROVE  ReplayGivesIndex'
<1> DEFINE s == [do |-> "delete dir", path |-> d]
<1>1. dirIndex' = [dirIndex EXCEPT ![d] = "unwatched"] /\ QueueSql(s)
  BY DEF LeaveDir
<1>2. s \in Statement
  BY StatementTypes
<1>3. Stored(Replayed, dirIndex, files)
  BY StoredNow
<1>4. s.do = "delete dir" /\ s.path = d
  OBVIOUS
<1> HIDE DEF s
<1>5. ExecuteDir(Replayed[1], s) = dirIndex' /\ ExecuteFile(Replayed[2], s) = Replayed[2]
  BY <1>1, <1>3, <1>4 DEF ExecuteDir, ExecuteFile, Stored
<1>6. Stored(Execute(Replayed, s), dirIndex', files')
  BY <1>3, <1>5 DEF Execute, Stored
<1> QED BY <1>1, <1>2, <1>6, OneQueued

\* A statement about a file that does to its rows what the step does to its watch.
LEMMA FileReplay ==
  ASSUME TreeInv, ReplayGivesIndex, up, NEW f \in Files, NEW s \in Statement, QueueSql(s), UNCHANGED <<tables, dirIndex>>,
         NEW how \in FileWatch, files' = [files EXCEPT ![f] = how],
         s.do \notin {"insert dir", "delete dir"}, ExecuteFile(Replayed[2], s) = [Replayed[2] EXCEPT ![f] = how]
  PROVE  ReplayGivesIndex'
<1>1. Stored(Replayed, dirIndex, files) /\ Replayed[2] \in [Files -> FileWatch] /\ files \in [Files -> FileWatch]
  BY StoredNow, ReplayedType DEF TreeInv, RestTypeOK
<1>2. ExecuteDir(Replayed[1], s) = Replayed[1]
  BY DEF ExecuteDir
<1>3. Stored(Execute(Replayed, s), dirIndex', files')
  BY <1>1, <1>2 DEF Execute, Stored
<1> QED BY <1>3, OneQueued

LEMMA WatchFileReplay ==
  ASSUME TreeInv, ReplayGivesIndex, up, NEW f \in Files, WatchFile(f), UNCHANGED <<tables, dirIndex>>
  PROVE  ReplayGivesIndex'
<1> DEFINE s == [do |-> "insert file", path |-> f]
<1>1. files' = [files EXCEPT ![f] = "here"] /\ QueueSql(s) /\ "here" \in FileWatch
  BY DEF WatchFile, FileWatch
<1>2. s \in Statement /\ s.do = "insert file" /\ s.path = f
  BY StatementTypes
<1> HIDE DEF s
<1>3. ExecuteFile(Replayed[2], s) = [Replayed[2] EXCEPT ![f] = "here"]
  BY <1>2 DEF ExecuteFile
<1> QED BY <1>1, <1>2, <1>3, FileReplay

LEMMA UnwatchFileReplay ==
  ASSUME TreeInv, ReplayGivesIndex, up, NEW f \in Files, UnwatchFile(f), UNCHANGED <<tables, dirIndex>>
  PROVE  ReplayGivesIndex'
<1> DEFINE s == [do |-> "delete file", path |-> f]
<1>1. files' = [files EXCEPT ![f] = "unwatched"] /\ QueueSql(s) /\ "unwatched" \in FileWatch
  BY DEF UnwatchFile, FileWatch
<1>2. s \in Statement /\ s.do = "delete file" /\ s.path = f
  BY StatementTypes
<1> HIDE DEF s
<1>3. ExecuteFile(Replayed[2], s) = [Replayed[2] EXCEPT ![f] = "unwatched"]
  BY <1>2 DEF ExecuteFile
<1> QED BY <1>1, <1>2, <1>3, FileReplay

LEMMA ScanFilesReplay ==
  ASSUME TreeInv, ReplayGivesIndex, up, ScanFiles, UNCHANGED <<tables, dirIndex>>
  PROVE  ReplayGivesIndex'
<1>1. CASE UNCHANGED <<files, sqlQueue>>
  BY <1>1, NothingQueued DEF indexes
<1>2. ASSUME NEW f \in Files, files[f] = "here", files' = [files EXCEPT ![f] = "gone"],
             QueueSql([do |-> "gone", path |-> f])
      PROVE  ReplayGivesIndex'
  <2> DEFINE s == [do |-> "gone", path |-> f]
  <2>1. s \in Statement /\ s.do = "gone" /\ s.path = f /\ QueueSql(s) /\ "gone" \in FileWatch
    BY <1>2, StatementTypes DEF FileWatch
  <2> HIDE DEF s
  <2>2. Replayed[2][f] /= "unwatched"
    BY <1>2, StoredNow DEF Stored
  <2>3. ExecuteFile(Replayed[2], s) = [Replayed[2] EXCEPT ![f] = "gone"]
    BY <2>1, <2>2 DEF ExecuteFile
  <2> QED BY <1>2, <2>1, <2>3, FileReplay
<1> QED BY <1>1, <1>2 DEF ScanFiles

LEMMA FlushReplay ==
  ASSUME TreeInv, ReplayGivesIndex, Flush
  PROVE  ReplayGivesIndex'
<1>1. SubSeq(sqlQueue, 1, Len(sqlQueue)) = sqlQueue
  BY SubSeqFull DEF TreeInv, RestTypeOK
<1>2. tables' = <<Replayed[1], Replayed[2]>>
  BY <1>1 DEF Flush, Executed, Replayed, tables
<1>3. After(tables, sqlQueue)' = tables'
  BY AfterNone DEF Flush
<1>4. Stored(Replayed, dirIndex, files)
  BY StoredNow DEF Flush, MtxFree
<1> QED BY <1>2, <1>3, <1>4 DEF ReplayGivesIndex, Stored, Flush, indexes

\* The index is restored when nothing is queued.
LEMMA StartReplay ==
  ASSUME TreeInv, Start
  PROVE  ReplayGivesIndex'
<1>1. sqlQueue' = <<>> /\ tables' = tables
  BY DEF TreeInv, MtxInv, Start
<1>2. After(tables, sqlQueue)' = tables
  BY <1>1, AfterNone
<1>3. tables[1] = dirRows /\ tables[2] = fileRows
  BY DEF tables
<1>4. dirIndex' = dirRows
  BY DEF Start
<1>5. ASSUME NEW f \in Files
      PROVE  /\ files'[f] = "unwatched" <=> fileRows[f] = "unwatched"
             /\ files'[f] = "gone" => fileRows[f] = "gone"
  BY DEF Start
<1> HIDE DEF tables
<1> QED BY <1>2, <1>3, <1>4, <1>5 DEF ReplayGivesIndex

\* Who walks, or runs the scan's loop, runs.
LEMMA HolderReplay ==
  ASSUME TreeInv, ReplayGivesIndex, HolderStep
  PROVE  ReplayGivesIndex'
<1>1. ASSUME NEW d \in Dirs, AddSubdir(d) PROVE ReplayGivesIndex'
  BY <1>1, TopType, EnterDirReplay DEF AddSubdir, Reading
<1>2. ASSUME NEW f \in Files, AddEntry(f) PROVE ReplayGivesIndex'
  BY <1>2, TopType, WatchFileReplay DEF AddEntry, Reading
<1>3. ASSUME NEW f \in Files, DelEntry(f) PROVE ReplayGivesIndex'
  BY <1>3, TopType, UnwatchFileReplay DEF DelEntry, Reading
<1>4. CASE CloseDeleted
  <2>1. Top.dir \in Dirs /\ up
    BY <1>4, TopType DEF CloseDeleted, Frame
  <2> QED BY <1>4, <2>1, LeaveDirReplay DEF CloseDeleted
<1>5. ASSUME NEW d \in Dirs, ScanVanished(d) PROVE ReplayGivesIndex'
  BY <1>5, LoopingProps, LeaveDirReplay DEF ScanVanished
<1>6. CASE ThrowInWatch
  BY <1>6 DEF ThrowInWatch, GoDown, ReplayGivesIndex
<1>7. ASSUME UNCHANGED <<indexes, tables, sqlQueue, up>> PROVE ReplayGivesIndex'
  BY <1>7, NothingQueued
<1>8. CASE OpenDir \/ CloseAdded \/ ThrowInSocket \/ ScanEnd
  BY <1>7, <1>8 DEF OpenDir, CloseAdded, ThrowInSocket, ScanEnd
<1>9. ASSUME NEW n, SkipEntry(n) \/ DelSubdir(n) \/ ScanDir(n) PROVE ReplayGivesIndex'
  BY <1>7, <1>9 DEF SkipEntry, DelSubdir, ScanDir
<1> QED BY <1>1, <1>2, <1>3, <1>4, <1>5, <1>6, <1>8, <1>9, Zenon DEF HolderStep, WalkStep, ScanStep

LEMMA CommandReplay ==
  ASSUME TreeInv, ReplayGivesIndex, Command
  PROVE  ReplayGivesIndex'
<1>1. PICK n \in Files \cup Dirs, recursive \in BOOLEAN : AddCommand(n, recursive) \/ DelCommand(n, recursive)
  BY DEF Command
<1>2. up /\ UNCHANGED <<tables, up>>
  BY DEF Command, MtxFree
<1>3. CASE AddCommand(n, recursive) /\ n \in Dirs
  BY <1>2, <1>3, EnterDirReplay DEF AddCommand
<1>4. CASE AddCommand(n, recursive) /\ n \notin Dirs
  BY <1>2, <1>4, WatchFileReplay DEF AddCommand
<1>5. CASE DelCommand(n, recursive) /\ n \in Dirs
  BY <1>2, <1>5, NothingQueued DEF DelCommand
<1>6. CASE DelCommand(n, recursive) /\ n \notin Dirs
  BY <1>2, <1>6, UnwatchFileReplay DEF DelCommand
<1> QED BY <1>1, <1>3, <1>4, <1>5, <1>6

LEMMA ReplayStep ==
  ASSUME TreeInv, ReplayGivesIndex, [TreeNext]_treeVars
  PROVE  ReplayGivesIndex'
<1>1. ASSUME UNCHANGED <<indexes, tables, sqlQueue, up>> PROVE ReplayGivesIndex'
  BY <1>1, NothingQueued
<1>2. CASE UNCHANGED treeVars
  BY <1>1, <1>2 DEF treeVars
<1>3. CASE OtherPrograms
  BY <1>1, <1>3 DEF OtherPrograms
<1>4. CASE ScanStart
  BY <1>4, ScanFilesReplay DEF ScanStart, MtxFree
<1>5. CASE Crash
  BY <1>5 DEF Crash, GoDown, ReplayGivesIndex
<1> QED BY <1>2, <1>3, <1>4, <1>5, HolderReplay, CommandReplay, FlushReplay, StartReplay, Zenon DEF TreeNext

LEMMA ReplayInit ==
  ASSUME TreeInit
  PROVE  ReplayGivesIndex
<1>1. After(tables, sqlQueue) = tables
  BY AfterNone DEF TreeInit
<1> QED BY <1>1 DEF ReplayGivesIndex, tables, TreeInit

\* While the daemon runs, executing the statements queued would take the
\* database to the index, whatever has interrupted the walks before.
THEOREM TreeReplays == TreeSpec => []ReplayGivesIndex
<1>1. TreeInit => TreeInv /\ ReplayGivesIndex
  BY TreeInvInit, ReplayInit
<1>2. TreeInv /\ ReplayGivesIndex /\ [TreeNext]_treeVars => (TreeInv /\ ReplayGivesIndex)'
  BY TreeInvStep, ReplayStep
<1> QED BY <1>1, <1>2, PTL DEF TreeSpec

===============================================================================
