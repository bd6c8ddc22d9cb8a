--------------------------- MODULE DaemonProofs ---------------------------
(***************************************************************************)
(* Proofs about Daemon: the reverse index is the inverse of the index, no  *)
(* tracked name is queued for deletion, what the index says is in the      *)
(* bucket is there, and the index with the database behind it is a         *)
(* WriteBehind.                                                            *)
(*                                                                         *)
(* All rest on a name standing for one version only (NamedOnce), in the    *)
(* index, in the rows and in the statements between them.  All but the     *)
(* first also need that a name in use was drawn before (UsedAreIssued), so *)
(* that no new version takes it, and that nothing goes on while the index  *)
(* is restored (RestoreIsAlone), which is where ~EarlyCommands is needed.  *)
(*                                                                         *)
(* The refinement goes kind of step by kind of step (BehindSteps): what is *)
(* pending is picked out of the statements, so what Append, Tail and one   *)
(* more row do to what is picked is proved first (PickedMore, PickedFewer, *)
(* NamesInAppend).                                                         *)
(***************************************************************************)
EXTENDS DaemonTypeProofs, FiniteSetTheorems

USE DaemonAssumption, FileIndexAssumption

-------------------------------------------------------------------------------
(* Every name stands for one version: it occurs once in the index, once in   *)
(* the rows, and once in the statements still to be executed.                *)

Done == IF section.at = "flush" THEN section.done ELSE 0
Inserts == {i \in 1..Len(sqlQueue) : i > Done /\ sqlQueue[i].do = "insert"}

IndexOnce ==
  \A p, q \in Files : \A i \in 1..Len(index[p]), j \in 1..Len(index[q]) :
    index[p][i].name = index[q][j].name => p = q /\ i = j

RowsOnce == \A i, j \in 1..Len(rows) : i /= j => rows[i].name /= rows[j].name

InsertsOnce ==
  /\ \A i, j \in Inserts : i /= j => sqlQueue[i].name /= sqlQueue[j].name
  /\ \A i \in Inserts, j \in 1..Len(rows) : sqlQueue[i].name /= rows[j].name

\* What restoreFileIdx has still to read is not in the index yet.
UnreadAreNew ==
  restoring =>
    \A i \in 1..Len(rows), p \in Files : \A j \in 1..Len(index[p]) :
      i > restored => rows[i].name /= index[p][j].name

AllIssued ==
  /\ \A p \in Files : \A i \in 1..Len(index[p]) : index[p][i].name <= issued
  /\ \A i \in 1..Len(rows) : rows[i].name <= issued
  /\ \A i \in Inserts : sqlQueue[i].name <= issued

NamedOnce == IndexOnce /\ RowsOnce /\ InsertsOnce /\ UnreadAreNew /\ AllIssued /\ HashIndexAgrees

\* Nothing is named at the start.
LEMMA NamedInit == DaemonInit => NamedOnce
<1> SUFFICES ASSUME DaemonInit PROVE NamedOnce
  OBVIOUS
<1>1. /\ index = [p \in Files |-> <<>>] /\ hashIndex = [n \in Names |-> NoPath]
      /\ sqlQueue = <<>> /\ rows = <<>> /\ section = Free
  BY DEF DaemonInit, IndexInit
<1>2. 1..Len(<<>>) = {}
  OBVIOUS
<1>3. Inserts = {} /\ 1..Len(rows) = {} /\ \A p \in Files : 1..Len(index[p]) = {}
  BY <1>1, <1>2 DEF Inserts
<1>4. \A n \in Names, p \in Files : hashIndex[n] /= p
  BY <1>1
<1> QED BY <1>3, <1>4 DEF NamedOnce, IndexOnce, RowsOnce, InsertsOnce, UnreadAreNew, AllIssued, HashIndexAgrees

\* NamedOnce, kind by kind.
LEMMA StaysNamed ==
  ASSUME NamedOnce, Stays
  PROVE  NamedOnce'
BY DEF NamedOnce, Stays, indexVars, watchVars, IndexOnce, RowsOnce, InsertsOnce, UnreadAreNew, AllIssued,
       HashIndexAgrees, Inserts, Done

\* With the same statements and the same number executed, the same are left.
LEMMA SameInserts ==
  ASSUME UNCHANGED sqlQueue, Done' = Done
  PROVE  Inserts' = Inserts
  BY DEF Inserts

LEMMA MovesNamed ==
  ASSUME Types, NamedOnce, Moves
  PROVE  NamedOnce'
<1>1. /\ UNCHANGED <<index, hashIndex, sqlQueue, rows, restoring, restored, issued>>
      /\ section.at \notin {"delete", "flush"}
      /\ section'.at = "delete" => section'.done = 0
      /\ section'.at = "flush" => section'.done = 0
  BY DEF Moves
<1>2. Done' = 0 /\ Done = 0
  BY <1>1 DEF Done
<1>3. Inserts' = Inserts
  BY <1>1, <1>2, SameInserts
<1>4. HashIndexAgrees'
  <2>1. \A p \in Files : \A i \in 1..Len(index[p]) : i >= 1
    BY DEF Types, IndexTypeOK
  <2>2. \A i \in Nat : i >= 1 => ~(i <= 0)
    OBVIOUS
  <2> QED BY <1>1, <2>1, <2>2 DEF NamedOnce, HashIndexAgrees
<1> QED BY <1>1, <1>3, <1>4 DEF NamedOnce, IndexOnce, RowsOnce, InsertsOnce, UnreadAreNew, AllIssued

\* A statement queued while Done stays the same.
LEMMA QueuedInserts ==
  ASSUME Types, NEW s \in Statement, QueueSql(s), Done' = Done
  PROVE  /\ s.do /= "insert" => Inserts' = Inserts
         /\ s.do = "insert" => Inserts' = Inserts \cup {Len(sqlQueue) + 1}
         /\ Len(sqlQueue) + 1 \notin Inserts
         /\ sqlQueue'[Len(sqlQueue) + 1] = s
         /\ \A i \in Inserts : sqlQueue'[i] = sqlQueue[i]
<1> DEFINE m == Len(sqlQueue)
<1>1. /\ m \in Nat /\ Len(sqlQueue') = m + 1 /\ sqlQueue'[m + 1] = s
      /\ \A i \in 1..m : sqlQueue'[i] = sqlQueue[i]
      /\ \A i \in 1..(m + 1) : i \in 1..m \/ i = m + 1
  BY QueueSqlProps DEF Types, IndexTypeOK
<1>2. Done \in Nat /\ Done <= m
  BY <1>1, SectionFields DEF Done, Types, IndexTypeOK, SectionOK
<1> HIDE DEF m
<1>3. m + 1 \in 1..(m + 1) /\ m + 1 > Done /\ m + 1 \notin 1..m /\ \A i \in 1..m : i \in 1..(m + 1)
  BY <1>1, <1>2
<1>4. Inserts = {i \in 1..m : i > Done /\ sqlQueue[i].do = "insert"}
  BY DEF Inserts, m
<1>5. Inserts' = {i \in 1..(m + 1) : i > Done /\ sqlQueue'[i].do = "insert"}
  BY <1>1 DEF Inserts
<1> QED BY <1>1, <1>3, <1>4, <1>5 DEF m

LEMMA MarksNamed ==
  ASSUME Types, NamedOnce, NEW n, Marks(n)
  PROVE  NamedOnce'
<1>1. /\ UNCHANGED <<hashIndex, rows, restoring, restored, issued>>
      /\ \A p \in Files : /\ Len(index'[p]) = Len(index[p])
                          /\ \A i \in 1..Len(index[p]) : index'[p][i].name = index[p][i].name
  BY DEF Marks, Marked
<1>2. \/ UNCHANGED section
      \/ section.at \notin {"delete", "flush"} /\ section'.at \notin {"delete", "flush"}
  BY DEF Marks
<1>3. Done' = Done
  BY <1>2 DEF Done
<1>4. /\ Inserts' = Inserts
      /\ \A i \in Inserts : sqlQueue'[i] = sqlQueue[i]
  <2>1. CASE sqlQueue' = sqlQueue
    BY <1>3, <2>1, SameInserts
  <2>2. CASE \E s \in Statement : s.do \notin {"insert", "delete"} /\ QueueSql(s)
    BY <1>3, <2>2, QueuedInserts
  <2> QED BY <2>1, <2>2 DEF Marks
<1>5. IndexOnce'
  BY <1>1 DEF NamedOnce, IndexOnce
<1>6. RowsOnce' /\ InsertsOnce' /\ AllIssued' /\ UnreadAreNew'
  BY <1>1, <1>4 DEF NamedOnce, RowsOnce, InsertsOnce, AllIssued, UnreadAreNew
<1>7. HashIndexAgrees'
  <2> SUFFICES ASSUME NEW m \in Names, NEW p \in Files
               PROVE  hashIndex'[m] = p <=>
                        \E i \in 1..Len(index'[p]) :
                          /\ index'[p][i].name = m
                          /\ ~(section'.at = "delete" /\ section'.path = p /\ i <= section'.done)
    BY DEF HashIndexAgrees
  <2>1. hashIndex[m] = p <=>
          \E i \in 1..Len(index[p]) :
            /\ index[p][i].name = m
            /\ ~(section.at = "delete" /\ section.path = p /\ i <= section.done)
    BY DEF NamedOnce, HashIndexAgrees
  <2> QED BY <1>1, <1>2, <2>1
<1> QED BY <1>5, <1>6, <1>7 DEF NamedOnce

\* A version of a new name is added to a path nobody is deleting.
LEMMA AddedAgrees ==
  ASSUME Types, IndexOnce, HashIndexAgrees,
         NEW p \in Files, NEW v \in Version,
         \A q \in Files : \A i \in 1..Len(index[q]) : index[q][i].name /= v.name,
         index' = [index EXCEPT ![p] = Append(@, v)],
         hashIndex' = [hashIndex EXCEPT ![v.name] = p],
         section.at /= "delete", section'.at /= "delete"
  PROVE  IndexOnce' /\ HashIndexAgrees'
<1> DEFINE m == Len(index[p])
<1>1. /\ \A q \in Files : q /= p => index'[q] = index[q]
      /\ m \in Nat /\ Len(index'[p]) = m + 1 /\ index'[p][m + 1] = v
      /\ \A i \in 1..m : index'[p][i] = index[p][i] /\ i \in 1..Len(index'[p])
      /\ \A i \in 1..Len(index'[p]) : i \in 1..m \/ i = m + 1
  BY AppendVersion DEF Types, IndexTypeOK
<1>2. v.name \in Names /\ hashIndex \in [Names -> Files \cup {NoPath}]
  BY DEF Version, Types, IndexTypeOK
<1>3. m + 1 \in 1..Len(index'[p])
  BY <1>1
<1> HIDE DEF m
<1>4. IndexOnce'
  <2> SUFFICES ASSUME NEW a \in Files, NEW b \in Files,
                      NEW i \in 1..Len(index'[a]), NEW j \in 1..Len(index'[b]),
                      index'[a][i].name = index'[b][j].name
               PROVE  a = b /\ i = j
    BY DEF IndexOnce
  <2>1. ASSUME NEW c \in Files, NEW k \in 1..Len(index'[c])
        PROVE  \/ c = p /\ k = m + 1
               \/ k \in 1..Len(index[c]) /\ index'[c][k] = index[c][k]
    BY <1>1 DEF m
  <2>2. CASE a = p /\ i = m + 1
    BY <1>1, <2>1, <2>2
  <2>3. CASE b = p /\ j = m + 1
    BY <1>1, <2>1, <2>3
  <2>4. CASE ~(a = p /\ i = m + 1) /\ ~(b = p /\ j = m + 1)
    <3>1. i \in 1..Len(index[a]) /\ j \in 1..Len(index[b]) /\ index[a][i].name = index[b][j].name
      BY <2>1, <2>4
    <3> QED BY <3>1 DEF IndexOnce
  <2> QED BY <2>2, <2>3, <2>4
<1>5. HashIndexAgrees'
  <2> SUFFICES ASSUME NEW n \in Names, NEW q \in Files
               PROVE  hashIndex'[n] = q <=> \E i \in 1..Len(index'[q]) : index'[q][i].name = n
    BY DEF HashIndexAgrees
  <2>1. hashIndex[n] = q <=> \E i \in 1..Len(index[q]) : index[q][i].name = n
    BY DEF HashIndexAgrees
  <2>2. CASE n = v.name /\ q = p
    BY <1>1, <1>2, <1>3, <2>2
  <2>3. CASE n = v.name /\ q /= p
    BY <1>1, <1>2, <2>3
  <2>4. CASE n /= v.name /\ q /= p
    BY <1>1, <1>2, <2>1, <2>4
  <2>5. CASE n /= v.name /\ q = p
    BY <1>1, <1>2, <2>1, <2>5 DEF m
  <2> QED BY <2>2, <2>3, <2>4, <2>5
<1> QED BY <1>4, <1>5

\* A row read becomes a version of a name that no version had.
LEMMA RestoreRowNamed ==
  ASSUME Types, NamedOnce, RestoreRow, UNCHANGED issued
  PROVE  NamedOnce'
<1> DEFINE r == rows[restored + 1]
<1>1. /\ restored + 1 \in 1..Len(rows) /\ r \in Row /\ restored' = restored + 1
      /\ section = Free /\ restoring /\ UNCHANGED <<sqlQueue, rows, restoring, section>>
      /\ hashIndex' = [hashIndex EXCEPT ![r.name] = r.path]
  BY RestoreRowProps
<1>2. PICK v \in Version : v.name = r.name /\ index' = [index EXCEPT ![r.path] = Append(@, v)]
  BY RestoreRowProps
<1>3. r.path \in Files /\ r.name \in Names /\ restored \in Nat /\ Len(rows) \in Nat
  BY <1>1 DEF Row, Types, IndexTypeOK
<1>4. restored + 1 > restored /\ \A i \in 1..Len(rows) : i > restored + 1 => i > restored /\ i /= restored + 1
  BY <1>3
<1>5. \A q \in Files : \A i \in 1..Len(index[q]) : index[q][i].name /= v.name
  BY <1>1, <1>2, <1>4 DEF NamedOnce, UnreadAreNew
<1>6. r.name <= issued
  BY <1>1 DEF NamedOnce, AllIssued
<1>7. \A i \in 1..Len(rows) : i > restored + 1 => rows[i].name /= r.name
  BY <1>1, <1>4 DEF NamedOnce, RowsOnce
<1> HIDE DEF r
<1>8. /\ \A q \in Files : q /= r.path => index'[q] = index[q]
      /\ index'[r.path][Len(index[r.path]) + 1] = v
      /\ \A i \in 1..Len(index[r.path]) : index'[r.path][i] = index[r.path][i]
      /\ \A i \in 1..Len(index'[r.path]) : i \in 1..Len(index[r.path]) \/ i = Len(index[r.path]) + 1
  BY <1>2, <1>3, AppendVersion DEF Types, IndexTypeOK
<1>9. IndexOnce' /\ HashIndexAgrees'
  <2>1. section.at /= "delete" /\ section'.at /= "delete"
    BY <1>1 DEF Free
  <2> QED BY <1>1, <1>2, <1>3, <1>5, <2>1, AddedAgrees DEF NamedOnce
<1>10. Inserts' = Inserts
  BY <1>1, SameInserts DEF Done
<1>11. ASSUME NEW q \in Files, NEW j \in 1..Len(index'[q])
       PROVE  \/ index'[q][j].name = r.name
              \/ j \in 1..Len(index[q]) /\ index'[q][j] = index[q][j]
  BY <1>2, <1>8
<1>12. UnreadAreNew'
  BY <1>1, <1>4, <1>7, <1>11 DEF NamedOnce, UnreadAreNew
<1>13. AllIssued'
  BY <1>1, <1>6, <1>10, <1>11 DEF NamedOnce, AllIssued
<1> QED BY <1>1, <1>9, <1>10, <1>12, <1>13 DEF NamedOnce, RowsOnce, InsertsOnce

LEMMA RestoreDoneNamed ==
  ASSUME NamedOnce, RestoreDone, UNCHANGED issued
  PROVE  NamedOnce'
<1>1. /\ UNCHANGED <<index, hashIndex, sqlQueue, rows, section, issued>> /\ restoring' = FALSE
  BY DEF RestoreDone
<1>2. Inserts' = Inserts
  BY <1>1, SameInserts DEF Done
<1> QED BY <1>1, <1>2 DEF NamedOnce, IndexOnce, RowsOnce, InsertsOnce, UnreadAreNew, AllIssued, HashIndexAgrees

\* A name just drawn is in no version, row or statement.
LEMMA AddFileVersionNamed ==
  ASSUME Types, NamedOnce, AddFileVersion
  PROVE  NamedOnce'
<1> DEFINE p == section.path
           m == Len(sqlQueue) + 1
<1>1. /\ section.at = "hash" /\ p \in Files
      /\ issued \in Nat /\ issued' = issued + 1 /\ issued' \in Names
      /\ UNCHANGED <<rows, restoring, restored>>
      /\ hashIndex' = [hashIndex EXCEPT ![issued'] = p]
      /\ section'.at = "enqueue"
  BY AddFileVersionProps
<1>2. PICK v \in Version : v.name = issued' /\ index' = [index EXCEPT ![p] = Append(@, v)]
  BY AddFileVersionProps
<1>3. PICK s \in Statement : s.do = "insert" /\ s.name = issued' /\ QueueSql(s)
  BY AddFileVersionProps
<1> HIDE DEF p
<1>4. \A k \in Names : k <= issued => k <= issued' /\ k /= issued'
  BY <1>1 DEF Names
<1>5. /\ \A q \in Files : \A i \in 1..Len(index[q]) : index[q][i].name \in Names
      /\ \A i \in 1..Len(rows) : rows[i].name \in Names
      /\ \A i \in Inserts : sqlQueue[i].name \in Names
  <2>1. \A q \in Files : \A i \in 1..Len(index[q]) : index[q][i] \in Version
    BY DEF Types, IndexTypeOK
  <2>2. \A i \in 1..Len(rows) : rows[i] \in Row
    BY DEF Types, IndexTypeOK
  <2>3. \A i \in Inserts : sqlQueue[i] \in Statement /\ sqlQueue[i].do = "insert"
    BY DEF Types, IndexTypeOK, Inserts
  <2>4. \A t \in Statement : t.do = "insert" => t.name \in Names
    BY DEF Statement
  <2> QED BY <2>1, <2>2, <2>3, <2>4 DEF Version, Row
<1>6. \A q \in Files : \A i \in 1..Len(index[q]) : index[q][i].name /= v.name /\ index[q][i].name <= issued'
  BY <1>2, <1>4, <1>5 DEF NamedOnce, AllIssued
<1>7. /\ \A i \in 1..Len(rows) : rows[i].name /= issued' /\ rows[i].name <= issued'
      /\ \A i \in Inserts : sqlQueue[i].name /= issued' /\ sqlQueue[i].name <= issued'
  BY <1>4, <1>5 DEF NamedOnce, AllIssued
<1>8. IndexOnce' /\ HashIndexAgrees'
  BY <1>1, <1>2, <1>6, AddedAgrees DEF NamedOnce
<1>9. /\ \A q \in Files : q /= p => index'[q] = index[q]
      /\ index'[p][Len(index[p]) + 1] = v
      /\ \A i \in 1..Len(index[p]) : index'[p][i] = index[p][i]
      /\ \A i \in 1..Len(index'[p]) : i \in 1..Len(index[p]) \/ i = Len(index[p]) + 1
  BY <1>1, <1>2, AppendVersion DEF Types, IndexTypeOK
<1>10. /\ Inserts' = Inserts \cup {m} /\ m \notin Inserts
       /\ sqlQueue'[m].name = issued'
       /\ \A i \in Inserts : sqlQueue'[i] = sqlQueue[i]
  <2>1. Done' = Done
    BY <1>1 DEF Done
  <2> QED BY <1>3, <2>1, QueuedInserts
<1> HIDE DEF m
<1>11. ASSUME NEW q \in Files, NEW j \in 1..Len(index'[q])
       PROVE  \/ index'[q][j].name = issued'
              \/ j \in 1..Len(index[q]) /\ index'[q][j] = index[q][j]
  BY <1>2, <1>9
<1>12. UnreadAreNew'
  BY <1>1, <1>7, <1>11 DEF NamedOnce, UnreadAreNew
<1>13. AllIssued'
  <2>1. issued' <= issued'
    BY <1>1
  <2> QED BY <1>1, <1>6, <1>7, <1>10, <1>11, <2>1 DEF AllIssued
<1>14. RowsOnce' /\ InsertsOnce'
  BY <1>1, <1>7, <1>10 DEF NamedOnce, RowsOnce, InsertsOnce
<1> QED BY <1>8, <1>12, <1>13, <1>14 DEF NamedOnce

\* No other version goes by the name that leaves the reverse index.
LEMMA DelVersionNamed ==
  ASSUME Types, NamedOnce, DelVersion, UNCHANGED issued
  PROVE  NamedOnce'
<1> DEFINE p == section.path
           k == section.done + 1
           n == index[p][k].name
<1>1. /\ section.at = "delete" /\ p \in Files /\ section.done \in Nat
      /\ k \in 1..Len(index[p]) /\ index[p][k] \in Version
      /\ hashIndex' = [hashIndex EXCEPT ![n] = NoPath]
      /\ section'.at = "delete" /\ section'.path = p /\ section'.done = k
      /\ UNCHANGED <<index, sqlQueue, rows, restoring, restored>>
  BY DelVersionProps
<1>2. n \in Names /\ hashIndex \in [Names -> Files \cup {NoPath}]
  BY <1>1 DEF Version, Types, IndexTypeOK
<1>3. \A i \in 1..Len(index[p]) : i /= k => (i <= k <=> i <= section.done)
  BY <1>1
<1>4. k <= k /\ ~(k <= section.done)
  BY <1>1
<1> HIDE DEF n, p, k
<1>5. \A q \in Files : \A i \in 1..Len(index[q]) : index[q][i].name = n => q = p /\ i = k
  BY <1>1 DEF NamedOnce, IndexOnce, n
<1>6. HashIndexAgrees'
  <2> SUFFICES ASSUME NEW m \in Names, NEW q \in Files
               PROVE  hashIndex'[m] = q <=>
                        \E i \in 1..Len(index[q]) : index[q][i].name = m /\ ~(p = q /\ i <= k)
    BY <1>1 DEF HashIndexAgrees
  <2>1. hashIndex[m] = q <=>
          \E i \in 1..Len(index[q]) : index[q][i].name = m /\ ~(p = q /\ i <= section.done)
    BY <1>1 DEF NamedOnce, HashIndexAgrees, p
  <2>2. CASE m = n
    <3>1. hashIndex'[m] /= q
      BY <1>1, <1>2, <2>2
    <3>2. \A i \in 1..Len(index[q]) : index[q][i].name = m => p = q /\ i <= k
      BY <1>4, <1>5, <2>2
    <3> QED BY <3>1, <3>2
  <2>3. CASE m /= n
    <3>1. hashIndex'[m] = hashIndex[m]
      BY <1>1, <1>2, <2>3
    <3>2. \A i \in 1..Len(index[q]) : index[q][i].name = m /\ p = q => i /= k
      BY <2>3 DEF n
    <3> QED BY <1>3, <2>1, <3>1, <3>2
  <2> QED BY <2>2, <2>3
<1>7. Inserts' = Inserts
  <2>1. Done' = Done
    BY <1>1 DEF Done
  <2> QED BY <1>1, <2>1, SameInserts
<1> QED BY <1>1, <1>6, <1>7 DEF NamedOnce, IndexOnce, RowsOnce, InsertsOnce, UnreadAreNew, AllIssued

LEMMA DelFinishNamed ==
  ASSUME Types, NamedOnce, DelFinish, UNCHANGED issued
  PROVE  NamedOnce'
<1> DEFINE p == section.path
<1>1. /\ section.at = "delete" /\ section.done = Len(index[p]) /\ section \in Section
      /\ index' = [index EXCEPT ![p] = <<>>]
      /\ QueueSql([do |-> "delete", path |-> p])
      /\ section' = Free /\ UNCHANGED <<hashIndex, rows, restoring, restored>>
  BY DEF DelFinish, Types, IndexTypeOK
<1>2. p \in Files
  BY <1>1, SectionFields
<1>3. [do |-> "delete", path |-> p] \in Statement /\ [do |-> "delete", path |-> p].do /= "insert"
  BY <1>2 DEF Statement
<1>4. Inserts' = Inserts /\ \A i \in Inserts : sqlQueue'[i] = sqlQueue[i]
  <2>1. Done' = Done
    BY <1>1 DEF Done, Free
  <2> QED BY <1>1, <1>3, <2>1, QueuedInserts
<1>5. 1..Len(index'[p]) = {} /\ \A q \in Files : q /= p => index'[q] = index[q]
  <2>1. 1..Len(<<>>) = {}
    OBVIOUS
  <2>2. index'[p] = <<>> /\ \A q \in Files : q /= p => index'[q] = index[q]
    BY <1>1, <1>2 DEF Types, IndexTypeOK
  <2> QED BY <2>1, <2>2
<1>6. \A i \in 1..Len(index[p]) : i <= section.done
  BY <1>1, <1>2 DEF Types, IndexTypeOK
<1>7. section'.at /= "delete"
  BY <1>1 DEF Free
<1> HIDE DEF p
<1>8. HashIndexAgrees'
  <2> SUFFICES ASSUME NEW m \in Names, NEW q \in Files
               PROVE  hashIndex[m] = q <=> \E i \in 1..Len(index'[q]) : index'[q][i].name = m
    BY <1>1, <1>7 DEF HashIndexAgrees
  <2>1. hashIndex[m] = q <=>
          \E i \in 1..Len(index[q]) : index[q][i].name = m /\ ~(p = q /\ i <= section.done)
    BY <1>1 DEF NamedOnce, HashIndexAgrees, p
  <2> QED BY <1>5, <1>6, <2>1
<1>9. IndexOnce' /\ UnreadAreNew'
  BY <1>1, <1>5 DEF NamedOnce, IndexOnce, UnreadAreNew
<1>10. AllIssued'
  BY <1>1, <1>4, <1>5 DEF NamedOnce, AllIssued
<1>11. RowsOnce' /\ InsertsOnce'
  BY <1>1, <1>4 DEF NamedOnce, RowsOnce, InsertsOnce
<1> QED BY <1>8, <1>9, <1>10, <1>11 DEF NamedOnce

\* An executed statement moves its name from the statements to the rows.
LEMMA FlushStatementNamed ==
  ASSUME Types, NamedOnce, FlushStatement, UNCHANGED issued
  PROVE  NamedOnce'
<1> DEFINE k == section.done + 1
           s == sqlQueue[k]
<1>1. /\ section.at = "flush" /\ ~restoring /\ section.done \in Nat
      /\ k \in 1..Len(sqlQueue) /\ s \in Statement
      /\ rows' = Execute(rows, s)
      /\ section'.at = "flush" /\ section'.done = k
      /\ UNCHANGED <<index, hashIndex, sqlQueue, restoring, restored>>
  BY FlushStatementProps
<1>2. Done = section.done /\ Done' = k
  BY <1>1 DEF Done
<1>3. \A i \in 1..Len(sqlQueue) : (i > k => i > section.done /\ i /= k) /\ k > section.done
  BY <1>1
<1>4. /\ Inserts' \subseteq Inserts /\ k \notin Inserts'
      /\ s.do = "insert" => k \in Inserts
  BY <1>1, <1>2, <1>3 DEF Inserts
<1> HIDE DEF k
<1>5. rows \in Seq(Row) /\ rows' \in Seq(Row)
  BY <1>1, ExecuteProps DEF Types, IndexTypeOK
<1> HIDE DEF s
<1>6. CASE s.do = "insert"
  <2>1. PICK e \in Row : e.name = s.name /\ rows' = Append(rows, e)
    BY <1>1, <1>5, <1>6, ExecuteProps
  <2> DEFINE m == Len(rows)
  <2>2. /\ \A i \in 1..m : rows'[i] = rows[i] /\ rows[i].name /= s.name
        /\ \A i \in 1..Len(rows') : i \in 1..m \/ (i = m + 1 /\ rows'[i].name = s.name)
    <3>1. /\ \A i \in 1..m : rows'[i] = rows[i]
          /\ \A i \in 1..Len(rows') : i \in 1..m \/ (i = m + 1 /\ rows'[i] = e)
      BY <1>5, <2>1
    <3>2. \A i \in 1..m : rows[i].name /= s.name
      BY <1>4, <1>6 DEF NamedOnce, InsertsOnce, s
    <3> QED BY <2>1, <3>1, <3>2
  <2> HIDE DEF m
  <2>3. RowsOnce'
    BY <2>2 DEF NamedOnce, RowsOnce, m
  <2>4. InsertsOnce'
    <3>1. \A i \in Inserts' : i \in Inserts /\ sqlQueue[i].name /= s.name
      BY <1>4, <1>6 DEF NamedOnce, InsertsOnce, s
    <3> QED BY <1>1, <2>2, <3>1 DEF NamedOnce, InsertsOnce, m
  <2>5. AllIssued'
    <3>1. s.name <= issued
      BY <1>4, <1>6 DEF NamedOnce, AllIssued, s
    <3> QED BY <1>1, <1>4, <2>2, <3>1 DEF NamedOnce, AllIssued, m
  <2> QED BY <1>1, <2>3, <2>4, <2>5 DEF NamedOnce, IndexOnce, UnreadAreNew, HashIndexAgrees
<1>7. CASE s.do /= "insert"
  <2> DEFINE r == Execute(rows, s)
  <2>0. /\ \A i \in 1..Len(r) : \E j \in 1..Len(rows) : r[i].name = rows[j].name
        /\ (\A i, j \in 1..Len(rows) : i /= j => rows[i].name /= rows[j].name) =>
             \A i, j \in 1..Len(r) : i /= j => r[i].name /= r[j].name
    <3>1. rows \in Seq(Row) /\ s \in Statement
      BY <1>1, <1>5
    <3>2. s.do /= "insert" =>
              /\ \A m \in 1..Len(Execute(rows, s)) :
                   \E j \in 1..Len(rows) : Execute(rows, s)[m].name = rows[j].name
              /\ (\A i, j \in 1..Len(rows) : i /= j => rows[i].name /= rows[j].name) =>
                   \A m, l \in 1..Len(Execute(rows, s)) :
                     m /= l => Execute(rows, s)[m].name /= Execute(rows, s)[l].name
      BY <3>1, ExecuteProps, Zenon
    <3> QED BY <1>7, <3>2, Zenon
  <2> HIDE DEF r
  <2>1. \A i \in 1..Len(rows') : \E j \in 1..Len(rows) : rows'[i].name = rows[j].name
    BY <1>1, <2>0 DEF r
  <2>2. RowsOnce'
    BY <1>1, <2>0 DEF NamedOnce, RowsOnce, r
  <2>3. InsertsOnce'
    <3>1. \A i \in Inserts', j \in 1..Len(rows') : sqlQueue[i].name /= rows'[j].name
      <4> SUFFICES ASSUME NEW i \in Inserts', NEW j \in 1..Len(rows')
                   PROVE  sqlQueue[i].name /= rows'[j].name
        OBVIOUS
      <4>1. PICK l \in 1..Len(rows) : rows'[j].name = rows[l].name
        BY <2>1
      <4> QED BY <1>4, <4>1 DEF NamedOnce, InsertsOnce
    <3>2. \A i, j \in Inserts' : i /= j => sqlQueue[i].name /= sqlQueue[j].name
      BY <1>4 DEF NamedOnce, InsertsOnce
    <3> QED BY <1>1, <3>1, <3>2 DEF InsertsOnce
  <2>4. AllIssued'
    <3>1. \A j \in 1..Len(rows') : rows'[j].name <= issued
      <4> SUFFICES ASSUME NEW j \in 1..Len(rows') PROVE rows'[j].name <= issued
        OBVIOUS
      <4>1. PICK l \in 1..Len(rows) : rows'[j].name = rows[l].name
        BY <2>1
      <4> QED BY <4>1 DEF NamedOnce, AllIssued
    <3> QED BY <1>1, <1>4, <3>1 DEF NamedOnce, AllIssued
  <2> QED BY <1>1, <2>2, <2>3, <2>4 DEF NamedOnce, IndexOnce, UnreadAreNew, HashIndexAgrees
<1> QED BY <1>6, <1>7

LEMMA FlushEndNamed ==
  ASSUME NamedOnce, FlushEnd, UNCHANGED issued
  PROVE  NamedOnce'
<1>1. /\ section.at = "flush" /\ sqlQueue' = <<>> /\ section' = Free
      /\ UNCHANGED <<index, hashIndex, rows, restoring, restored>>
  BY DEF FlushEnd
<1>2. Inserts' = {}
  <2>1. 1..Len(<<>>) = {}
    OBVIOUS
  <2> QED BY <1>1, <2>1 DEF Inserts
<1> QED BY <1>1, <1>2 DEF NamedOnce, IndexOnce, RowsOnce, InsertsOnce, UnreadAreNew, AllIssued, HashIndexAgrees, Free

\* A death loses what was not executed; its names stay unused.
LEMMA LoseIndexNamed ==
  ASSUME NamedOnce, LoseIndex, UNCHANGED issued
  PROVE  NamedOnce'
<1>1. /\ index' = [p \in Files |-> <<>>] /\ hashIndex' = [n \in Names |-> NoPath]
      /\ sqlQueue' = <<>> /\ section' = Free /\ UNCHANGED rows
  BY DEF LoseIndex
<1>2. 1..Len(<<>>) = {}
  OBVIOUS
<1>3. Inserts' = {} /\ \A p \in Files : 1..Len(index'[p]) = {}
  BY <1>1, <1>2 DEF Inserts
<1>4. \A n \in Names, p \in Files : hashIndex'[n] /= p
  BY <1>1
<1> QED BY <1>1, <1>3, <1>4
        DEF NamedOnce, IndexOnce, RowsOnce, InsertsOnce, UnreadAreNew, AllIssued, HashIndexAgrees

\* NamedOnce is kept by every step.
LEMMA NamedNext == Types /\ NamedOnce /\ [DaemonNext]_daemonVars => NamedOnce'
<1> SUFFICES ASSUME Types, NamedOnce, [DaemonNext]_daemonVars PROVE NamedOnce'
  OBVIOUS
<1>1. IndexStep
  BY IndexSteps
<1>2. CASE Stays
  BY <1>2, StaysNamed
<1>3. CASE Moves
  BY <1>3, MovesNamed
<1>4. ASSUME NEW n, Marks(n) PROVE NamedOnce'
  BY <1>4, MarksNamed
<1>5. CASE RestoreRow /\ UNCHANGED issued
  BY <1>5, RestoreRowNamed
<1>6. CASE RestoreDone /\ UNCHANGED issued
  BY <1>6, RestoreDoneNamed
<1>7. CASE NewVersion
  BY <1>7, AddFileVersionNamed DEF NewVersion
<1>8. CASE QueueStep /\ DelVersion /\ UNCHANGED issued
  BY <1>8, DelVersionNamed
<1>9. CASE DelFinish /\ UNCHANGED issued
  BY <1>9, DelFinishNamed
<1>10. CASE FlushStatement /\ UNCHANGED issued
  BY <1>10, FlushStatementNamed
<1>11. CASE FlushEnd /\ UNCHANGED issued
  BY <1>11, FlushEndNamed
<1>12. CASE DieOfMissingFile \/ DieAnyhow
  BY <1>12, LoseIndexNamed DEF DieOfMissingFile, DieAnyhow, Die, Crash
<1> QED BY <1>1, <1>2, <1>3, <1>4, <1>5, <1>6, <1>7, <1>8, <1>9, <1>10, <1>11, <1>12, Zenon DEF IndexStep

\* pathHashIndex is the inverse of fileIndex, through additions, restores,
\* deletions and deaths of the process, and whether or not clients send
\* commands while the index is restored.
THEOREM HashIndexIsInverse == DaemonSpec => []HashIndexAgrees
<1>1. NamedOnce => HashIndexAgrees
  BY DEF NamedOnce
<1>2. DaemonInit => Types /\ NamedOnce
  BY TypesInit, NamedInit
<1>3. (Types /\ NamedOnce) /\ [DaemonNext]_daemonVars => (Types /\ NamedOnce)'
  BY TypesNext, NamedNext
<1> QED BY <1>1, <1>2, <1>3, PTL DEF DaemonSpec

-------------------------------------------------------------------------------
(* What a step does to the queues and to the bucket.                         *)

\* Only an item of name n, in queue k, may be new.
Grows(k, n) ==
  \A l \in Kinds : \A i \in 1..Len(queue'[l]) :
    \/ \E j \in 1..Len(queue[l]) : queue'[l][i] = queue[l][j]
    \/ l = k /\ queue'[l][i].name = n

Shrinks ==
  \A l \in Kinds : \A i \in 1..Len(queue'[l]) :
    \E j \in 1..Len(queue[l]) : queue'[l][i] = queue[l][j]

\* What is enqueued is the only new item.
LEMMA EnqueueGrows ==
  ASSUME QueueTypeOK, NEW k \in Kinds, NEW item, Enqueue(k, item)
  PROVE  Grows(k, item.name)
<1> SUFFICES ASSUME NEW l \in Kinds, NEW i \in 1..Len(queue'[l])
             PROVE  \/ \E j \in 1..Len(queue[l]) : queue'[l][i] = queue[l][j]
                    \/ l = k /\ queue'[l][i].name = item.name
  BY DEF Grows
<1>1. queue' = [queue EXCEPT ![k] = Append(queue[k], item)]
  BY DEF Enqueue
<1> DEFINE q == queue[k]
           t == Append(q, item)
<1>2. q \in Seq(UploadItem \cup NameItem) /\ queue \in [Kinds -> Seq(UploadItem \cup NameItem)]
  BY DEF QueueTypeOK
<1>3. \A j \in 1..Len(t) : (j \in 1..Len(q) /\ t[j] = q[j]) \/ t[j] = item
  BY <1>2
<1>4. queue'[l] = IF l = k THEN t ELSE queue[l]
  BY <1>1, <1>2
<1> HIDE DEF t
<1> QED BY <1>3, <1>4

\* What is dequeued brings no new item.
LEMMA TakeShrinks ==
  ASSUME QueueTypeOK, NEW k \in Kinds, queue[k] /= <<>>, Dequeue(k)
  PROVE  Shrinks
<1> SUFFICES ASSUME NEW l \in Kinds, NEW i \in 1..Len(queue'[l])
             PROVE  \E j \in 1..Len(queue[l]) : queue'[l][i] = queue[l][j]
  BY DEF Shrinks
<1> DEFINE q == queue[k]
           t == Tail(q)
<1>1. queue' = [queue EXCEPT ![k] = t]
  BY DEF Dequeue
<1>2. q \in Seq(UploadItem \cup NameItem) /\ queue \in [Kinds -> Seq(UploadItem \cup NameItem)]
  BY DEF QueueTypeOK
<1>3. q /= <<>>
  OBVIOUS
<1>4. \A j \in 1..Len(t) : \E m \in 1..Len(q) : t[j] = q[m]
  <2> HIDE DEF q
  <2>1. /\ Len(t) = Len(q) - 1 /\ Len(q) \in Nat
        /\ \A j \in 1..(Len(q) - 1) : t[j] = q[j + 1] /\ j + 1 \in 1..Len(q)
    BY <1>2, <1>3, TailProps
  <2> QED BY <2>1
<1>5. queue'[l] = IF l = k THEN t ELSE queue[l]
  BY <1>1, <1>2
<1> HIDE DEF t
<1> QED BY <1>4, <1>5

\* The item a pass is at is still queued.
LEMMA HeadIsQueued ==
  ASSUME IInv, NEW k \in Kinds, Visiting(k)
  PROVE  /\ queue[k] /= <<>>
         /\ \E j \in 1..Len(queue[k]) : Head(batch) = queue[k][j]
<1> DEFINE q == queue[k]
           b == Len(batch)
<1>1. pass = k /\ batch /= <<>> /\ batch \in Seq(Item(k)) /\ kept \in Seq(Item(k)) /\ q \in Seq(Item(k))
  BY DEF Visiting, IInv, TypeOK, QueueTypeOK
<1>2. b \in Nat /\ b >= 1 /\ Len(kept) \in Nat /\ Len(q) \in Nat /\ Head(batch) = batch[1]
  BY <1>1
<1>3. Len(q) = b + Len(kept)
  BY <1>1 DEF IInv, PassAccounting
<1>4. 1 \in 1..b /\ (Len(q) - b) + 1 \in 1..Len(q)
  BY <1>2, <1>3
<1>5. batch[1] = q[(Len(q) - b) + 1]
  BY <1>1, <1>4 DEF IInv, UnvisitedStayQueued
<1>6. q /= <<>>
  <2> HIDE DEF q
  <2> QED BY <1>4
<1> QED BY <1>2, <1>4, <1>5, <1>6

\* The remote thread brings no new item.
LEMMA PassShrinks ==
  ASSUME IInv, RemotePass
  PROVE  Shrinks
<1>0. QueueTypeOK /\ {"upload", "delete", "download"} \subseteq Kinds
  BY DEF IInv, TypeOK, Kinds
<1>1. CASE UNCHANGED queue
  BY <1>1 DEF Shrinks
<1>2. ASSUME NEW k \in Kinds, Visiting(k), Finish(k) PROVE Shrinks
  BY <1>0, <1>2, HeadIsQueued, TakeShrinks DEF Finish
<1>3. CASE EncryptMissing
  <2>1. \A l \in Kinds : 1..Len(queue'[l]) = {}
    <3>1. 1..Len(<<>>) = {}
      OBVIOUS
    <3> QED BY <1>3, <3>1 DEF EncryptMissing, LoseMemory
  <2> QED BY <2>1 DEF Shrinks
<1>4. ASSUME NEW accepted \in BOOLEAN, UploadObject(accepted) PROVE Shrinks
  <2>1. Visiting("upload") /\ (Finish("upload") \/ Keep)
    BY <1>4 DEF UploadObject
  <2> QED BY <1>0, <1>1, <1>2, <2>1 DEF Keep
<1>5. CASE RemoteTurn \/ EndPass \/ UploadExists \/ UploadChecked
  BY <1>1, <1>5 DEF RemoteTurn, UploadRemotes, DeleteRemotes, CallAPI, NothingQueued, EndPass,
                    UploadExists, UploadChecked
<1>6. CASE UploadMissing \/ UploadStale
  BY <1>0, <1>2, <1>6 DEF UploadMissing, UploadStale
<1>7. CASE UploadFails \/ DeleteFails
  BY <1>1, <1>7 DEF UploadFails, DeleteFails, Keep
<1>8. CASE DeleteObject \/ DownloadObject
  BY <1>0, <1>2, <1>8 DEF DeleteObject, DownloadObject
<1> QED BY <1>3, <1>4, <1>5, <1>6, <1>7, <1>8 DEF RemotePass, QuietPass

\* The three ways an item gets into a queue.
LEMMA QueueChange ==
  ASSUME Types, [DaemonNext]_daemonVars
  PROVE  \/ Shrinks
         \/ section.at = "enqueue" /\ Grows("upload", section.name)
         \/ DelVersion /\ UNCHANGED issued
              /\ Grows("delete", index[section.path][section.done + 1].name)
         \/ unresolved /= NoName /\ Grows("delete", unresolved) /\ UNCHANGED <<indexVars, issued>>
<1>0. QueueTypeOK /\ IInv /\ {"upload", "delete"} \subseteq Kinds
  BY DEF Types, IInv, TypeOK, Kinds
<1>1. ASSUME UNCHANGED queue PROVE Shrinks
  BY <1>1 DEF Shrinks
<1>2. CASE UNCHANGED daemonVars
  BY <1>1, <1>2 DEF daemonVars, vars, queueVars
<1>3. CASE Restore \/ Scan \/ Flush \/ SectionStep \/ NewVersion \/ Command
  BY <1>1, <1>3 DEF Restore, Scan, Flush, SectionStep, NewVersion, Command, ByItself, queueVars
<1>4. CASE CleanList \/ CleanLeaks \/ \E n \in Names : CleanResolve(n)
  BY <1>1, <1>4 DEF CleanList, CleanLeaks, CleanResolve, vars, queueVars
<1>5. CASE FilesChange
  BY <1>1, <1>5 DEF FilesChange, queueVars
<1>6. CASE Transfer \/ Upload \/ DieOfMissingFile
  <2>1. RemotePass
    BY <1>6 DEF Transfer, Upload, DieOfMissingFile, RemotePass, Mapped
  <2> QED BY <1>0, <2>1, PassShrinks
<1>7. CASE DieAnyhow
  <2>1. \A l \in Kinds : 1..Len(queue'[l]) = {}
    <3>1. 1..Len(<<>>) = {}
      OBVIOUS
    <3> QED BY <1>7, <3>1 DEF DieAnyhow, Crash, LoseMemory
  <2> QED BY <2>1 DEF Shrinks
<1>8. CASE CleanQueue
  <2> DEFINE item == [name |-> unresolved]
  <2>1. unresolved /= NoName /\ Enqueue("delete", item) /\ UNCHANGED <<indexVars, issued>>
    BY <1>8 DEF CleanQueue, QueueForDelete
  <2>2. Grows("delete", item.name)
    BY <1>0, <2>1, EnqueueGrows
  <2>3. item.name = unresolved
    OBVIOUS
  <2> QED BY <2>1, <2>2, <2>3
<1>9. CASE QueueStep
  <2>1. CASE QueueVersion
    <3> DEFINE item == [path |-> section.path, name |-> section.name, mod |-> section.mod]
    <3>1. section.at = "enqueue" /\ (UNCHANGED queue \/ Enqueue("upload", item))
      BY <2>1 DEF QueueVersion, QueueForUpload
    <3>2. item.name = section.name
      OBVIOUS
    <3> HIDE DEF item
    <3>3. CASE Enqueue("upload", item)
      <4>1. Grows("upload", item.name)
        BY <1>0, <3>3, EnqueueGrows
      <4> QED BY <3>1, <3>2, <4>1
    <3> QED BY <1>1, <3>1, <3>3
  <2>2. CASE DelVersion
    <3> DEFINE n == index[section.path][section.done + 1].name
               item == [name |-> n]
    <3>1. Enqueue("delete", item) /\ UNCHANGED issued
      BY <1>9, <2>2 DEF DelVersion, QueueForDelete, QueueStep
    <3>2. item.name = n
      OBVIOUS
    <3> HIDE DEF item
    <3>3. Grows("delete", item.name)
      BY <1>0, <3>1, EnqueueGrows
    <3> QED BY <2>2, <3>1, <3>2, <3>3
  <2> QED BY <1>9, <2>1, <2>2 DEF QueueStep
<1> QED BY <1>2, <1>3, <1>4, <1>5, <1>6, <1>7, <1>8, <1>9 DEF DaemonNext, Clean

\* A file that is there holds something.
HereHoldsData == \A f \in Files : disk[f].here => disk[f].data > 0

\* An object changes only by the pass that is at it.
LEMMA StoreChange ==
  ASSUME Types, HereHoldsData, [DaemonNext]_daemonVars
  PROVE  \A n \in Names :
           \/ stored'[n] = stored[n]
           \/ n = Head(batch).name /\ Visiting("upload") /\ stored'[n] /= NoObject
           \/ n = Head(batch).name /\ Visiting("delete")
<1> DEFINE Goal == \A n \in Names :
                     \/ stored'[n] = stored[n]
                     \/ n = Head(batch).name /\ Visiting("upload") /\ stored'[n] /= NoObject
                     \/ n = Head(batch).name /\ Visiting("delete")
<1> SUFFICES Goal
  OBVIOUS
<1>0. stored \in [Names -> Nat] /\ QueueInv
  BY IInvIsQueueInv DEF Types, IInv, TypeOK, BucketTypeOK
<1>1. ASSUME UNCHANGED stored PROVE Goal
  BY <1>1
<1>2. CASE UNCHANGED daemonVars
  BY <1>1, <1>2 DEF daemonVars, vars, bucketVars
<1>3. CASE Restore \/ Scan \/ Flush \/ SectionStep \/ NewVersion \/ Command \/ QueueStep
  BY <1>1, <1>3 DEF Restore, Scan, Flush, SectionStep, NewVersion, Command, QueueStep, ByItself, Elsewhere,
                    bucketVars
<1>4. CASE Clean
  BY <1>1, <1>4 DEF Clean, CleanList, CleanLeaks, CleanResolve, CleanQueue, vars, bucketVars
<1>5. CASE FilesChange \/ DieOfMissingFile \/ DieAnyhow
  BY <1>1, <1>5 DEF FilesChange, DieOfMissingFile, EncryptMissing, DieAnyhow, Crash, bucketVars
<1>6. ASSUME Visiting("upload"), Exists(Head(batch).path),
             stored' \in {stored, [stored EXCEPT ![Head(batch).name] = disk[Head(batch).path].data]}
      PROVE  Goal
  <2>1. Head(batch) \in Item("upload") /\ Head(batch).name \in Names
    BY <1>0, <1>6, HeadOfBatch DEF Kinds
  <2>2. Head(batch).path \in Files
    BY <2>1 DEF Item, UploadItem
  <2>3. disk[Head(batch).path].data > 0
    BY <1>6, <2>2 DEF Exists, HereHoldsData
  <2>4. disk[Head(batch).path].data /= NoObject
    BY <2>3 DEF NoObject
  <2> QED BY <1>0, <1>6, <2>1, <2>4
<1>7. CASE Upload
  <2>1. /\ Visiting("upload") /\ Exists(Head(batch).path)
        /\ stored' = [stored EXCEPT ![Head(batch).name] = disk[Head(batch).path].data]
    BY <1>7 DEF Upload, UploadObject
  <2> QED BY <1>6, <2>1
<1>8. CASE Transfer
  <2>1. CASE RemoteTurn \/ EndPass \/ UploadMissing \/ UploadExists \/ UploadStale \/ UploadChecked \/ DownloadObject
    BY <1>1, <2>1 DEF RemoteTurn, UploadRemotes, DeleteRemotes, CallAPI, NothingQueued, EndPass, UploadMissing,
                      UploadExists, UploadStale, UploadChecked, DownloadObject, bucketVars
  <2>2. CASE UploadFails
    BY <1>6, <2>2 DEF UploadFails
  <2>3. CASE DeleteObject \/ DeleteFails
    <3>1. /\ Visiting("delete")
          /\ stored' \in {stored, [stored EXCEPT ![Head(batch).name] = NoObject]}
      BY <2>3 DEF DeleteObject, DeleteFails
    <3>2. Head(batch).name \in Names
      BY <1>0, <3>1, HeadOfBatch DEF Kinds
    <3> QED BY <1>0, <3>1, <3>2
  <2> QED BY <1>8, <2>1, <2>2, <2>3 DEF Transfer, QuietPass
<1> QED BY <1>2, <1>3, <1>4, <1>5, <1>7, <1>8 DEF DaemonNext

\* Other programs write something whenever they write.
LEMMA HereHoldsDataNext ==
  ASSUME Types, HereHoldsData, [DaemonNext]_daemonVars
  PROVE  HereHoldsData'
<1>0. disk \in [Files -> FileState]
  BY DEF Types, IInv, TypeOK, FsTypeOK
<1>1. ASSUME UNCHANGED disk PROVE HereHoldsData'
  BY <1>1 DEF HereHoldsData
<1>2. CASE FilesChange
  <2>1. ASSUME NEW f \in Files, WriteFile(f) PROVE HereHoldsData'
    <3>1. PICK m \in {disk[f].mod, disk[f].mod + 1} :
            disk' = [disk EXCEPT ![f] = [here |-> TRUE, mod |-> m, data |-> disk[f].data + 1]]
      BY <2>1 DEF WriteFile
    <3>2. disk[f].data + 1 > 0
      BY <1>0 DEF FileState
    <3>3. \A g \in Files : \/ disk'[g] = disk[g]
                           \/ disk'[g].data = disk[f].data + 1
      BY <1>0, <3>1
    <3> QED BY <3>2, <3>3 DEF HereHoldsData
  <2>2. ASSUME NEW f \in Files, RemoveFile(f) PROVE HereHoldsData'
    <3>1. disk' = [disk EXCEPT ![f] = [disk[f] EXCEPT !.here = FALSE]]
      BY <2>2 DEF RemoveFile
    <3>2. \A g \in Files : \/ disk'[g] = disk[g]
                           \/ disk'[g].here = FALSE
      BY <1>0, <3>1 DEF FileState
    <3> QED BY <3>2 DEF HereHoldsData
  <2> QED BY <1>2, <2>1, <2>2 DEF FilesChange
<1>3. CASE UNCHANGED daemonVars
  BY <1>1, <1>3 DEF daemonVars, vars, fsVars
<1>4. CASE Restore \/ Scan \/ Flush \/ SectionStep \/ NewVersion \/ QueueStep \/ Command
  BY <1>1, <1>4 DEF Restore, Scan, Flush, SectionStep, NewVersion, QueueStep, Command, ByItself, Elsewhere, fsVars
<1>5. CASE Clean
  BY <1>1, <1>5 DEF Clean, CleanList, CleanLeaks, CleanResolve, CleanQueue, vars, fsVars
<1>6. CASE Transfer \/ Upload \/ DieOfMissingFile \/ DieAnyhow
  BY <1>1, <1>6 DEF Transfer, Upload, DieOfMissingFile, DieAnyhow, Crash, fsVars
<1> QED BY <1>2, <1>3, <1>4, <1>5, <1>6 DEF DaemonNext

\* Names already drawn only ever leave the reverse index, but for the restore.
LEMMA HashChange ==
  ASSUME Types, [DaemonNext]_daemonVars
  PROVE  /\ issued \in Nat /\ issued' \in Nat /\ issued <= issued'
         /\ ~restoring => \A n \in Names : n <= issued /\ hashIndex[n] = NoPath => hashIndex'[n] = NoPath
<1> DEFINE Goal == /\ issued <= issued'
                   /\ ~restoring =>
                        \A n \in Names : n <= issued /\ hashIndex[n] = NoPath => hashIndex'[n] = NoPath
<1>0. issued \in Nat /\ issued' \in Nat /\ hashIndex \in [Names -> Files \cup {NoPath}]
  <2>1. Types'
    BY TypesNext
  <2> QED BY <2>1 DEF Types, IInv, TypeOK, IndexTypeOK
<1> SUFFICES Goal
  BY <1>0
<1>1. ASSUME UNCHANGED <<hashIndex, issued>> PROVE Goal
  BY <1>0, <1>1
<1>2. CASE Stays \/ Moves
  BY <1>1, <1>2 DEF Stays, Moves, indexVars, watchVars
<1>3. ASSUME NEW n, Marks(n) PROVE Goal
  BY <1>1, <1>3 DEF Marks
<1>4. CASE RestoreRow /\ UNCHANGED issued
  BY <1>0, <1>4 DEF RestoreRow
<1>5. CASE (RestoreDone \/ DelFinish \/ FlushStatement \/ FlushEnd) /\ UNCHANGED issued
  BY <1>1, <1>5 DEF RestoreDone, DelFinish, FlushStatement, FlushEnd
<1>6. CASE NewVersion
  <2>1. issued' = issued + 1 /\ hashIndex' = [hashIndex EXCEPT ![issued'] = section.path]
    BY <1>6, AddFileVersionProps DEF NewVersion
  <2>2. \A n \in Names : n <= issued => n /= issued'
    BY <1>0, <2>1 DEF Names
  <2>3. issued <= issued'
    BY <1>0, <2>1
  <2> QED BY <1>0, <2>1, <2>2, <2>3
<1>7. CASE QueueStep /\ DelVersion /\ UNCHANGED issued
  <2> DEFINE n == index[section.path][section.done + 1].name
  <2>1. hashIndex' = [hashIndex EXCEPT ![n] = NoPath]
    BY <1>7, DelVersionProps
  <2> HIDE DEF n
  <2>2. \A m \in Names : hashIndex'[m] = NoPath \/ hashIndex'[m] = hashIndex[m]
    BY <1>0, <2>1
  <2>3. issued <= issued'
    BY <1>0, <1>7
  <2> QED BY <2>2, <2>3
<1>8. CASE DieOfMissingFile \/ DieAnyhow
  BY <1>0, <1>8 DEF DieOfMissingFile, DieAnyhow, Die, Crash, LoseIndex
<1>9. IndexStep
  BY IndexSteps
<1> HIDE DEF Goal
<1> QED BY <1>2, <1>3, <1>4, <1>5, <1>6, <1>7, <1>8, <1>9, Zenon DEF IndexStep

\* Only a death of the process starts a restore, and the rows stay meanwhile.
LEMMA RestoreSteps ==
  ASSUME Types, [DaemonNext]_daemonVars
  PROVE  \/ restoring' /\ (DieOfMissingFile \/ DieAnyhow)
         \/ restoring' /\ restoring /\ UNCHANGED rows
         \/ ~restoring'
<1> DEFINE Goal == \/ restoring' /\ (DieOfMissingFile \/ DieAnyhow)
                   \/ restoring' /\ restoring /\ UNCHANGED rows
                   \/ ~restoring'
<1> SUFFICES Goal
  OBVIOUS
<1>0. restoring \in BOOLEAN
  BY DEF Types, IndexTypeOK
<1>1. ASSUME UNCHANGED <<restoring, rows>> PROVE Goal
  BY <1>0, <1>1
<1>2. CASE Stays \/ Moves
  BY <1>1, <1>2 DEF Stays, Moves, indexVars, watchVars
<1>3. ASSUME NEW n, Marks(n) PROVE Goal
  BY <1>1, <1>3 DEF Marks
<1>4. CASE (RestoreRow \/ RestoreDone \/ DelFinish \/ FlushEnd) /\ UNCHANGED issued
  BY <1>1, <1>4 DEF RestoreRow, RestoreDone, DelFinish, FlushEnd
<1>5. CASE FlushStatement /\ UNCHANGED issued
  <2>1. ~restoring /\ restoring' = restoring
    BY <1>5, FlushStatementProps
  <2> QED BY <2>1
<1>6. CASE NewVersion
  BY <1>1, <1>6 DEF NewVersion, AddFileVersion
<1>9. CASE QueueStep /\ DelVersion /\ UNCHANGED issued
  BY <1>1, <1>9 DEF DelVersion
<1>7. CASE DieOfMissingFile \/ DieAnyhow
  BY <1>7 DEF DieOfMissingFile, DieAnyhow, Die, LoseIndex
<1>8. IndexStep
  BY IndexSteps
<1> HIDE DEF Goal
<1> QED BY <1>2, <1>3, <1>4, <1>5, <1>6, <1>7, <1>8, <1>9, Zenon DEF IndexStep

-------------------------------------------------------------------------------
(* Deletions.                                                                *)

\* Names in use were drawn before.
UsedAreIssued ==
  /\ \A k \in Kinds : \A i \in 1..Len(queue[k]) : queue[k][i].name <= issued
  /\ \A n \in Names : stored[n] /= NoObject => n <= issued
  /\ section.at = "enqueue" => section.name <= issued
  /\ \A n \in cleaning : n <= issued
  /\ unresolved <= issued

\* While the index is restored there is nothing else going on.
RestoreIsAlone ==
  restoring =>
    /\ section = Free
    /\ queue = [k \in Kinds |-> <<>>]
    /\ pass = "idle"
    /\ cleaning = {}
    /\ unresolved = NoName

UnresolvedIsUntracked == unresolved /= NoName => hashIndex[unresolved] = NoPath

DeletionInv == UsedAreIssued /\ RestoreIsAlone /\ UnresolvedIsUntracked /\ QueuedDeletesAreUntracked

\* Nothing is queued, listed or restored at the start.
LEMMA DeletionInit == DaemonInit => DeletionInv
<1> SUFFICES ASSUME DaemonInit PROVE DeletionInv
  OBVIOUS
<1>1. /\ queue = [k \in Kinds |-> <<>>] /\ pass = "idle" /\ stored = [n \in Names |-> NoObject]
      /\ issued = 0 /\ section = Free /\ cleaning = {} /\ unresolved = NoName
  BY DEF DaemonInit, Init, QueueInit, IndexInit
<1>2. 1..Len(<<>>) = {} /\ "delete" \in Kinds /\ NoName <= 0
  BY DEF Kinds, NoName
<1>3. \A k \in Kinds : 1..Len(queue[k]) = {}
  BY <1>1, <1>2
<1> QED BY <1>1, <1>2, <1>3
        DEF DeletionInv, UsedAreIssued, RestoreIsAlone, UnresolvedIsUntracked, QueuedDeletesAreUntracked, Free

\* A version about to be deleted, or listed, is one of a name drawn before.
LEMMA DelNameIssued ==
  ASSUME Types, NamedOnce, DelVersion
  PROVE  /\ index[section.path][section.done + 1].name \in Names
         /\ index[section.path][section.done + 1].name <= issued
<1>1. /\ section.path \in Files /\ section.done + 1 \in 1..Len(index[section.path])
      /\ index[section.path][section.done + 1] \in Version
  BY DelVersionProps
<1> QED BY <1>1 DEF NamedOnce, AllIssued, Version

\* The version about to be queued for upload is the one just drawn.
LEMMA EnqueueSection ==
  ASSUME Types, [DaemonNext]_daemonVars, section'.at = "enqueue"
  PROVE  UNCHANGED section \/ section'.name = issued'
<1> DEFINE Goal == UNCHANGED section \/ section'.name = issued'
<1> SUFFICES Goal
  OBVIOUS
<1>1. CASE Stays \/ Moves
  BY <1>1 DEF Stays, Moves, indexVars, watchVars
<1>2. ASSUME NEW n, Marks(n) PROVE Goal
  BY <1>2 DEF Marks
<1>3. CASE (RestoreRow \/ RestoreDone \/ DelFinish \/ FlushEnd) /\ UNCHANGED issued
  BY <1>3 DEF RestoreRow, RestoreDone, DelFinish, FlushEnd, Free
<1>4. CASE FlushStatement /\ UNCHANGED issued
  BY <1>4, FlushStatementProps
<1>5. CASE NewVersion
  BY <1>5, AddFileVersionProps DEF NewVersion
<1>6. CASE QueueStep /\ DelVersion /\ UNCHANGED issued
  BY <1>6, DelVersionProps
<1>7. CASE DieOfMissingFile \/ DieAnyhow
  BY <1>7 DEF DieOfMissingFile, DieAnyhow, Die, LoseIndex, Free
<1>8. IndexStep
  BY IndexSteps
<1> HIDE DEF Goal
<1> QED BY <1>1, <1>2, <1>3, <1>4, <1>5, <1>6, <1>7, <1>8, Zenon DEF IndexStep

\* What the socket thread holds in its hands.
LEMMA CleanSteps ==
  ASSUME Types, [DaemonNext]_daemonVars
  PROVE  /\ cleaning' \subseteq cleaning \/ cleaning' = Listed
         /\ \/ unresolved' \in {unresolved, NoName}
            \/ \E n \in cleaning : /\ unresolved' = n /\ hashIndex[n] = NoPath
                                   /\ UNCHANGED <<indexVars, issued>>
<1> DEFINE Goal == /\ cleaning' \subseteq cleaning \/ cleaning' = Listed
                   /\ \/ unresolved' \in {unresolved, NoName}
                      \/ \E n \in cleaning : /\ unresolved' = n /\ hashIndex[n] = NoPath
                                             /\ UNCHANGED <<indexVars, issued>>
<1> SUFFICES Goal
  OBVIOUS
<1>1. ASSUME UNCHANGED <<cleaning, unresolved>> PROVE Goal
  BY <1>1
<1>2. CASE UNCHANGED daemonVars
  BY <1>1, <1>2 DEF daemonVars, socketVars, cleanVars
<1>3. CASE Restore \/ Scan \/ Flush \/ SectionStep \/ NewVersion \/ QueueStep \/ Command
  BY <1>1, <1>3 DEF Restore, Scan, Flush, SectionStep, NewVersion, QueueStep, Command, ByItself, Elsewhere,
                    cleanVars
<1>4. CASE Transfer \/ Upload \/ FilesChange \/ CleanLeaks
  BY <1>1, <1>4 DEF Transfer, Upload, FilesChange, CleanLeaks, socketVars, cleanVars
<1>5. CASE CleanList
  BY <1>5 DEF CleanList
<1>6. ASSUME NEW n \in Names, CleanResolve(n) PROVE Goal
  BY <1>6 DEF CleanResolve, vars
<1>7. CASE CleanQueue
  BY <1>7 DEF CleanQueue
<1>8. CASE DieOfMissingFile \/ DieAnyhow
  BY <1>8 DEF DieOfMissingFile, DieAnyhow, Die
<1> HIDE DEF Goal
<1> QED BY <1>2, <1>3, <1>4, <1>5, <1>6, <1>7, <1>8 DEF DaemonNext, Clean

\* No step uses a name before it is drawn.
LEMMA UsedAreIssuedNext ==
  ASSUME Types, NamedOnce, HereHoldsData, UsedAreIssued, [DaemonNext]_daemonVars
  PROVE  UsedAreIssued'
<1>0. /\ issued \in Nat /\ issued' \in Nat /\ issued <= issued'
      /\ \A m \in Nat : m <= issued => m <= issued'
  BY HashChange
<1>1. IInv /\ IInv' /\ QueueInv /\ Types'
  BY TypesNext, IInvIsQueueInv DEF Types
<1>2. ASSUME NEW k \in Kinds, NEW i \in 1..Len(queue'[k]) PROVE queue'[k][i].name <= issued'
  <2>1. ASSUME NEW j \in 1..Len(queue[k]), queue'[k][i] = queue[k][j] PROVE queue'[k][i].name <= issued'
    <3>1. queue[k][j] \in Item(k)
      BY <1>1 DEF IInv, TypeOK, QueueTypeOK
    <3>2. queue[k][j].name \in Nat
      <4>1. queue[k][j] \in UploadItem \cup NameItem
        BY <3>1 DEF Item
      <4>2. queue[k][j].name \in Names
        BY <4>1 DEF UploadItem, NameItem
      <4> QED BY <4>2 DEF Names
    <3> QED BY <1>0, <2>1, <3>2 DEF UsedAreIssued
  <2>2. CASE Shrinks
    BY <2>1, <2>2 DEF Shrinks
  <2>3. CASE section.at = "enqueue" /\ Grows("upload", section.name)
    <3>1. section.name \in Nat
      BY <2>3, SectionFields DEF Types, IndexTypeOK, Names
    <3>2. section.name <= issued'
      BY <1>0, <2>3, <3>1 DEF UsedAreIssued
    <3> QED BY <2>1, <2>3, <3>2 DEF Grows
  <2>4. CASE DelVersion /\ UNCHANGED issued /\ Grows("delete", index[section.path][section.done + 1].name)
    <3> DEFINE n == index[section.path][section.done + 1].name
    <3>1. n <= issued'
      BY <2>4, DelNameIssued
    <3>2. Grows("delete", n)
      BY <2>4
    <3> HIDE DEF n
    <3> QED BY <2>1, <3>1, <3>2 DEF Grows
  <2>5. CASE unresolved /= NoName /\ Grows("delete", unresolved) /\ UNCHANGED <<indexVars, issued>>
    <3>1. unresolved <= issued'
      BY <2>5 DEF UsedAreIssued
    <3> QED BY <2>1, <2>5, <3>1 DEF Grows
  <2> QED BY <2>2, <2>3, <2>4, <2>5, QueueChange
<1>3. ASSUME NEW n \in Names, stored'[n] /= NoObject PROVE n <= issued'
  <2>1. CASE stored'[n] = stored[n]
    BY <1>0, <1>3, <2>1 DEF UsedAreIssued, Names
  <2>2. ASSUME NEW k \in Kinds, Visiting(k), n = Head(batch).name PROVE n <= issued'
    <3>1. PICK j \in 1..Len(queue[k]) : Head(batch) = queue[k][j]
      BY <1>1, <2>2, HeadIsQueued
    <3>2. n <= issued
      BY <2>2, <3>1 DEF UsedAreIssued
    <3> QED BY <1>0, <3>2 DEF Names
  <2>3. "upload" \in Kinds /\ "delete" \in Kinds
    BY DEF Kinds
  <2> QED BY <2>1, <2>2, <2>3, StoreChange
<1>4. ASSUME section'.at = "enqueue" PROVE section'.name <= issued'
  <2>1. CASE section'.name = issued'
    BY <1>0, <2>1
  <2>2. CASE UNCHANGED section
    <3>1. section.name \in Nat
      BY <1>4, <2>2, SectionFields DEF Types, IndexTypeOK, Names
    <3> QED BY <1>0, <1>4, <2>2, <3>1 DEF UsedAreIssued
  <2> QED BY <1>4, <2>1, <2>2, EnqueueSection
<1>5. \A n \in cleaning \cup Listed : n \in Nat /\ n <= issued /\ n <= issued'
  <2>1. \A n \in cleaning \cup Listed : n \in Names
    BY DEF Listed, Types, SocketTypeOK
  <2>2. \A n \in cleaning \cup Listed : n <= issued
    BY <2>1 DEF UsedAreIssued, Listed
  <2>3. Names \subseteq Nat
    BY DEF Names
  <2> QED BY <1>0, <2>1, <2>2, <2>3
<1>6. \A n \in cleaning' : n <= issued'
  BY <1>5, CleanSteps
<1>7. unresolved' <= issued'
  <2>1. unresolved <= issued' /\ NoName <= issued'
    <3>1. unresolved \in Nat /\ NoName \in Nat /\ NoName <= issued
      BY <1>0 DEF Types, SocketTypeOK, Names, NoName
    <3> QED BY <1>0, <3>1 DEF UsedAreIssued
  <2> QED BY <1>5, <2>1, CleanSteps
<1> QED BY <1>2, <1>3, <1>4, <1>6, <1>7 DEF UsedAreIssued

\* A restore begins at a death, which clears everything, and is left alone by
\* every thread until it is done.
LEMMA RestoreIsAloneNext ==
  ASSUME ~EarlyCommands, Types, RestoreIsAlone, [DaemonNext]_daemonVars
  PROVE  RestoreIsAlone'
<1> SUFFICES ASSUME restoring'
             PROVE  /\ section' = Free
                    /\ queue' = [k \in Kinds |-> <<>>]
                    /\ pass' = "idle"
                    /\ cleaning' = {}
                    /\ unresolved' = NoName
  BY DEF RestoreIsAlone
<1> DEFINE Goal == /\ section' = Free
                   /\ queue' = [k \in Kinds |-> <<>>]
                   /\ pass' = "idle"
                   /\ cleaning' = {}
                   /\ unresolved' = NoName
<1> SUFFICES Goal
  OBVIOUS
<1>1. CASE DieOfMissingFile \/ DieAnyhow
  BY <1>1 DEF DieOfMissingFile, DieAnyhow, Die, LoseIndex, EncryptMissing, Crash, LoseMemory
<1>2. CASE restoring
  <2>1. /\ section = Free /\ queue = [k \in Kinds |-> <<>>] /\ pass = "idle"
        /\ cleaning = {} /\ unresolved = NoName
    BY <1>2 DEF RestoreIsAlone
  <2>2. batch = <<>> /\ \A k \in Kinds : queue[k] = <<>>
    <3>1. pass \notin Kinds
      BY <2>1 DEF Kinds
    <3> QED BY <2>1, <3>1 DEF Types, IInv, PassAccounting
  <2>3. ASSUME UNCHANGED <<section, queue, pass, cleaning, unresolved>> PROVE Goal
    BY <2>1, <2>3
  <2>4. CASE UNCHANGED daemonVars
    BY <2>3, <2>4 DEF daemonVars, vars, queueVars, indexVars, watchVars, socketVars, cleanVars
  <2>5. CASE Restore
    BY <2>3, <2>5 DEF Restore, RestoreRow, RestoreDone, ByItself, Elsewhere, queueVars, cleanVars
  <2>6. ~Scan /\ ~Flush /\ ~Command
    BY <1>2 DEF Scan, ScanStart, Flush, FlushStart, Command, AddWatch, DelWatch
  <2>7. ~SectionStep /\ ~NewVersion /\ ~QueueStep
    BY <2>1 DEF Free, SectionStep, ScanEnd, ScanGone, ScanSees, ScanSame, ScanChanged, ReadModTime, DelFinish,
                FlushStatement, FlushEnd, NewVersion, AddFileVersion, QueueStep, QueueVersion, DelVersion
  <2>8. ~Clean
    BY <1>2, <2>1 DEF Clean, CleanList, CleanLeaks, CleanResolve, CleanQueue
  <2>9. \A k \in Kinds : ~Visiting(k)
    BY <2>2 DEF Visiting
  <2>10. ~Upload /\ {"upload", "delete", "download"} \subseteq Kinds
    BY <2>9 DEF Upload, Kinds
  <2>11. CASE Transfer
    <3>1. CASE NothingQueued
      BY <2>3, <2>11, <3>1 DEF Transfer, NothingQueued, indexVars, watchVars, socketVars, cleanVars
    <3>2. ~UploadRemotes /\ ~DeleteRemotes /\ ~EndPass
      BY <2>1, <2>2, <2>10 DEF UploadRemotes, DeleteRemotes, CallAPI, EndPass, Kinds
    <3>3. /\ ~UploadMissing /\ ~UploadExists /\ ~UploadStale /\ ~UploadChecked /\ ~UploadFails
          /\ ~DeleteObject /\ ~DeleteFails /\ ~DownloadObject
      BY <2>9, <2>10 DEF UploadMissing, UploadExists, UploadStale, UploadChecked, UploadFails,
                         DeleteObject, DeleteFails, DownloadObject
    <3> QED BY <2>11, <3>1, <3>2, <3>3 DEF Transfer, QuietPass, RemoteTurn
  <2>12. CASE FilesChange
    BY <2>3, <2>12 DEF FilesChange, queueVars, indexVars, watchVars, socketVars, cleanVars
  <2> HIDE DEF Goal
  <2> QED BY <1>1, <2>4, <2>5, <2>6, <2>7, <2>8, <2>10, <2>11, <2>12, Zenon DEF DaemonNext
<1> QED BY <1>1, <1>2, RestoreSteps

\* A name cleanRemote could not resolve stays unresolved.
LEMMA UnresolvedNext ==
  ASSUME Types, UsedAreIssued, RestoreIsAlone, RestoreIsAlone', UnresolvedIsUntracked, [DaemonNext]_daemonVars
  PROVE  UnresolvedIsUntracked'
<1> SUFFICES ASSUME unresolved' /= NoName PROVE hashIndex'[unresolved'] = NoPath
  BY DEF UnresolvedIsUntracked
<1>1. CASE \E n \in cleaning : unresolved' = n /\ hashIndex[n] = NoPath /\ UNCHANGED <<indexVars, issued>>
  BY <1>1 DEF indexVars, watchVars
<1>2. CASE unresolved' \in {unresolved, NoName}
  <2>1. unresolved' = unresolved /\ unresolved \in Names /\ unresolved <= issued
    BY <1>2 DEF Types, SocketTypeOK, UsedAreIssued
  <2>2. hashIndex[unresolved] = NoPath
    BY <2>1 DEF UnresolvedIsUntracked
  <2>3. ~restoring
    BY <2>1 DEF RestoreIsAlone
  <2> QED BY <2>1, <2>2, <2>3, HashChange
<1> QED BY <1>1, <1>2, CleanSteps

\* A name queued for deletion stays untracked.
LEMMA QueuedNext ==
  ASSUME Types, NamedOnce, DeletionInv, [DaemonNext]_daemonVars
  PROVE  QueuedDeletesAreUntracked'
<1> SUFFICES ASSUME NEW i \in 1..Len(queue'["delete"])
             PROVE  hashIndex'[queue'["delete"][i].name] = NoPath
  BY DEF QueuedDeletesAreUntracked
<1> USE DEF DeletionInv
<1>0. "delete" \in Kinds /\ "delete" /= "upload"
  BY DEF Kinds
<1>1. ASSUME NEW j \in 1..Len(queue["delete"]), queue'["delete"][i] = queue["delete"][j]
      PROVE  hashIndex'[queue'["delete"][i].name] = NoPath
  <2> DEFINE n == queue["delete"][j].name
  <2>1. n \in Names
    <3>1. queue["delete"][j] \in Item("delete")
      BY <1>0 DEF Types, IInv, TypeOK, QueueTypeOK
    <3> QED BY <3>1 DEF Item, NameItem
  <2>2. n <= issued
    BY <1>0 DEF UsedAreIssued
  <2>3. hashIndex[n] = NoPath
    BY DEF QueuedDeletesAreUntracked
  <2>4. ~restoring
    <3>1. 1..Len(<<>>) = {}
      OBVIOUS
    <3> QED BY <1>0, <3>1 DEF RestoreIsAlone
  <2> HIDE DEF n
  <2>5. hashIndex'[n] = NoPath
    BY <2>1, <2>2, <2>3, <2>4, HashChange
  <2> QED BY <1>1, <2>5 DEF n
<1>2. CASE Shrinks
  BY <1>0, <1>1, <1>2 DEF Shrinks
<1>3. CASE section.at = "enqueue" /\ Grows("upload", section.name)
  BY <1>0, <1>1, <1>3 DEF Grows
<1>4. CASE DelVersion /\ UNCHANGED issued /\ Grows("delete", index[section.path][section.done + 1].name)
  <2> DEFINE n == index[section.path][section.done + 1].name
  <2>1. hashIndex' = [hashIndex EXCEPT ![n] = NoPath] /\ n \in Names
    BY <1>4, DelVersionProps, DelNameIssued
  <2>2. Grows("delete", n)
    BY <1>4
  <2> HIDE DEF n
  <2>3. hashIndex'[n] = NoPath
    BY <2>1 DEF Types, IndexTypeOK
  <2> QED BY <1>0, <1>1, <2>2, <2>3 DEF Grows
<1>5. CASE unresolved /= NoName /\ Grows("delete", unresolved) /\ UNCHANGED <<indexVars, issued>>
  <2>1. hashIndex'[unresolved] = NoPath
    BY <1>5 DEF UnresolvedIsUntracked, indexVars, watchVars
  <2> QED BY <1>0, <1>1, <1>5, <2>1 DEF Grows
<1> QED BY <1>2, <1>3, <1>4, <1>5, QueueChange

\* The invariant of the deletions.
AllInv == Types /\ NamedOnce /\ HereHoldsData /\ DeletionInv

\* The invariant holds at the start ...
LEMMA AllInit == DaemonInit => AllInv
<1>1. DaemonInit => HereHoldsData
  <2> SUFFICES ASSUME DaemonInit PROVE HereHoldsData
    OBVIOUS
  <2>1. PICK here \in SUBSET Files :
          disk = [f \in Files |-> [here |-> f \in here,
                                   mod  |-> IF f \in here THEN 1 ELSE 0,
                                   data |-> IF f \in here THEN 1 ELSE 0]]
    BY DEF DaemonInit, Init, FsInit
  <2>2. ASSUME NEW f \in Files, disk[f].here PROVE disk[f].data > 0
    <3>1. f \in here
      BY <2>1, <2>2, Zenon
    <3>2. disk[f].data = 1
      BY <2>1, <3>1
    <3> QED BY <3>2
  <2> QED BY <2>2 DEF HereHoldsData
<1> QED BY <1>1, TypesInit, NamedInit, DeletionInit DEF AllInv

\* ... and is kept by every step.
LEMMA AllNext == ~EarlyCommands /\ AllInv /\ [DaemonNext]_daemonVars => AllInv'
<1> SUFFICES ASSUME ~EarlyCommands, AllInv, [DaemonNext]_daemonVars PROVE AllInv'
  OBVIOUS
<1> USE DEF AllInv
<1>1. Types' /\ NamedOnce' /\ HereHoldsData'
  BY TypesNext, NamedNext, HereHoldsDataNext
<1>2. UsedAreIssued' /\ RestoreIsAlone'
  BY UsedAreIssuedNext, RestoreIsAloneNext DEF DeletionInv
<1>3. UnresolvedIsUntracked' /\ QueuedDeletesAreUntracked'
  BY <1>2, UnresolvedNext, QueuedNext DEF DeletionInv
<1> QED BY <1>1, <1>2, <1>3 DEF DeletionInv

\* Nothing the index knows is ever queued for deletion, by delFileWatch or by
\* cleanRemote, as long as no client sends a command before the index is
\* restored.  (MCCleanWhileRestoring shows what happens otherwise.)
THEOREM DeletesAreUntracked ==
  ASSUME ~EarlyCommands
  PROVE  DaemonSpec => []QueuedDeletesAreUntracked
<1>1. AllInv => QueuedDeletesAreUntracked
  BY DEF AllInv, DeletionInv
<1>2. AllInv /\ [DaemonNext]_daemonVars => AllInv'
  BY AllNext
<1> QED BY <1>1, <1>2, AllInit, PTL DEF DaemonSpec

-------------------------------------------------------------------------------
(* What the index says is in the bucket.                                     *)

\* Before the first death of the process there is nothing to restore.
FirstStart == crashes = 0 /\ restoring => rows = <<>>

\* Steps that no death is among.
LEMMA CrashSteps ==
  ASSUME Types, [DaemonNext]_daemonVars, crashes' = 0
  PROVE  crashes = 0 /\ ~DieOfMissingFile /\ ~DieAnyhow
<1>0. crashes \in Nat
  BY DEF Types, IInv, TypeOK
<1>1. ~DieOfMissingFile /\ ~DieAnyhow
  BY <1>0 DEF DieOfMissingFile, EncryptMissing, DieAnyhow, Crash
<1>2. CASE UNCHANGED daemonVars
  BY <1>1, <1>2 DEF daemonVars, vars
<1>3. CASE Restore \/ Scan \/ Flush \/ SectionStep \/ NewVersion \/ QueueStep \/ Command
  BY <1>1, <1>3 DEF Restore, Scan, Flush, SectionStep, NewVersion, QueueStep, Command, ByItself, Elsewhere
<1>4. CASE Clean
  BY <1>1, <1>4 DEF Clean, CleanList, CleanLeaks, CleanResolve, CleanQueue, vars
<1>5. CASE Transfer \/ Upload \/ FilesChange
  BY <1>1, <1>5 DEF Transfer, Upload, FilesChange
<1> QED BY <1>1, <1>2, <1>3, <1>4, <1>5 DEF DaemonNext

\* Rows are written only after the first restore is done.
LEMMA FirstStartNext ==
  ASSUME Types, FirstStart, [DaemonNext]_daemonVars
  PROVE  FirstStart'
  BY CrashSteps, RestoreSteps DEF FirstStart

\* A version that is flagged and counts was there before: flagged already, or
\* uploaded in this step.
Uploaded(n) == Upload /\ n = Head(batch).name

LEMMA FlagSteps ==
  ASSUME Types, NamedOnce, FirstStart, [DaemonNext]_daemonVars, crashes' = 0,
         NEW p \in Files, NEW i \in 1..Len(index'[p]), NEW n \in Names,
         index'[p][i].name = n, index'[p][i].remote, hashIndex'[n] = p
  PROVE  /\ hashIndex[n] = p
         /\ \E j \in 1..Len(index[p]) : index[p][j].name = n /\ (index[p][j].remote \/ Uploaded(n))
<1> DEFINE Goal == /\ hashIndex[n] = p
                   /\ \E j \in 1..Len(index[p]) :
                        index[p][j].name = n /\ (index[p][j].remote \/ Uploaded(n))
<1> SUFFICES Goal
  OBVIOUS
<1>0. /\ index \in [Files -> Seq(Version)] /\ hashIndex \in [Names -> Files \cup {NoPath}]
      /\ p /= NoPath /\ n /= NoName
  BY DEF Types, IndexTypeOK, Names, NoName
<1>1. ASSUME UNCHANGED <<index, hashIndex>> PROVE Goal
  BY <1>1
<1>2. CASE Stays \/ Moves
  BY <1>1, <1>2 DEF Stays, Moves, indexVars, watchVars
<1>3. ASSUME NEW m, Marks(m), n = m => Uploaded(n) PROVE Goal
  <2>1. /\ UNCHANGED hashIndex /\ i \in 1..Len(index[p])
        /\ index'[p][i].name = index[p][i].name
        /\ index'[p][i].remote => index[p][i].remote \/ index[p][i].name = m
    BY <1>3 DEF Marks, Marked
  <2> QED BY <1>3, <2>1
<1>4. CASE RestoreRow /\ UNCHANGED issued
  <2>1. restoring /\ restored + 1 \in 1..Len(rows)
    BY <1>4, RestoreRowProps
  <2>2. crashes = 0
    BY CrashSteps
  <2>3. 1..Len(<<>>) = {}
    OBVIOUS
  <2> QED BY <2>1, <2>2, <2>3 DEF FirstStart
<1>5. CASE (RestoreDone \/ FlushEnd \/ FlushStatement) /\ UNCHANGED issued
  BY <1>1, <1>5 DEF RestoreDone, FlushEnd, FlushStatement
<1>6. CASE NewVersion
  <2>1. /\ section.path \in Files /\ issued \in Nat /\ issued' = issued + 1
        /\ hashIndex' = [hashIndex EXCEPT ![issued'] = section.path]
    BY <1>6, AddFileVersionProps DEF NewVersion
  <2>2. PICK v \in Version : /\ v.name = issued' /\ ~v.remote
                             /\ index' = [index EXCEPT ![section.path] = Append(@, v)]
    BY <1>6, AddFileVersionProps DEF NewVersion
  <2>3. /\ \A q \in Files : q /= section.path => index'[q] = index[q]
        /\ index'[section.path][Len(index[section.path]) + 1] = v
        /\ \A j \in 1..Len(index[section.path]) : index'[section.path][j] = index[section.path][j]
        /\ \A j \in 1..Len(index'[section.path]) :
             j \in 1..Len(index[section.path]) \/ j = Len(index[section.path]) + 1
    BY <1>0, <2>1, <2>2, AppendVersion
  <2>4. i \in 1..Len(index[p]) /\ index'[p][i] = index[p][i]
    BY <2>2, <2>3
  <2>5. n <= issued
    BY <2>4 DEF NamedOnce, AllIssued
  <2>6. n /= issued'
    BY <2>1, <2>5 DEF Names
  <2> QED BY <1>0, <2>1, <2>4, <2>6
<1>7. CASE QueueStep /\ DelVersion /\ UNCHANGED issued
  <2> DEFINE m == index[section.path][section.done + 1].name
  <2>1. hashIndex' = [hashIndex EXCEPT ![m] = NoPath] /\ UNCHANGED index
    BY <1>7, DelVersionProps
  <2> HIDE DEF m
  <2>2. hashIndex'[n] \in {NoPath, hashIndex[n]}
    BY <1>0, <2>1
  <2> QED BY <1>0, <2>1, <2>2
<1>8. CASE DelFinish /\ UNCHANGED issued
  <2>1. index' = [index EXCEPT ![section.path] = <<>>] /\ UNCHANGED hashIndex
    BY <1>8 DEF DelFinish
  <2>2. 1..Len(<<>>) = {}
    OBVIOUS
  <2>3. index'[p] = <<>> \/ index'[p] = index[p]
    BY <1>0, <2>1
  <2>4. index'[p] = index[p]
    BY <2>2, <2>3
  <2> QED BY <2>1, <2>4
<1>9. ~DieOfMissingFile /\ ~DieAnyhow
  BY CrashSteps
<1>10. CASE Marks(NoName)
  BY <1>0, <1>3, <1>10
<1>11. CASE Upload /\ Marks(Head(batch).name)
  BY <1>3, <1>11 DEF Uploaded
<1>12. IndexStep
  BY IndexSteps
<1> HIDE DEF Goal
<1> QED BY <1>2, <1>4, <1>5, <1>6, <1>7, <1>8, <1>9, <1>10, <1>11, <1>12, Zenon DEF IndexStep

\* Neither a flag nor a deletion breaks FlaggedIsStored.
LEMMA FlaggedNext ==
  ASSUME AllInv, FirstStart, FlaggedIsStored, [DaemonNext]_daemonVars
  PROVE  FlaggedIsStored'
<1> USE DEF AllInv
<1> SUFFICES ASSUME crashes' = 0, NEW p \in Files, NEW i \in 1..Len(index'[p]),
                    index'[p][i].remote, hashIndex'[index'[p][i].name] = p
             PROVE  stored'[index'[p][i].name] /= NoObject
  BY DEF FlaggedIsStored
<1>1. index'[p][i].name \in Names
  <2>1. Types'
    BY TypesNext
  <2>2. index'[p][i] \in Version
    BY <2>1 DEF Types, IndexTypeOK
  <2> QED BY <2>2 DEF Version
<1>2. PICK n \in Names : n = index'[p][i].name
  BY <1>1
<1>3. hashIndex[n] = p
  BY <1>2, FlagSteps
<1>4. PICK j \in 1..Len(index[p]) : index[p][j].name = n /\ (index[p][j].remote \/ Uploaded(n))
  BY <1>2, FlagSteps
<1>5. crashes = 0
  BY CrashSteps
<1>6. CASE Uploaded(n)
  <2>1. /\ Visiting("upload") /\ Exists(Head(batch).path) /\ n = Head(batch).name
        /\ stored' = [stored EXCEPT ![n] = disk[Head(batch).path].data]
    BY <1>6 DEF Uploaded, Upload, UploadObject
  <2>2. Head(batch) \in Item("upload")
    BY <2>1, HeadOfBatch, IInvIsQueueInv DEF Kinds, Types
  <2>3. Head(batch).path \in Files
    BY <2>2 DEF Item, UploadItem
  <2>4. disk[Head(batch).path].data > 0
    BY <2>1, <2>3 DEF Exists, HereHoldsData
  <2>5. stored'[n] > 0
    BY <2>1, <2>4 DEF Types, IInv, TypeOK, BucketTypeOK
  <2> QED BY <1>2, <2>5 DEF NoObject
<1>7. CASE index[p][j].remote
  <2>1. stored[n] /= NoObject
    BY <1>3, <1>4, <1>5, <1>7 DEF FlaggedIsStored
  <2>2. ~(n = Head(batch).name /\ Visiting("delete"))
    <3> SUFFICES ASSUME n = Head(batch).name, Visiting("delete") PROVE FALSE
      OBVIOUS
    <3>1. PICK k \in 1..Len(queue["delete"]) : Head(batch) = queue["delete"][k]
      BY HeadIsQueued DEF Kinds, Types
    <3>2. hashIndex[n] = NoPath
      BY <3>1 DEF DeletionInv, QueuedDeletesAreUntracked
    <3> QED BY <1>3, <3>2
  <2> QED BY <1>2, <2>1, <2>2, StoreChange
<1> QED BY <1>4, <1>6, <1>7

\* As long as the process has not died and no client sends a command before
\* the index is restored, what the index says is in the bucket is there, unless
\* its deletion has been queued: no pass deletes a name a version goes by.
THEOREM FlaggedAreStored ==
  ASSUME ~EarlyCommands
  PROVE  DaemonSpec => []FlaggedIsStored
<1>1. DaemonInit => AllInv /\ FirstStart /\ FlaggedIsStored
  <2>1. DaemonInit => FirstStart
    BY DEF DaemonInit, IndexInit, FirstStart
  <2>2. DaemonInit => FlaggedIsStored
    <3>1. 1..Len(<<>>) = {}
      OBVIOUS
    <3> QED BY <3>1 DEF DaemonInit, IndexInit, FlaggedIsStored
  <2> QED BY <2>1, <2>2, AllInit
<1>2. (AllInv /\ FirstStart /\ FlaggedIsStored) /\ [DaemonNext]_daemonVars
        => (AllInv /\ FirstStart /\ FlaggedIsStored)'
  <2> SUFFICES ASSUME AllInv, FirstStart, FlaggedIsStored, [DaemonNext]_daemonVars
               PROVE  AllInv' /\ FirstStart' /\ FlaggedIsStored'
    OBVIOUS
  <2>1. AllInv'
    BY AllNext
  <2>2. FirstStart' /\ FlaggedIsStored'
    BY FirstStartNext, FlaggedNext DEF AllInv
  <2> QED BY <2>1, <2>2
<1> QED BY <1>1, <1>2, PTL DEF DaemonSpec

-------------------------------------------------------------------------------
(* What Picked takes of a sequence.                                          *)

\* The place of i among the numbers in I.
Rank(I, i) == Cardinality({j \in I : j <= i})

\* Numbers are ranked from 1, in their order.
LEMMA Ranks ==
  ASSUME NEW I \in SUBSET Nat, IsFiniteSet(I)
  PROVE  /\ \A i \in I : Rank(I, i) \in 1..Cardinality(I)
         /\ \A i, j \in I : i < j => Rank(I, i) < Rank(I, j)
<1> DEFINE Low(i) == {j \in I : j <= i}
<1>1. Cardinality(I) \in Nat
  BY FS_CardinalityType
<1>2. ASSUME NEW i \in I
      PROVE  /\ IsFiniteSet(Low(i)) /\ Cardinality(Low(i)) \in Nat
             /\ Cardinality(Low(i)) <= Cardinality(I) /\ Cardinality(Low(i)) /= 0
  <2>1. Low(i) \in SUBSET I /\ i \in Low(i)
    OBVIOUS
  <2> HIDE DEF Low
  <2>2. IsFiniteSet(Low(i)) /\ Cardinality(Low(i)) <= Cardinality(I)
    BY <2>1, FS_Subset
  <2>3. Cardinality(Low(i)) \in Nat /\ Cardinality(Low(i)) /= 0
    BY <2>1, <2>2, FS_CardinalityType, FS_EmptySet
  <2> QED BY <2>2, <2>3
<1>3. ASSUME NEW i \in I, NEW j \in I, i < j PROVE Cardinality(Low(i)) < Cardinality(Low(j))
  <2>0. (\A k \in I : k <= i => k <= j) /\ ~(j <= i) /\ j <= j
    BY <1>3
  <2>1. Low(i) \in SUBSET Low(j) /\ j \in Low(j) /\ j \notin Low(i)
    BY <2>0
  <2> HIDE DEF Low
  <2>2. Cardinality(Low(i)) <= Cardinality(Low(j)) /\ Cardinality(Low(i)) /= Cardinality(Low(j))
    BY <1>2, <2>1, FS_Subset
  <2> QED BY <1>2, <2>2
<1>4. \A i : Rank(I, i) = Cardinality(Low(i))
  BY DEF Rank
<1> HIDE DEF Low
<1>5. \A i \in I : Rank(I, i) \in 1..Cardinality(I)
  BY <1>1, <1>2, <1>4
<1> QED BY <1>3, <1>4, <1>5

\* Every place is taken, so the k-th number is there and no other is.
LEMMA NthRanks ==
  ASSUME NEW I \in SUBSET Nat, IsFiniteSet(I)
  PROVE  /\ \A k \in 1..Cardinality(I) : Nth(I, k) \in I /\ Rank(I, Nth(I, k)) = k
         /\ \A i \in I : Nth(I, Rank(I, i)) = i
<1> DEFINE n == Cardinality(I)
           f == [i \in I |-> Rank(I, i)]
<1>1. n \in Nat
  BY FS_CardinalityType
<1>2. \A i, j \in I : Rank(I, i) = Rank(I, j) => i = j
  <2> SUFFICES ASSUME NEW i \in I, NEW j \in I, Rank(I, i) = Rank(I, j) PROVE i = j
    OBVIOUS
  <2>1. Rank(I, i) \in 1..n /\ Rank(I, j) \in 1..n
    BY Ranks
  <2>2. ~(Rank(I, i) < Rank(I, j)) /\ ~(Rank(I, j) < Rank(I, i))
    BY <1>1, <2>1
  <2>3. ~(i < j) /\ ~(j < i)
    BY <2>2, Ranks
  <2> QED BY <2>3
<1>3. f \in Injection(I, 1..n)
  <2>1. f \in [I -> 1..n]
    BY Ranks
  <2> QED BY <1>2, <2>1 DEF Injection, IsInjective
<1>4. IsFiniteSet(1..n) /\ Cardinality(1..n) = n
  BY <1>1, FS_Interval
<1>5. f \in Surjection(I, 1..n)
  <2> HIDE DEF f
  <2> QED BY <1>3, <1>4, FS_Injection
<1>6. \A k \in 1..n : \E i \in I : Rank(I, i) = k
  BY <1>5 DEF Surjection
<1>7. \A k : Nth(I, k) = CHOOSE i \in I : Rank(I, i) = k
  BY DEF Nth, Rank
<1>8. ASSUME NEW k, NEW j \in I, Rank(I, j) = k PROVE Nth(I, k) \in I /\ Rank(I, Nth(I, k)) = k
  BY <1>7, <1>8
<1>9. \A k \in 1..n : Nth(I, k) \in I /\ Rank(I, Nth(I, k)) = k
  BY <1>6, <1>8
<1>10. ASSUME NEW i \in I PROVE Nth(I, Rank(I, i)) = i
  <2>1. Nth(I, Rank(I, i)) \in I /\ Rank(I, Nth(I, Rank(I, i))) = Rank(I, i)
    BY <1>8
  <2> QED BY <1>2, <2>1
<1> QED BY <1>9, <1>10

\* Nothing is picked from nowhere.
LEMMA PickedNone == ASSUME NEW s PROVE Picked(s, {}) = <<>>
<1>1. 1..Cardinality({}) = {}
  BY FS_EmptySet
<1> QED BY <1>1 DEF Picked

\* Only what is picked matters.
LEMMA PickedSame ==
  ASSUME NEW s, NEW t, NEW I \in SUBSET Nat, IsFiniteSet(I), \A i \in I : s[i] = t[i]
  PROVE  Picked(s, I) = Picked(t, I)
<1>1. \A k \in 1..Cardinality(I) : s[Nth(I, k)] = t[Nth(I, k)]
  BY NthRanks
<1> QED BY <1>1 DEF Picked

\* What Append does to a sequence given element by element.
LEMMA AppendFunction ==
  ASSUME NEW n \in Nat, NEW s, s = [k \in 1..n |-> s[k]], NEW e
  PROVE  /\ Append(s, e) = [k \in 1..(n + 1) |-> IF k = n + 1 THEN e ELSE s[k]]
         /\ Len(s) = n
<1> DEFINE S == {s[k] : k \in 1..n} \cup {e}
<1>1. s \in Seq(S) /\ Len(s) = n
  <2>1. \A k \in 1..n : s[k] \in S
    OBVIOUS
  <2> HIDE DEF S
  <2>2. s \in [1..n -> S]
    BY <2>1
  <2> QED BY <2>2
<1>2. e \in S
  OBVIOUS
<1> HIDE DEF S
<1> QED BY <1>1, <1>2

\* Place n is behind those in I, where s and t have the same.
Behind(I, n, s, t) == I \in SUBSET Nat /\ IsFiniteSet(I) /\ n \in Nat /\ \A i \in I : i < n /\ s[i] = t[i]

\* One place more, behind the others.
LEMMA PickedMore ==
  ASSUME NEW s, NEW t, NEW I, NEW n, Behind(I, n, s, t)
  PROVE  Picked(t, I \cup {n}) = Append(Picked(s, I), t[n])
<1> USE DEF Behind
<1> DEFINE J == I \cup {n}
           c == Cardinality(I)
<1>1. J \in SUBSET Nat /\ IsFiniteSet(J) /\ n \notin I /\ c \in Nat /\ Cardinality(J) = c + 1
  BY FS_AddElement, FS_CardinalityType
<1>2. ASSUME NEW i \in I PROVE Rank(J, i) = Rank(I, i)
  <2>1. {j \in J : j <= i} = {j \in I : j <= i}
    OBVIOUS
  <2> QED BY <2>1 DEF Rank
<1>3. Rank(J, n) = c + 1
  <2>1. (\A j \in I : j <= n) /\ n <= n
    OBVIOUS
  <2>2. {j \in J : j <= n} = J
    BY <2>1
  <2> QED BY <1>1, <2>2 DEF Rank
<1>4. n \in J /\ \A i \in I : i \in J
  OBVIOUS
<1> HIDE DEF J
<1>5. Nth(J, c + 1) = n
  BY <1>1, <1>3, <1>4, NthRanks
<1>6. ASSUME NEW k \in 1..c PROVE Nth(J, k) = Nth(I, k) /\ Nth(I, k) \in I
  <2>1. Nth(I, k) \in I /\ Rank(I, Nth(I, k)) = k
    BY NthRanks
  <2>2. Rank(J, Nth(I, k)) = k
    BY <1>2, <2>1
  <2>3. Nth(J, Rank(J, Nth(I, k))) = Nth(I, k)
    BY <1>1, <1>4, <2>1, NthRanks
  <2> QED BY <2>1, <2>2, <2>3
<1>7. \A k \in 1..(c + 1) : k = c + 1 \/ k \in 1..c
  BY <1>1
<1>8. \A k \in 1..(c + 1) : t[Nth(J, k)] = IF k = c + 1 THEN t[n] ELSE Picked(s, I)[k]
  <2>1. \A k \in 1..c : Picked(s, I)[k] = s[Nth(I, k)]
    BY DEF Picked
  <2> QED BY <1>5, <1>6, <1>7, <2>1
<1>9. Picked(t, J) = [k \in 1..(c + 1) |-> t[Nth(J, k)]]
  BY <1>1 DEF Picked
<1>10. Picked(s, I) = [k \in 1..c |-> s[Nth(I, k)]]
  BY DEF Picked
<1>11. Picked(t, J) = [k \in 1..(c + 1) |-> IF k = c + 1 THEN t[n] ELSE Picked(s, I)[k]]
  BY <1>8, <1>9
<1>12. Append(Picked(s, I), t[n]) = [k \in 1..(c + 1) |-> IF k = c + 1 THEN t[n] ELSE Picked(s, I)[k]]
  <2> DEFINE u == Picked(s, I)
  <2>1. u = [k \in 1..c |-> u[k]]
    BY <1>10
  <2> HIDE DEF u, c
  <2>2. Append(u, t[n]) = [k \in 1..(c + 1) |-> IF k = c + 1 THEN t[n] ELSE u[k]]
    BY <1>1, <2>1, AppendFunction
  <2> QED BY <2>2 DEF u
<1> QED BY <1>11, <1>12 DEF J

\* Place m is the first of those in I.
Foremost(I, m) == I \in SUBSET Nat /\ IsFiniteSet(I) /\ m \in I /\ \A i \in I : m <= i

\* One place less, in front of the others.
LEMMA PickedFewer ==
  ASSUME NEW s, NEW I, NEW m, Foremost(I, m)
  PROVE  /\ Picked(s, I) /= <<>>
         /\ Head(Picked(s, I)) = s[m]
         /\ Tail(Picked(s, I)) = Picked(s, I \ {m})
<1> USE DEF Foremost
<1> DEFINE J == I \ {m}
           c == Cardinality(I)
<1>1. J \in SUBSET Nat /\ IsFiniteSet(J) /\ c \in Nat /\ c /= 0 /\ Cardinality(J) = c - 1
  BY FS_RemoveElement, FS_CardinalityType, FS_EmptySet
<1>2. Rank(I, m) = 1
  <2>1. \A j \in I : j <= m => j = m
    OBVIOUS
  <2>2. {j \in I : j <= m} = {m}
    BY <2>1
  <2> QED BY <2>2, FS_Singleton DEF Rank
<1>3. ASSUME NEW i \in J PROVE Rank(I, i) = Rank(J, i) + 1
  <2> DEFINE L == {j \in J : j <= i}
  <2>1. {j \in I : j <= i} = L \cup {m} /\ m \notin L /\ L \in SUBSET J
    OBVIOUS
  <2> HIDE DEF L
  <2>2. IsFiniteSet(L)
    BY <1>1, <2>1, FS_Subset
  <2>3. Cardinality(L \cup {m}) = Cardinality(L) + 1
    BY <2>1, <2>2, FS_AddElement
  <2> QED BY <2>1, <2>3 DEF Rank, L
<1>4. \A i \in J : i \in I
  OBVIOUS
<1> HIDE DEF J
<1>5. Nth(I, 1) = m
  BY <1>2, NthRanks
<1>6. ASSUME NEW k \in 1..(c - 1) PROVE Nth(I, k + 1) = Nth(J, k)
  <2>1. Nth(J, k) \in J /\ Rank(J, Nth(J, k)) = k
    BY <1>1, NthRanks
  <2>2. Rank(I, Nth(J, k)) = k + 1
    BY <1>3, <2>1
  <2>3. Nth(I, Rank(I, Nth(J, k))) = Nth(J, k)
    BY <1>4, <2>1, NthRanks
  <2> QED BY <2>2, <2>3
<1>7. Picked(s, I)[1] = s[m]
  BY <1>1, <1>5 DEF Picked
<1>8. \A k \in 1..(c - 1) : Picked(s, I)[k + 1] = s[Nth(J, k)]
  <2>1. \A k \in 1..(c - 1) : k + 1 \in 1..c
    BY <1>1
  <2> QED BY <1>6, <2>1 DEF Picked
<1>9. Picked(s, J) = [k \in 1..(c - 1) |-> s[Nth(J, k)]]
  BY <1>1 DEF Picked
<1> DEFINE u == Picked(s, I)
<1>10. Picked(s, J) = [k \in 1..(c - 1) |-> u[k + 1]]
  BY <1>8, <1>9
<1>11. u = [k \in 1..c |-> u[k]]
  BY DEF Picked
<1> HIDE DEF u, c
<1>12. u /= <<>> /\ Head(u) = u[1] /\ Tail(u) = [k \in 1..(c - 1) |-> u[k + 1]]
  <2> DEFINE S == {u[k] : k \in 1..c}
  <2>1. \A k \in 1..c : u[k] \in S
    OBVIOUS
  <2> HIDE DEF S
  <2>2. u \in [1..c -> S]
    BY <1>11, <2>1
  <2>3. u \in Seq(S) /\ Len(u) = c
    BY <1>1, <2>2
  <2>4. u /= <<>> /\ Head(u) = u[1]
    BY <1>1, <2>3
  <2>5. Tail(u) \in Seq(S) /\ Len(Tail(u)) = c - 1 /\ \A k \in 1..(c - 1) : Tail(u)[k] = u[k + 1]
    BY <1>1, <2>3, <2>4
  <2> DEFINE v == Tail(u)
  <2>6. v \in Seq(S) /\ Len(v) = c - 1 /\ \A k \in 1..(c - 1) : v[k] = u[k + 1]
    BY <2>5
  <2> HIDE DEF v
  <2>7. v = [k \in 1..(c - 1) |-> u[k + 1]]
    BY <2>6
  <2> QED BY <2>4, <2>7 DEF v
<1> QED BY <1>7, <1>10, <1>12 DEF J, u

\* The first rows, one by one.
LEMMA FirstRows ==
  ASSUME NEW S, NEW r \in Seq(S)
  PROVE  /\ \A i \in 1..Len(r) : /\ SubSeq(r, 1, i - 1) \in Seq(S) /\ r[i] \in S
                                 /\ SubSeq(r, 1, i) = Append(SubSeq(r, 1, i - 1), r[i])
         /\ SubSeq(r, 1, 0) = <<>>
         /\ SubSeq(r, 1, Len(r)) = r
<1>1. ASSUME NEW i \in 1..Len(r)
      PROVE  /\ SubSeq(r, 1, i - 1) \in Seq(S) /\ r[i] \in S
             /\ SubSeq(r, 1, i) = Append(SubSeq(r, 1, i - 1), r[i])
  <2>1. i - 1 \in Nat /\ i - 1 <= Len(r) /\ i \in Nat /\ i <= Len(r) /\ r[i] \in S
    OBVIOUS
  <2>2. SubSeq(r, 1, i - 1) = [k \in 1..(i - 1) |-> r[k]] /\ SubSeq(r, 1, i) = [k \in 1..i |-> r[k]]
    BY <2>1
  <2> DEFINE s == [k \in 1..(i - 1) |-> r[k]]
  <2>3. \A k \in 1..(i - 1) : s[k] = r[k] /\ k \in 1..Len(r)
    OBVIOUS
  <2>4. s = [k \in 1..(i - 1) |-> s[k]] /\ s \in Seq(S)
    BY <2>1
  <2> HIDE DEF s
  <2>5. Append(s, r[i]) = [k \in 1..((i - 1) + 1) |-> IF k = (i - 1) + 1 THEN r[i] ELSE s[k]]
    BY <2>1, <2>4, AppendFunction
  <2>6. (i - 1) + 1 = i /\ \A k \in 1..i : k = i \/ k \in 1..(i - 1)
    OBVIOUS
  <2>7. Append(s, r[i]) = [k \in 1..i |-> r[k]]
    BY <2>3, <2>5, <2>6
  <2> QED BY <2>1, <2>2, <2>4, <2>7 DEF s
<1>2. SubSeq(r, 1, 0) = <<>> /\ SubSeq(r, 1, Len(r)) = r
  OBVIOUS
<1> QED BY <1>1, <1>2

-------------------------------------------------------------------------------
(* The names of a path in the rows.                                          *)

Places(r, p) == {i \in DOMAIN r : r[i].path = p}

\* The places are numbers up to the length.
LEMMA PlacesProps ==
  ASSUME NEW r \in Seq(Row), NEW p
  PROVE  /\ Places(r, p) \in SUBSET Nat /\ IsFiniteSet(Places(r, p))
         /\ \A i \in Places(r, p) : i \in 1..Len(r) /\ r[i].path = p
         /\ \A i \in 1..Len(r) : r[i].path = p => i \in Places(r, p)
         /\ \A i \in 1..Len(r) : NamesOf(r)[i] = r[i].name
         /\ NamesIn(r, p) = Picked(NamesOf(r), Places(r, p))
<1>1. DOMAIN r = 1..Len(r) /\ Len(r) \in Nat
  OBVIOUS
<1>2. IsFiniteSet(1..Len(r))
  BY <1>1, FS_Interval
<1>3. Places(r, p) \in SUBSET (1..Len(r))
  BY <1>1 DEF Places
<1>4. IsFiniteSet(Places(r, p)) /\ Places(r, p) \in SUBSET Nat
  BY <1>1, <1>2, <1>3, FS_Subset
<1>5. NamesIn(r, p) = Picked(NamesOf(r), Places(r, p))
  BY DEF NamesIn, Places
<1> QED BY <1>1, <1>4, <1>5 DEF Places, NamesOf

\* No rows, no names.
LEMMA NamesInNone == \A p : NamesIn(<<>>, p) = <<>>
<1> TAKE p
<1>1. Places(<<>>, p) = {}
  BY DEF Places
<1> QED BY <1>1, PickedNone DEF NamesIn, Places

\* One more row adds its name to those of its path.
LEMMA NamesInAppend ==
  ASSUME NEW r \in Seq(Row), NEW e \in Row, NEW p
  PROVE  NamesIn(Append(r, e), p) = IF e.path = p THEN Append(NamesIn(r, p), e.name) ELSE NamesIn(r, p)
<1> DEFINE t == Append(r, e)
           n == Len(r) + 1
<1>1. /\ t \in Seq(Row) /\ Len(r) \in Nat /\ Len(t) = n /\ t[n] = e /\ n \in 1..n
      /\ \A i \in 1..Len(r) : t[i] = r[i] /\ i \in 1..n
      /\ \A i \in 1..n : i \in 1..Len(r) \/ i = n
      /\ \A i \in 1..Len(r) : i < n
  OBVIOUS
<1>2. Behind(Places(r, p), n, NamesOf(r), NamesOf(t))
  <2> HIDE DEF t, n
  <2>1. \A i \in Places(r, p) : i \in 1..Len(r) /\ i \in 1..Len(t)
    BY <1>1, PlacesProps
  <2>2. \A i \in 1..Len(r) : NamesOf(r)[i] = r[i].name /\ NamesOf(t)[i] = t[i].name
    BY <1>1, PlacesProps
  <2>3. n \in Nat /\ \A i \in Places(r, p) : i < n /\ NamesOf(r)[i] = NamesOf(t)[i]
    BY <1>1, <2>1, <2>2, PlacesProps DEF n
  <2> QED BY <2>3, PlacesProps DEF Behind
<1>3. CASE e.path = p
  <2>1. Places(t, p) = Places(r, p) \cup {n}
    <3> HIDE DEF t, n
    <3>1. ASSUME NEW i \in Places(t, p) PROVE i \in Places(r, p) \cup {n}
      BY <1>1, <3>1, PlacesProps
    <3>2. ASSUME NEW i \in Places(r, p) PROVE i \in Places(t, p)
      BY <1>1, <3>2, PlacesProps
    <3>3. n \in Places(t, p)
      BY <1>1, <1>3, PlacesProps
    <3> QED BY <3>1, <3>2, <3>3
  <2>2. n \in Nat /\ NamesOf(t)[n] = e.name
    <3> HIDE DEF t
    <3>1. NamesOf(t)[n] = t[n].name
      BY <1>1, PlacesProps
    <3> QED BY <1>1, <3>1
  <2> HIDE DEF t, n
  <2>3. Picked(NamesOf(t), Places(r, p) \cup {n}) = Append(Picked(NamesOf(r), Places(r, p)), NamesOf(t)[n])
    BY <1>2, PickedMore
  <2>4. /\ NamesIn(t, p) = Picked(NamesOf(t), Places(r, p) \cup {n})
        /\ NamesIn(r, p) = Picked(NamesOf(r), Places(r, p))
    BY <1>1, <2>1, PlacesProps
  <2> QED BY <1>3, <2>2, <2>3, <2>4 DEF t
<1>4. CASE e.path /= p
  <2>1. Places(t, p) = Places(r, p)
    <3> HIDE DEF t, n
    <3>1. ASSUME NEW i \in Places(t, p) PROVE i \in Places(r, p)
      BY <1>1, <1>4, <3>1, PlacesProps
    <3>2. ASSUME NEW i \in Places(r, p) PROVE i \in Places(t, p)
      BY <1>1, <3>2, PlacesProps
    <3> QED BY <3>1, <3>2
  <2> HIDE DEF t, n
  <2>2. Picked(NamesOf(r), Places(r, p)) = Picked(NamesOf(t), Places(r, p))
    BY <1>2, PickedSame DEF Behind
  <2>3. NamesIn(t, p) = Picked(NamesOf(t), Places(t, p)) /\ NamesIn(r, p) = Picked(NamesOf(r), Places(r, p))
    BY <1>1, PlacesProps
  <2>4. NamesIn(t, p) = NamesIn(r, p)
    BY <2>1, <2>2, <2>3
  <2> QED BY <1>4, <2>4 DEF t
<1> QED BY <1>3, <1>4

\* Marks on the rows do not show.
LEMMA NamesInMarked ==
  ASSUME NEW r \in Seq(Row), NEW t \in Seq(Row), Len(t) = Len(r),
         \A i \in 1..Len(r) : t[i].path = r[i].path /\ t[i].name = r[i].name, NEW p
  PROVE  NamesIn(t, p) = NamesIn(r, p)
<1>1. Places(t, p) = Places(r, p)
  <2>1. DOMAIN t = 1..Len(t) /\ DOMAIN r = 1..Len(r)
    OBVIOUS
  <2> QED BY <2>1 DEF Places
<1>2. \A i \in Places(r, p) : NamesOf(r)[i] = NamesOf(t)[i]
  <2>1. \A i \in Places(r, p) : i \in 1..Len(r) /\ i \in 1..Len(t)
    BY PlacesProps
  <2>2. \A i \in 1..Len(r) : NamesOf(r)[i] = r[i].name
    BY PlacesProps
  <2>3. \A i \in 1..Len(t) : NamesOf(t)[i] = t[i].name
    BY PlacesProps
  <2> QED BY <2>1, <2>2, <2>3
<1>3. Picked(NamesOf(r), Places(r, p)) = Picked(NamesOf(t), Places(r, p))
  BY <1>2, PlacesProps, PickedSame
<1>4. NamesIn(t, p) = Picked(NamesOf(t), Places(t, p)) /\ NamesIn(r, p) = Picked(NamesOf(r), Places(r, p))
  BY PlacesProps
<1> QED BY <1>1, <1>3, <1>4

\* DELETE takes all names of the path and none of the others.
LEMMA NamesInRowsNotOf ==
  ASSUME NEW r \in Seq(Row), NEW path, NEW p
  PROVE  NamesIn(RowsNotOf(r, path), p) = IF p = path THEN <<>> ELSE NamesIn(r, p)
<1> DEFINE n == Len(r)
           f == CHOOSE g : Rest(r, path, n, g)
           first(i) == SubSeq(r, 1, i)
           P(i) == /\ f[i] \in Seq(Row)
                   /\ NamesIn(f[i], p) = IF p = path THEN <<>> ELSE NamesIn(first(i), p)
           True == {i \in 0..n : P(i)}
<1>1. n \in Nat
  OBVIOUS
<1>2. Rest(r, path, n, f)
  BY <1>1, RestExists
<1>3. RowsNotOf(r, path) = f[n]
  BY DEF RowsNotOf, Rest
<1> HIDE DEF f
<1>4. f[0] = <<>> /\ \A i \in 1..n : f[i] = IF r[i].path = path THEN f[i - 1] ELSE Append(f[i - 1], r[i])
  <2> HIDE DEF n
  <2>1. 0 \in 0..n /\ \A i \in 1..n : i \in 0..n /\ i /= 0
    BY <1>1
  <2>2. \A i \in 0..n : f[i] = IF i = 0 THEN <<>>
                      ELSE IF r[i].path = path THEN f[i - 1] ELSE Append(f[i - 1], r[i])
    BY <1>2 DEF Rest
  <2> QED BY <2>1, <2>2
<1>5. 0 \in True
  <2>1. 0 \in 0..n /\ <<>> \in Seq(Row) /\ first(0) = <<>>
    BY <1>1
  <2>2. P(0)
    BY <1>4, <2>1, NamesInNone
  <2> QED BY <2>1, <2>2
<1>6. ASSUME NEW i \in 1..n, i - 1 \in True PROVE i \in True
  <2>1. P(i - 1) /\ i \in 0..n
    BY <1>1, <1>6
  <2>2. r[i] \in Row /\ first(i - 1) \in Seq(Row) /\ first(i) = Append(first(i - 1), r[i])
    BY <1>1, FirstRows
  <2> HIDE DEF first, n
  <2>3. /\ NamesIn(first(i), p) = IF r[i].path = p THEN Append(NamesIn(first(i - 1), p), r[i].name)
                                                   ELSE NamesIn(first(i - 1), p)
        /\ NamesIn(Append(f[i - 1], r[i]), p) = IF r[i].path = p THEN Append(NamesIn(f[i - 1], p), r[i].name)
                                                              ELSE NamesIn(f[i - 1], p)
    <3> DEFINE x == first(i - 1)
               y == f[i - 1]
               e == r[i]
    <3>1. x \in Seq(Row) /\ y \in Seq(Row) /\ e \in Row /\ first(i) = Append(x, e)
      BY <2>1, <2>2
    <3> HIDE DEF x, y, e
    <3>2. /\ NamesIn(Append(x, e), p) = IF e.path = p THEN Append(NamesIn(x, p), e.name) ELSE NamesIn(x, p)
          /\ NamesIn(Append(y, e), p) = IF e.path = p THEN Append(NamesIn(y, p), e.name) ELSE NamesIn(y, p)
      BY <3>1, NamesInAppend
    <3>3. first(i) = Append(x, e)
      BY <3>1
    <3> QED BY <3>2, <3>3 DEF x, y, e
  <2>4. Append(f[i - 1], r[i]) \in Seq(Row)
    BY <2>1, <2>2
  <2>5. f[i] = IF r[i].path = path THEN f[i - 1] ELSE Append(f[i - 1], r[i])
    BY <1>4
  <2>6. P(i)
    BY <2>1, <2>3, <2>4, <2>5
  <2> QED BY <2>1, <2>6
<1>7. 0..n \subseteq True
  <2> HIDE DEF True
  <2> QED BY <1>1, <1>5, <1>6, InductionUpTo
<1>8. n \in 0..n /\ n \in True
  <2> HIDE DEF True, n
  <2> QED BY <1>1, <1>7
<1>9. P(n) /\ first(n) = r
  BY <1>1, <1>8, FirstRows
<1> QED BY <1>3, <1>9

-------------------------------------------------------------------------------
(* The changes still to be executed.                                         *)

ChangesOf(q) == [i \in DOMAIN q |-> ChangeOf(q[i])]
Relevant(s) == s.do \in {"insert", "delete"}
OpenFrom(q, d) == {i \in (d + 1)..Len(q) : Relevant(q[i])}
PendingOf(q, d) == Picked(ChangesOf(q), OpenFrom(q, d))

LEMMA PendingIs ==
  /\ Pending = PendingOf(sqlQueue, Done)
  /\ Pending' = PendingOf(sqlQueue', Done')
<1>1. (IF section.at = "flush" THEN section.done + 1 ELSE 1) = Done + 1
  BY DEF Done
<1>2. (IF section'.at = "flush" THEN section'.done + 1 ELSE 1) = Done' + 1
  BY DEF Done
<1> QED BY <1>1, <1>2 DEF Pending, PendingOf, ChangesOf, OpenFrom, Relevant

LEMMA OpenProps ==
  ASSUME NEW q \in Seq(Statement), NEW d \in Nat
  PROVE  /\ OpenFrom(q, d) \in SUBSET Nat /\ IsFiniteSet(OpenFrom(q, d))
         /\ \A i \in OpenFrom(q, d) : /\ i \in 1..Len(q) /\ d < i /\ Relevant(q[i])
                                      /\ ChangesOf(q)[i] = ChangeOf(q[i])
         /\ \A i \in 1..Len(q) : d < i /\ Relevant(q[i]) => i \in OpenFrom(q, d)
<1>1. DOMAIN q = 1..Len(q) /\ Len(q) \in Nat
  OBVIOUS
<1>2. IsFiniteSet((d + 1)..Len(q))
  BY <1>1, FS_Interval
<1>3. OpenFrom(q, d) \in SUBSET ((d + 1)..Len(q))
  BY <1>1 DEF OpenFrom
<1>4. IsFiniteSet(OpenFrom(q, d)) /\ OpenFrom(q, d) \in SUBSET Nat
  BY <1>1, <1>2, <1>3, FS_Subset
<1>5. \A i \in 1..Len(q) : ChangesOf(q)[i] = ChangeOf(q[i])
  BY <1>1 DEF ChangesOf
<1>6. ASSUME NEW i \in OpenFrom(q, d) PROVE i \in 1..Len(q) /\ d < i /\ Relevant(q[i])
  BY <1>1 DEF OpenFrom
<1>7. ASSUME NEW i \in 1..Len(q), d < i, Relevant(q[i]) PROVE i \in OpenFrom(q, d)
  BY <1>1, <1>7 DEF OpenFrom
<1> QED BY <1>4, <1>5, <1>6, <1>7

\* A statement queued is pending if it makes or drops an entry.
LEMMA PendingAppend ==
  ASSUME NEW q \in Seq(Statement), NEW s \in Statement, NEW d \in Nat, d <= Len(q)
  PROVE  PendingOf(Append(q, s), d) = IF Relevant(s) THEN Append(PendingOf(q, d), ChangeOf(s)) ELSE PendingOf(q, d)
<1> DEFINE t == Append(q, s)
           n == Len(q) + 1
           here == OpenFrom(q, d)
           next == OpenFrom(t, d)
<1>1. /\ t \in Seq(Statement) /\ Len(q) \in Nat /\ Len(t) = n /\ t[n] = s /\ n \in 1..n /\ d < n /\ n \in Nat
      /\ \A i \in 1..Len(q) : t[i] = q[i] /\ i \in 1..n /\ i < n
      /\ \A i \in 1..n : i \in 1..Len(q) \/ i = n
  OBVIOUS
<1> HIDE DEF t, n
<1>2. here \in SUBSET Nat /\ IsFiniteSet(here)
  BY OpenProps
<1>3. (\A i \in here : ChangesOf(q)[i] = ChangesOf(t)[i]) /\ (\A i \in here : i < n)
  <2> SUFFICES ASSUME NEW i \in here PROVE ChangesOf(q)[i] = ChangesOf(t)[i] /\ i < n
    OBVIOUS
  <2>1. i \in 1..Len(q) /\ ChangesOf(q)[i] = ChangeOf(q[i]) /\ Relevant(q[i]) /\ d < i
    BY OpenProps
  <2>2. i \in OpenFrom(t, d)
    BY <1>1, <2>1, OpenProps
  <2>3. ChangesOf(t)[i] = ChangeOf(t[i])
    BY <1>1, <2>2, OpenProps
  <2> QED BY <1>1, <2>1, <2>3
<1>4. \A i \in here : i \in next
  <2> SUFFICES ASSUME NEW i \in here PROVE i \in next
    OBVIOUS
  <2>1. i \in 1..Len(q) /\ Relevant(q[i]) /\ d < i
    BY OpenProps
  <2> QED BY <1>1, <2>1, OpenProps
<1>5. \A i \in next : i \in here \/ (i = n /\ Relevant(s))
  <2> SUFFICES ASSUME NEW i \in next PROVE i \in here \/ (i = n /\ Relevant(s))
    OBVIOUS
  <2>1. i \in 1..n /\ Relevant(t[i]) /\ d < i
    BY <1>1, OpenProps
  <2> QED BY <1>1, <2>1, OpenProps
<1>6. CASE Relevant(s)
  <2>1. n \in next
    BY <1>1, <1>6, OpenProps
  <2>2. next = here \cup {n}
    BY <1>4, <1>5, <2>1
  <2>3. ChangesOf(t)[n] = ChangeOf(s)
    BY <1>1, <2>1, OpenProps
  <2> DEFINE u == ChangesOf(q)
             v == ChangesOf(t)
  <2>4. Behind(here, n, u, v)
    BY <1>1, <1>2, <1>3 DEF Behind
  <2> HIDE DEF here, next, u, v
  <2>5. Picked(v, here \cup {n}) = Append(Picked(u, here), v[n])
    BY <2>4, PickedMore
  <2> QED BY <1>6, <2>2, <2>3, <2>5 DEF here, next, u, v, t, PendingOf
<1>7. CASE ~Relevant(s)
  <2>1. next = here
    BY <1>4, <1>5, <1>7
  <2>2. Picked(ChangesOf(q), here) = Picked(ChangesOf(t), here)
    BY <1>2, <1>3, PickedSame
  <2> QED BY <1>7, <2>1, <2>2 DEF t, PendingOf
<1> QED BY <1>6, <1>7

\* Of the statements to be executed the next one is the first of the pending,
\* if it is one of them.
LEMMA PendingExecuted ==
  ASSUME NEW q \in Seq(Statement), NEW d \in Nat, d + 1 \in 1..Len(q)
  PROVE  /\ ~Relevant(q[d + 1]) => PendingOf(q, d + 1) = PendingOf(q, d)
         /\ Relevant(q[d + 1]) => /\ PendingOf(q, d) /= <<>>
                                  /\ Head(PendingOf(q, d)) = ChangeOf(q[d + 1])
                                  /\ Tail(PendingOf(q, d)) = PendingOf(q, d + 1)
<1> DEFINE here == OpenFrom(q, d)
           next == OpenFrom(q, d + 1)
           m == d + 1
<1>1. m \in Nat /\ d < m /\ Len(q) \in Nat /\ \A i \in 1..Len(q) : (d < i <=> i = m \/ m < i) /\ (m < i => i /= m /\ m <= i)
  OBVIOUS
<1>2. here \in SUBSET Nat /\ IsFiniteSet(here)
  BY OpenProps
<1>3. \A i \in next : i \in here /\ i /= m /\ m < i
  <2> SUFFICES ASSUME NEW i \in next PROVE i \in here /\ i /= m /\ m < i
    OBVIOUS
  <2>1. i \in 1..Len(q) /\ m < i /\ Relevant(q[i])
    BY <1>1, OpenProps
  <2> QED BY <1>1, <2>1, OpenProps
<1>4. \A i \in here : (i = m /\ Relevant(q[m])) \/ (i \in next /\ m < i)
  <2> SUFFICES ASSUME NEW i \in here PROVE (i = m /\ Relevant(q[m])) \/ (i \in next /\ m < i)
    OBVIOUS
  <2>1. i \in 1..Len(q) /\ d < i /\ Relevant(q[i])
    BY OpenProps
  <2> QED BY <1>1, <2>1, OpenProps
<1>5. CASE ~Relevant(q[m])
  <2>1. here = next
    BY <1>3, <1>4, <1>5
  <2> QED BY <1>5, <2>1 DEF PendingOf
<1>6. CASE Relevant(q[m])
  <2>1. m \in here /\ ChangesOf(q)[m] = ChangeOf(q[m])
    BY <1>1, <1>6, OpenProps
  <2>2. next = here \ {m}
    BY <1>3, <1>4
  <2>3. \A i \in here : m <= i
    <3> SUFFICES ASSUME NEW i \in here PROVE m <= i
      OBVIOUS
    <3>1. i = m \/ m < i
      BY <1>4
    <3>2. i \in Nat
      BY <1>2
    <3> HIDE DEF here
    <3> QED BY <1>1, <3>1, <3>2
  <2> DEFINE u == ChangesOf(q)
  <2>5. Foremost(here, m)
    BY <1>2, <2>1, <2>3 DEF Foremost
  <2> HIDE DEF here, next, m, u
  <2>4. Picked(u, here) /= <<>> /\ Head(Picked(u, here)) = u[m] /\ Tail(Picked(u, here)) = Picked(u, here \ {m})
    BY <2>5, PickedFewer
  <2> QED BY <1>6, <2>1, <2>2, <2>4 DEF u, m, here, next, PendingOf
<1> QED BY <1>5, <1>6

\* With nothing to execute that makes or drops an entry, nothing is pending.
LEMMA PendingNothing ==
  ASSUME NEW q \in Seq(Statement), NEW d \in Nat, \A i \in 1..Len(q) : d < i => ~Relevant(q[i])
  PROVE  PendingOf(q, d) = <<>>
<1>1. OpenFrom(q, d) = {}
  BY OpenProps
<1> QED BY <1>1, PickedNone DEF PendingOf

-------------------------------------------------------------------------------
(* The index and the database behind it.                                     *)

Current == [p \in Files |-> IF restoring THEN NamesInDb(p) ELSE NamesOf(index[p])]
Durable == [p \in Files |-> NamesInDb(p)]

\* What restoreFileIdx has read is in the index, in the order of the rows.
ReadSoFar == restoring => \A q \in Files : NamesOf(index[q]) = NamesIn(SubSeq(rows, 1, restored), q)

\* Behind the statements a flush has counted there are none that matter.
FlushCovers == section.at = "flush" => \A i \in 1..Len(sqlQueue) : section.size < i => ~Relevant(sqlQueue[i])

BehindInv == AllInv /\ ReadSoFar /\ FlushCovers

\* Names of versions, and of versions marked or added to.
LEMMA NamesOfProps ==
  ASSUME NEW v \in Seq(Version)
  PROVE  /\ NamesOf(v) \in Seq(Names)
         /\ \A e \in Version : NamesOf(Append(v, e)) = Append(NamesOf(v), e.name)
         /\ \A w \in Seq(Version) :
              Len(w) = Len(v) /\ (\A i \in 1..Len(v) : w[i].name = v[i].name) => NamesOf(w) = NamesOf(v)
<1>1. DOMAIN v = 1..Len(v) /\ Len(v) \in Nat
  OBVIOUS
<1>2. \A e \in Version : e.name \in Names
  BY DEF Version
<1>3. NamesOf(v) = [i \in 1..Len(v) |-> v[i].name] /\ \A i \in 1..Len(v) : v[i].name \in Names
  BY <1>1, <1>2 DEF NamesOf
<1>4. NamesOf(v) \in Seq(Names) /\ Len(NamesOf(v)) = Len(v)
  BY <1>1, <1>3
<1>5. ASSUME NEW e \in Version PROVE NamesOf(Append(v, e)) = Append(NamesOf(v), e.name)
  <2> DEFINE t == Append(v, e)
             n == Len(v) + 1
             u == NamesOf(v)
  <2>1. /\ DOMAIN t = 1..n /\ t[n] = e /\ \A i \in 1..Len(v) : t[i] = v[i]
        /\ \A i \in 1..n : i = n \/ i \in 1..Len(v)
    BY <1>1
  <2> HIDE DEF t
  <2>2. NamesOf(t) = [i \in 1..n |-> t[i].name]
    BY <2>1 DEF NamesOf
  <2>3. \A i \in 1..n : t[i].name = IF i = n THEN e.name ELSE u[i]
    BY <1>3, <2>1
  <2>4. u = [i \in 1..Len(v) |-> u[i]]
    BY <1>3
  <2> HIDE DEF u
  <2>5. Append(u, e.name) = [i \in 1..n |-> IF i = n THEN e.name ELSE u[i]]
    BY <1>1, <2>4, AppendFunction
  <2> QED BY <2>2, <2>3, <2>5 DEF t, u
<1>6. ASSUME NEW w \in Seq(Version), Len(w) = Len(v), \A i \in 1..Len(v) : w[i].name = v[i].name
      PROVE  NamesOf(w) = NamesOf(v)
  <2>1. DOMAIN w = 1..Len(v)
    BY <1>6
  <2> QED BY <1>1, <1>6, <2>1 DEF NamesOf
<1> QED BY <1>4, <1>5, <1>6

\* The names in the rows are names.
LEMMA NamesInType ==
  ASSUME NEW r \in Seq(Row), NEW p
  PROVE  NamesIn(r, p) \in Seq(Names)
<1> DEFINE c == Cardinality(Places(r, p))
<1>1. c \in Nat
  BY PlacesProps, FS_CardinalityType
<1>2. NamesIn(r, p) = [k \in 1..c |-> NamesOf(r)[Nth(Places(r, p), k)]]
  BY PlacesProps DEF Picked
<1>3. ASSUME NEW k \in 1..c PROVE NamesOf(r)[Nth(Places(r, p), k)] \in Names
  <2>1. Nth(Places(r, p), k) \in Places(r, p)
    BY PlacesProps, NthRanks
  <2>2. Nth(Places(r, p), k) \in 1..Len(r)
    BY <2>1, PlacesProps
  <2>3. NamesOf(r)[Nth(Places(r, p), k)] = r[Nth(Places(r, p), k)].name
    BY <2>2, PlacesProps
  <2>4. \A i \in 1..Len(r) : r[i] \in Row
    OBVIOUS
  <2> QED BY <2>2, <2>3, <2>4 DEF Row
<1> HIDE DEF c
<1>4. NamesIn(r, p) \in [1..c -> Names]
  BY <1>2, <1>3
<1> QED BY <1>1, <1>4

\* The changes the statements make.
Add(p, n) == [key |-> p, add |-> <<n>>]
Added(f, p, n) == [f EXCEPT ![p] = Append(@, n)]

LEMMA ApplyAdd ==
  ASSUME NEW f \in [Files -> Seq(Names)], NEW p \in Files, NEW n \in Names
  PROVE  IndexWriteBehind!Apply(f, Add(p, n)) = Added(f, p, n)
<1> DEFINE s == f[p]
<1>1. s \in Seq(Names) /\ <<n>> /= <<>>
  OBVIOUS
<1>2. s \o <<n>> = Append(s, n)
  <2> HIDE DEF s
  <2> QED BY <1>1
<1>3. IndexWriteBehind!Apply(f, Add(p, n)) = [f EXCEPT ![p] = s \o <<n>>]
  BY <1>1 DEF IndexWriteBehind!Apply, Add
<1> QED BY <1>2, <1>3 DEF Added

LEMMA ApplyDrop ==
  ASSUME NEW f \in [Files -> Seq(Names)], NEW p \in Files
  PROVE  IndexWriteBehind!Apply(f, [key |-> p, add |-> <<>>]) = [f EXCEPT ![p] = <<>>]
  BY DEF IndexWriteBehind!Apply

\* What the index and the rows stand for has the type of WriteBehind.
LEMMA BehindTypes ==
  ASSUME Types
  PROVE  /\ Current \in [Files -> Seq(Names)] /\ Durable \in [Files -> Seq(Names)]
         /\ sqlQueue \in Seq(Statement) /\ Len(sqlQueue) \in Nat
         /\ Done \in Nat /\ Done <= Len(sqlQueue)
<1>1. rows \in Seq(Row) /\ index \in [Files -> Seq(Version)] /\ sqlQueue \in Seq(Statement) /\ section \in Section
  BY DEF Types, IndexTypeOK
<1>2. \A p \in Files : NamesInDb(p) \in Seq(Names) /\ NamesOf(index[p]) \in Seq(Names)
  BY <1>1, NamesInType, NamesOfProps DEF NamesInDb
<1>3. Len(sqlQueue) \in Nat
  BY <1>1
<1>4. Done \in Nat /\ Done <= Len(sqlQueue)
  <2>1. CASE section.at = "flush"
    <3>1. section.done \in Nat /\ section.size \in Nat
      BY <1>1, <2>1, SectionFields
    <3> QED BY <1>3, <2>1, <3>1 DEF Types, SectionOK, Done
  <2> QED BY <1>3, <2>1 DEF Done
<1> QED BY <1>1, <1>2, <1>3, <1>4 DEF Current, Durable

\* The steps of a WriteBehind.
Same == UNCHANGED <<Current, Pending, Durable>>
Makes(c) ==
  Current' = IndexWriteBehind!Apply(Current, c) /\ Pending' = Append(Pending, c) /\ UNCHANGED Durable
Persists ==
  /\ Pending /= <<>>
  /\ Durable' = IndexWriteBehind!Apply(Durable, Head(Pending))
  /\ Pending' = Tail(Pending)
  /\ UNCHANGED Current
Dies == Current' = Durable /\ Pending' = <<>> /\ UNCHANGED Durable

BehindStep ==
  \/ Same
  \/ \E p \in Files : Makes([key |-> p, add |-> <<>>])
  \/ \E p \in Files, n \in Names : Makes([key |-> p, add |-> <<n>>])
  \/ Persists
  \/ Dies

\* Where only the marks of versions change, the names stay.
LEMMA NamesStay ==
  ASSUME UNCHANGED <<restoring, rows>>, \A p \in Files : NamesOf(index'[p]) = NamesOf(index[p])
  PROVE  UNCHANGED <<Current, Durable>>
  BY DEF Current, Durable, NamesInDb

\* Nothing happens, or the holder of Watch::mtx goes on.
LEMMA MovesBehind ==
  ASSUME Types, Stays \/ Moves \/ (DelVersion /\ UNCHANGED issued)
  PROVE  Same
<1>1. UNCHANGED <<index, sqlQueue, rows, restoring>>
  BY DEF Stays, Moves, DelVersion, indexVars, watchVars
<1>2. Done' = Done
  <2>1. CASE Stays
    BY <2>1 DEF Stays, indexVars, watchVars, Done
  <2>2. CASE Moves
    BY <2>2 DEF Moves, Done
  <2>3. CASE DelVersion
    BY <2>3, DelVersionProps DEF Done
  <2> QED BY <2>1, <2>2, <2>3
<1>3. Pending' = Pending
  BY <1>1, <1>2, PendingIs
<1>4. UNCHANGED <<Current, Durable>>
  BY <1>1, NamesStay
<1> QED BY <1>3, <1>4 DEF Same

\* Marking versions changes no names, nor does the statement that says so.
LEMMA MarksNames ==
  ASSUME Types, NEW n, Marks(n)
  PROVE  \A p \in Files : NamesOf(index'[p]) = NamesOf(index[p])
<1> SUFFICES ASSUME NEW p \in Files PROVE NamesOf(index'[p]) = NamesOf(index[p])
  OBVIOUS
<1> DEFINE v == index[p]
           w == index'[p]
<1>1. v \in Seq(Version) /\ w \in Seq(Version) /\ Len(w) = Len(v) /\ \A i \in 1..Len(v) : w[i].name = v[i].name
  BY DEF Marks, Marked, Types, IndexTypeOK
<1> HIDE DEF v, w
<1>2. NamesOf(w) = NamesOf(v)
  BY <1>1, NamesOfProps
<1> QED BY <1>2 DEF v, w

LEMMA MarksBehind ==
  ASSUME Types, NEW n, Marks(n)
  PROVE  Same
<1>1. UNCHANGED <<rows, restoring>> /\ Done' = Done
  BY DEF Marks, Done
<1>2. \A p \in Files : NamesOf(index'[p]) = NamesOf(index[p])
  BY MarksNames
<1>3. Pending' = Pending
  <2>1. CASE sqlQueue' = sqlQueue
    BY <1>1, <2>1, PendingIs
  <2>2. ASSUME NEW s \in Statement, s.do \notin {"insert", "delete"}, QueueSql(s) PROVE Pending' = Pending
    <3>1. sqlQueue' = Append(sqlQueue, s) /\ ~Relevant(s)
      BY <2>2 DEF QueueSql, Relevant
    <3>2. PendingOf(Append(sqlQueue, s), Done) = PendingOf(sqlQueue, Done)
      BY <3>1, BehindTypes, PendingAppend
    <3> QED BY <1>1, <3>1, <3>2, PendingIs
  <2> QED BY <2>1, <2>2 DEF Marks
<1> QED BY <1>1, <1>2, <1>3, NamesStay DEF Same

\* While the index is restored it counts as what it will be.
LEMMA RestoreBehind ==
  ASSUME Types, ReadSoFar, (RestoreRow \/ RestoreDone) /\ UNCHANGED issued
  PROVE  Same
<1>1. restoring /\ UNCHANGED <<sqlQueue, rows, section>>
  BY DEF RestoreRow, RestoreDone
<1>2. Pending' = Pending
  BY <1>1 DEF Pending
<1>3. Durable' = Durable
  BY <1>1 DEF Durable, NamesInDb
<1>4. Current' = Current
  <2>1. CASE RestoreRow
    BY <1>1, <2>1 DEF RestoreRow, Current, NamesInDb
  <2>2. CASE RestoreDone
    <3>1. restored = Len(rows) /\ restoring' = FALSE /\ index' = index
      BY <2>2 DEF RestoreDone
    <3>2. SubSeq(rows, 1, restored) = rows
      BY <3>1, FirstRows DEF Types, IndexTypeOK
    <3>3. \A q \in Files : NamesOf(index[q]) = NamesInDb(q)
      BY <1>1, <3>2 DEF ReadSoFar, NamesInDb
    <3> QED BY <1>1, <3>1, <3>3 DEF Current
  <2> QED BY <2>1, <2>2
<1> QED BY <1>2, <1>3, <1>4 DEF Same

\* A new version, or a path dropped, is a change made.
LEMMA NewVersionBehind ==
  ASSUME Types, RestoreIsAlone, AddFileVersion
  PROVE  \E p \in Files, n \in Names : Makes([key |-> p, add |-> <<n>>])
<1> DEFINE p == section.path
           n == issued'
           c == [key |-> p, add |-> <<n>>]
<1>1. /\ section.at = "hash" /\ p \in Files /\ n \in Names /\ section'.at = "enqueue"
      /\ UNCHANGED <<rows, restoring, restored>>
  BY AddFileVersionProps
<1>2. ~restoring
  BY <1>1 DEF RestoreIsAlone, Free
<1>3. PICK v \in Version : v.name = n /\ index' = [index EXCEPT ![p] = Append(@, v)]
  BY AddFileVersionProps
<1>4. PICK s \in Statement : s.do = "insert" /\ s.path = p /\ s.name = n /\ QueueSql(s)
  BY AddFileVersionProps
<1> HIDE DEF p, n
<1>5. Pending' = Append(Pending, c)
  <2>1. Done' = Done
    BY <1>1 DEF Done
  <2>2. sqlQueue' = Append(sqlQueue, s) /\ Relevant(s) /\ ChangeOf(s) = c
    BY <1>4 DEF QueueSql, Relevant, ChangeOf
  <2> HIDE DEF c
  <2>3. PendingOf(Append(sqlQueue, s), Done) = Append(PendingOf(sqlQueue, Done), c)
    BY <2>2, BehindTypes, PendingAppend
  <2> QED BY <2>1, <2>2, <2>3, PendingIs
<1>6. Current' = IndexWriteBehind!Apply(Current, c)
  <2>1. index \in [Files -> Seq(Version)] /\ Current = [q \in Files |-> NamesOf(index[q])]
        /\ Current' = [q \in Files |-> NamesOf(index'[q])]
    BY <1>1, <1>2 DEF Types, IndexTypeOK, Current
  <2>2. NamesOf(Append(index[p], v)) = Append(NamesOf(index[p]), n)
    BY <1>1, <1>3, <2>1, NamesOfProps
  <2>3. \A q \in Files : NamesOf(index'[q]) = IF q = p THEN Append(NamesOf(index[p]), n) ELSE NamesOf(index[q])
    BY <1>1, <1>3, <2>1, <2>2
  <2>4. Current' = [Current EXCEPT ![p] = Append(@, n)]
    BY <1>1, <2>1, <2>3
  <2>5. Current \in [Files -> Seq(Names)]
    BY BehindTypes
  <2>6. IndexWriteBehind!Apply(Current, Add(p, n)) = Added(Current, p, n)
    BY <1>1, <2>5, ApplyAdd
  <2> QED BY <2>4, <2>6 DEF Add, Added
<1>7. UNCHANGED Durable
  BY <1>1 DEF Durable, NamesInDb
<1> QED BY <1>1, <1>5, <1>6, <1>7 DEF Makes

LEMMA DelFinishBehind ==
  ASSUME Types, RestoreIsAlone, DelFinish
  PROVE  \E p \in Files : Makes([key |-> p, add |-> <<>>])
<1> DEFINE p == section.path
           c == [key |-> p, add |-> <<>>]
           s == [do |-> "delete", path |-> p]
<1>1. /\ section.at = "delete" /\ section \in Section /\ section' = Free
      /\ index' = [index EXCEPT ![p] = <<>>] /\ QueueSql(s)
      /\ UNCHANGED <<rows, restoring>>
  BY DEF DelFinish, Types, IndexTypeOK
<1>2. p \in Files /\ ~restoring /\ section'.at = "free"
  BY <1>1, SectionFields DEF RestoreIsAlone, Free
<1>3. s \in Statement
  BY <1>2 DEF Statement
<1>4. sqlQueue' = Append(sqlQueue, s) /\ Relevant(s) /\ ChangeOf(s) = c
  BY <1>1 DEF QueueSql, Relevant, ChangeOf
<1> HIDE DEF p, s
<1>5. Pending' = Append(Pending, c)
  <2>1. Done' = Done
    BY <1>1, <1>2 DEF Done
  <2> HIDE DEF c
  <2>2. PendingOf(Append(sqlQueue, s), Done) = Append(PendingOf(sqlQueue, Done), c)
    BY <1>3, <1>4, BehindTypes, PendingAppend
  <2> QED BY <1>4, <2>1, <2>2, PendingIs
<1>6. Current' = IndexWriteBehind!Apply(Current, c)
  <2>1. index \in [Files -> Seq(Version)] /\ Current = [q \in Files |-> NamesOf(index[q])]
        /\ Current' = [q \in Files |-> NamesOf(index'[q])]
    BY <1>1, <1>2 DEF Types, IndexTypeOK, Current
  <2>2. NamesOf(<<>>) = <<>>
    BY DEF NamesOf
  <2>3. \A q \in Files : NamesOf(index'[q]) = IF q = p THEN <<>> ELSE NamesOf(index[q])
    BY <1>1, <1>2, <2>1, <2>2
  <2>4. Current' = [Current EXCEPT ![p] = <<>>]
    BY <1>2, <2>1, <2>3
  <2> QED BY <1>2, <2>4, BehindTypes, ApplyDrop
<1>7. UNCHANGED Durable
  BY <1>1 DEF Durable, NamesInDb
<1> QED BY <1>2, <1>5, <1>6, <1>7 DEF Makes

\* What a statement makes of the names in the rows.
LEMMA ExecuteNames ==
  ASSUME NEW r \in Seq(Row), NEW s \in Statement, NEW q
  PROVE  NamesIn(Execute(r, s), q) =
           CASE s.do = "insert" /\ q = s.path -> Append(NamesIn(r, q), s.name)
             [] s.do = "delete" /\ q = s.path -> <<>>
             [] OTHER                         -> NamesIn(r, q)
<1>1. CASE s.do = "insert"
  <2>1. PICK e \in Row : e.path = s.path /\ e.name = s.name /\ Execute(r, s) = Append(r, e)
    BY <1>1, ExecuteProps
  <2>2. NamesIn(Execute(r, s), q) = IF s.path = q THEN Append(NamesIn(r, q), s.name) ELSE NamesIn(r, q)
    BY <2>1, NamesInAppend
  <2> QED BY <1>1, <2>2
<1>2. CASE s.do = "delete"
  <2>1. Execute(r, s) = RowsNotOf(r, s.path)
    BY <1>2 DEF Execute
  <2>2. NamesIn(Execute(r, s), q) = IF q = s.path THEN <<>> ELSE NamesIn(r, q)
    BY <2>1, NamesInRowsNotOf
  <2> QED BY <1>2, <2>2
<1>3. CASE s.do \in {"gone", "uploaded"}
  <2> DEFINE t == Execute(r, s)
  <2>1. t \in Seq(Row) /\ Len(t) = Len(r) /\ \A k \in 1..Len(r) : t[k].path = r[k].path /\ t[k].name = r[k].name
    BY <1>3, ExecuteProps
  <2> HIDE DEF t
  <2>2. NamesIn(t, q) = NamesIn(r, q)
    BY <2>1, NamesInMarked
  <2> QED BY <1>3, <2>2 DEF t
<1>4. s.do \in {"insert", "gone", "uploaded", "delete"}
  BY DEF Statement
<1> QED BY <1>1, <1>2, <1>3, <1>4

\* A statement executed takes the first pending change to the database.
LEMMA FlushStatementBehind ==
  ASSUME Types, FlushStatement
  PROVE  Same \/ Persists
<1> DEFINE s == sqlQueue[section.done + 1]
<1>1. /\ section.at = "flush" /\ section'.at = "flush" /\ ~restoring
      /\ section.done + 1 \in 1..Len(sqlQueue) /\ s \in Statement
      /\ rows' = Execute(rows, s) /\ section'.done = section.done + 1
      /\ UNCHANGED <<index, sqlQueue, restoring>>
  BY FlushStatementProps
<1>2. Done = section.done /\ Done' = Done + 1 /\ s = sqlQueue[Done + 1] /\ Done + 1 \in 1..Len(sqlQueue)
  BY <1>1 DEF Done
<1> HIDE DEF s
<1>3. Current' = Current
  BY <1>1 DEF Current
<1>4. rows \in Seq(Row)
  BY DEF Types, IndexTypeOK
<1>5. \A q \in Files : NamesIn(rows', q) =
           CASE s.do = "insert" /\ q = s.path -> Append(NamesIn(rows, q), s.name)
             [] s.do = "delete" /\ q = s.path -> <<>>
             [] OTHER                         -> NamesIn(rows, q)
  BY <1>1, <1>4, ExecuteNames
<1>6. CASE ~Relevant(s)
  <2>1. PendingOf(sqlQueue, Done + 1) = PendingOf(sqlQueue, Done)
    BY <1>2, <1>6, BehindTypes, PendingExecuted
  <2>2. Pending' = Pending
    BY <1>1, <1>2, <2>1, PendingIs
  <2>3. Durable' = Durable
    BY <1>5, <1>6 DEF Relevant, Durable, NamesInDb
  <2> QED BY <1>3, <2>2, <2>3 DEF Same
<1>7. CASE Relevant(s)
  <2>1. /\ PendingOf(sqlQueue, Done) /= <<>>
        /\ Head(PendingOf(sqlQueue, Done)) = ChangeOf(s)
        /\ Tail(PendingOf(sqlQueue, Done)) = PendingOf(sqlQueue, Done + 1)
    BY <1>2, <1>7, BehindTypes, PendingExecuted
  <2>2. Pending /= <<>> /\ Head(Pending) = ChangeOf(s) /\ Pending' = Tail(Pending)
    BY <1>1, <1>2, <2>1, PendingIs
  <2>3. s.path \in Files /\ (s.do = "insert" => s.name \in Names)
    BY <1>1, <1>7 DEF Statement, Relevant
  <2>4. Durable' = IndexWriteBehind!Apply(Durable, ChangeOf(s))
    <3>1. CASE s.do = "insert"
      <4>1. Durable' = [Durable EXCEPT ![s.path] = Append(@, s.name)]
        BY <1>5, <2>3, <3>1 DEF Durable, NamesInDb
      <4>2. ChangeOf(s) = [key |-> s.path, add |-> <<s.name>>]
        BY <3>1 DEF ChangeOf
      <4>3. Durable \in [Files -> Seq(Names)]
        BY BehindTypes
      <4>4. IndexWriteBehind!Apply(Durable, Add(s.path, s.name)) = Added(Durable, s.path, s.name)
        BY <2>3, <3>1, <4>3, ApplyAdd
      <4> QED BY <4>1, <4>2, <4>4 DEF Add, Added
    <3>2. CASE s.do = "delete"
      <4>1. Durable' = [Durable EXCEPT ![s.path] = <<>>]
        BY <1>5, <2>3, <3>2 DEF Durable, NamesInDb
      <4>2. ChangeOf(s) = [key |-> s.path, add |-> <<>>]
        BY <3>2 DEF ChangeOf
      <4> QED BY <2>3, <3>2, <4>1, <4>2, BehindTypes, ApplyDrop
    <3> QED BY <1>7, <3>1, <3>2 DEF Relevant
  <2> QED BY <1>3, <2>2, <2>4 DEF Persists
<1> QED BY <1>6, <1>7

\* What is thrown away at the end of a flush makes no change.
LEMMA FlushEndBehind ==
  ASSUME Types, FlushCovers, FlushEnd
  PROVE  Same
<1>1. /\ section.at = "flush" /\ section.done = section.size /\ section' = Free
      /\ sqlQueue' = <<>> /\ UNCHANGED <<index, rows, restoring>>
  BY DEF FlushEnd
<1>2. Pending = <<>>
  <2>1. Done = section.size
    BY <1>1 DEF Done
  <2>2. \A i \in 1..Len(sqlQueue) : Done < i => ~Relevant(sqlQueue[i])
    BY <1>1, <2>1 DEF FlushCovers
  <2>3. PendingOf(sqlQueue, Done) = <<>>
    BY <2>2, BehindTypes, PendingNothing
  <2> QED BY <2>3, PendingIs
<1>3. PendingOf(<<>>, 0) = <<>>
  <2>1. <<>> \in Seq(Statement) /\ 0 \in Nat /\ \A i \in 1..Len(<<>>) : FALSE
    OBVIOUS
  <2> QED BY <2>1, PendingNothing
<1>4. Pending' = <<>>
  <2>1. Done' = 0
    BY <1>1 DEF Done, Free
  <2> QED BY <1>1, <1>3, <2>1, PendingIs
<1>5. UNCHANGED <<Current, Durable>>
  BY <1>1, NamesStay
<1> QED BY <1>2, <1>4, <1>5 DEF Same

\* A death takes the index back to the rows.
LEMMA LoseIndexBehind ==
  ASSUME LoseIndex
  PROVE  Dies
<1>1. sqlQueue' = <<>> /\ restoring' = TRUE /\ section' = Free /\ UNCHANGED rows
  BY DEF LoseIndex
<1>2. PendingOf(<<>>, 0) = <<>>
  <2>1. <<>> \in Seq(Statement) /\ 0 \in Nat /\ \A i \in 1..Len(<<>>) : FALSE
    OBVIOUS
  <2> QED BY <2>1, PendingNothing
<1>3. Done' = 0
  BY <1>1 DEF Done, Free
<1>4. Pending' = <<>>
  BY <1>1, <1>2, <1>3, PendingIs
<1> QED BY <1>1, <1>4 DEF Dies, Current, Durable, NamesInDb

\* Every step is a step of a WriteBehind.
LEMMA BehindSteps ==
  ASSUME BehindInv, [DaemonNext]_daemonVars
  PROVE  BehindStep
<1> USE DEF BehindInv, AllInv, DeletionInv
<1>1. IndexStep
  BY IndexSteps
<1>2. CASE Stays \/ Moves \/ (QueueStep /\ DelVersion /\ UNCHANGED issued)
  BY <1>2, MovesBehind DEF BehindStep
<1>3. ASSUME NEW n, Marks(n) PROVE BehindStep
  BY <1>3, MarksBehind DEF BehindStep
<1>4. CASE (RestoreRow \/ RestoreDone) /\ UNCHANGED issued
  BY <1>4, RestoreBehind DEF BehindStep
<1>5. CASE NewVersion
  BY <1>5, NewVersionBehind DEF NewVersion, BehindStep
<1>6. CASE DelFinish
  BY <1>6, DelFinishBehind DEF BehindStep
<1>7. CASE FlushStatement
  BY <1>7, FlushStatementBehind DEF BehindStep
<1>8. CASE FlushEnd
  BY <1>8, FlushEndBehind DEF BehindStep
<1>9. CASE DieOfMissingFile \/ DieAnyhow
  BY <1>9, LoseIndexBehind DEF DieOfMissingFile, DieAnyhow, Die, BehindStep
<1> QED BY <1>1, <1>2, <1>3, <1>4, <1>5, <1>6, <1>7, <1>8, <1>9, Zenon DEF IndexStep

-------------------------------------------------------------------------------
(* What the steps rely on, and the theorems.                                 *)

LEMMA BehindInit == DaemonInit => BehindInv
<1> SUFFICES ASSUME DaemonInit PROVE BehindInv
  OBVIOUS
<1>1. index = [p \in Files |-> <<>>] /\ rows = <<>> /\ restored = 0 /\ section = Free
  BY DEF DaemonInit, IndexInit
<1>2. \A q \in Files : NamesOf(index[q]) = <<>> /\ NamesIn(SubSeq(rows, 1, restored), q) = <<>>
  <2>1. NamesOf(<<>>) = <<>> /\ SubSeq(<<>>, 1, 0) = <<>>
    BY DEF NamesOf
  <2> QED BY <1>1, <2>1, NamesInNone
<1> QED BY <1>1, <1>2, AllInit DEF BehindInv, ReadSoFar, FlushCovers, Free

\* Each row read adds its name behind those read before.
LEMMA ReadSoFarNext ==
  ASSUME ~EarlyCommands, AllInv, ReadSoFar, [DaemonNext]_daemonVars
  PROVE  ReadSoFar'
<1> USE DEF AllInv, DeletionInv
<1>1. ASSUME restoring, UNCHANGED <<rows, restored>>, \A p \in Files : NamesOf(index'[p]) = NamesOf(index[p])
      PROVE  ReadSoFar'
  BY <1>1 DEF ReadSoFar
<1>2. ASSUME ~restoring' PROVE ReadSoFar'
  BY <1>2 DEF ReadSoFar
<1>3. CASE DieOfMissingFile \/ DieAnyhow
  <2>1. index' = [p \in Files |-> <<>>] /\ rows' = rows /\ restored' = 0
    BY <1>3 DEF DieOfMissingFile, DieAnyhow, Die, LoseIndex
  <2>2. SubSeq(rows, 1, 0) = <<>> /\ NamesOf(<<>>) = <<>>
    BY DEF NamesOf, Types, IndexTypeOK
  <2>3. \A q \in Files : NamesOf(index'[q]) = <<>> /\ NamesIn(SubSeq(rows', 1, restored'), q) = <<>>
    BY <2>1, <2>2, NamesInNone
  <2> QED BY <2>3 DEF ReadSoFar
<1>4. CASE RestoreRow
  <2> DEFINE r == rows[restored + 1]
             old == SubSeq(rows, 1, restored)
  <2>1. /\ restored + 1 \in 1..Len(rows) /\ restored' = restored + 1 /\ restoring
        /\ UNCHANGED rows
    BY <1>4, RestoreRowProps
  <2>2. PICK v \in Version : v.name = r.name /\ index' = [index EXCEPT ![r.path] = Append(@, v)]
    BY <1>4, RestoreRowProps
  <2>3. rows \in Seq(Row) /\ restored \in Nat /\ index \in [Files -> Seq(Version)]
    BY DEF Types, IndexTypeOK
  <2>4. old \in Seq(Row) /\ r \in Row /\ SubSeq(rows, 1, restored + 1) = Append(old, r)
    <3>1. (restored + 1) - 1 = restored
      BY <2>3
    <3> QED BY <2>1, <2>3, <3>1, FirstRows
  <2> HIDE DEF r, old
  <2>5. r.path \in Files
    BY <2>4 DEF Row
  <2>6. \A q \in Files : NamesIn(Append(old, r), q) = IF r.path = q THEN Append(NamesIn(old, q), r.name) ELSE NamesIn(old, q)
    BY <2>4, NamesInAppend
  <2>7. \A q \in Files : NamesOf(index[q]) = NamesIn(old, q)
    BY <2>1 DEF ReadSoFar, old
  <2>8. NamesOf(Append(index[r.path], v)) = Append(NamesOf(index[r.path]), r.name)
    BY <2>2, <2>3, <2>5, NamesOfProps
  <2>9. \A q \in Files : NamesOf(index'[q]) = IF r.path = q THEN Append(NamesOf(index[q]), r.name) ELSE NamesOf(index[q])
    BY <2>2, <2>3, <2>5, <2>8
  <2>10. \A q \in Files : NamesOf(index'[q]) = NamesIn(Append(old, r), q)
    BY <2>6, <2>7, <2>9
  <2> QED BY <2>1, <2>4, <2>10 DEF ReadSoFar
<1>5. CASE RestoreDone \/ FlushStatement
  BY <1>2, <1>5, FlushStatementProps DEF RestoreDone
<1>6. CASE restoring' /\ ~DieOfMissingFile /\ ~DieAnyhow /\ ~RestoreRow /\ ~RestoreDone
  <2>1. restoring /\ UNCHANGED rows
    BY <1>6, RestoreSteps
  <2>2. section.at = "free"
    BY <2>1 DEF RestoreIsAlone, Free
  <2>3. ~DelVersion /\ ~DelFinish /\ ~FlushStatement /\ ~FlushEnd /\ ~NewVersion
    BY <2>2 DEF DelVersion, DelFinish, FlushStatement, FlushEnd, NewVersion, AddFileVersion
  <2>4. CASE Stays \/ Moves
    BY <1>1, <2>1, <2>4 DEF Stays, Moves, indexVars, watchVars
  <2>5. ASSUME NEW n, Marks(n) PROVE ReadSoFar'
    BY <1>1, <2>1, <2>5, MarksNames DEF Marks
  <2>6. IndexStep
    BY IndexSteps
  <2> QED BY <1>6, <2>3, <2>4, <2>5, <2>6, Zenon DEF IndexStep
<1> QED BY <1>2, <1>3, <1>4, <1>5, <1>6

\* During a flush no statement that matters is queued.
LEMMA FlushCoversNext ==
  ASSUME AllInv, FlushCovers, [DaemonNext]_daemonVars
  PROVE  FlushCovers'
<1> USE DEF AllInv
<1>0. sqlQueue \in Seq(Statement) /\ Len(sqlQueue) \in Nat /\ section \in Section
  BY DEF Types, IndexTypeOK
<1>1. ASSUME UNCHANGED <<section, sqlQueue>> PROVE FlushCovers'
  BY <1>1 DEF FlushCovers
<1>2. ASSUME section'.at /= "flush" PROVE FlushCovers'
  BY <1>2 DEF FlushCovers
<1>3. CASE Stays
  BY <1>1, <1>3 DEF Stays, indexVars, watchVars
<1>4. CASE Moves
  <2>1. section'.at = "flush" => section'.size = Len(sqlQueue) /\ sqlQueue' = sqlQueue
    BY <1>4 DEF Moves
  <2>2. \A i \in 1..Len(sqlQueue) : ~(Len(sqlQueue) < i)
    BY <1>0
  <2> QED BY <2>1, <2>2 DEF FlushCovers
<1>5. ASSUME NEW n, Marks(n) PROVE FlushCovers'
  <2>1. CASE UNCHANGED section /\ section.at = "flush"
    <3>1. CASE UNCHANGED sqlQueue
      BY <1>1, <2>1, <3>1
    <3>2. ASSUME NEW s \in Statement, s.do \notin {"insert", "delete"}, QueueSql(s) PROVE FlushCovers'
      <4>1. /\ sqlQueue'[Len(sqlQueue) + 1] = s
            /\ \A i \in 1..Len(sqlQueue) : sqlQueue'[i] = sqlQueue[i]
            /\ \A i \in 1..Len(sqlQueue') : i \in 1..Len(sqlQueue) \/ i = Len(sqlQueue) + 1
        BY <1>0, <3>2, QueueSqlProps
      <4>2. \A i \in 1..Len(sqlQueue') : section.size < i => ~Relevant(sqlQueue'[i])
        BY <2>1, <3>2, <4>1 DEF FlushCovers, Relevant
      <4>3. \A i \in 1..Len(sqlQueue') : ~Relevant(sqlQueue'[i]) \/ ~(section.size < i)
        BY <4>2
      <4> QED BY <2>1, <4>2 DEF FlushCovers, Relevant
    <3> QED BY <1>5, <3>1, <3>2 DEF Marks
  <2>2. CASE section'.at /= "flush"
    BY <1>2, <2>2
  <2> QED BY <1>5, <2>1, <2>2 DEF Marks
<1>6. CASE RestoreRow \/ RestoreDone
  BY <1>1, <1>6 DEF RestoreRow, RestoreDone
<1>7. CASE NewVersion
  <2>1. section'.at = "enqueue"
    BY <1>7, AddFileVersionProps DEF NewVersion
  <2> QED BY <1>2, <2>1
<1>8. CASE QueueStep /\ DelVersion /\ UNCHANGED issued
  <2>1. section'.at = "delete"
    BY <1>8, DelVersionProps
  <2> QED BY <1>2, <2>1
<1>9. CASE DelFinish \/ FlushEnd \/ DieOfMissingFile \/ DieAnyhow
  BY <1>2, <1>9 DEF DelFinish, FlushEnd, DieOfMissingFile, DieAnyhow, Die, LoseIndex, Free
<1>10. CASE FlushStatement
  <2>1. section.at = "flush" /\ section'.size = section.size /\ sqlQueue' = sqlQueue
    BY <1>10, FlushStatementProps
  <2> QED BY <2>1 DEF FlushCovers
<1>11. IndexStep
  BY IndexSteps
<1> QED BY <1>3, <1>4, <1>5, <1>6, <1>7, <1>8, <1>9, <1>10, <1>11, Zenon DEF IndexStep

LEMMA BehindNext == ~EarlyCommands /\ BehindInv /\ [DaemonNext]_daemonVars => BehindInv'
  BY AllNext, ReadSoFarNext, FlushCoversNext DEF BehindInv

LEMMA WriteBehindInit == DaemonInit => IndexWriteBehind!Init
<1> SUFFICES ASSUME DaemonInit PROVE IndexWriteBehind!Init
  OBVIOUS
<1>1. rows = <<>> /\ sqlQueue = <<>> /\ restoring = TRUE /\ section = Free
  BY DEF DaemonInit, IndexInit
<1>2. \A p \in Files : NamesInDb(p) = <<>>
  BY <1>1, NamesInNone DEF NamesInDb
<1>3. Pending = <<>>
  <2>1. <<>> \in Seq(Statement) /\ 0 \in Nat /\ \A i \in 1..Len(<<>>) : FALSE
    OBVIOUS
  <2>2. PendingOf(<<>>, 0) = <<>>
    BY <2>1, PendingNothing
  <2>3. Done = 0
    BY <1>1 DEF Done, Free
  <2> QED BY <1>1, <2>2, <2>3, PendingIs
<1> QED BY <1>1, <1>2, <1>3 DEF IndexWriteBehind!Init

\* The index and the database behind it are a WriteBehind: the index runs ahead
\* of the rows by the statements pending, these reach the rows in the order they
\* were queued, and a death takes the index back to the rows, as long as no
\* client sends a command before the index is restored.
THEOREM IndexIsWriteBehind ==
  ASSUME ~EarlyCommands
  PROVE  DaemonSpec => IndexIsWrittenBehind
<1>1. BehindInv /\ [DaemonNext]_daemonVars => [IndexWriteBehind!Next]_(IndexWriteBehind!vars)
  <2> SUFFICES ASSUME BehindInv, [DaemonNext]_daemonVars PROVE [IndexWriteBehind!Next]_(IndexWriteBehind!vars)
    OBVIOUS
  <2>1. BehindStep
    BY BehindSteps
  <2>2. CASE Same
    BY <2>2 DEF Same, Current, Durable, IndexWriteBehind!vars
  <2>3. ASSUME NEW c, Makes(c) PROVE IndexWriteBehind!Make(c)
    BY <2>3 DEF Makes, Current, Durable, IndexWriteBehind!Make
  <2>4. Persists => IndexWriteBehind!Persist
    BY DEF Persists, Current, Durable, IndexWriteBehind!Persist
  <2>5. Dies => IndexWriteBehind!Die
    BY DEF Dies, Current, Durable, IndexWriteBehind!Die
  <2> QED BY <2>1, <2>2, <2>3, <2>4, <2>5 DEF BehindStep, IndexWriteBehind!Next
<1>2. BehindInv /\ [DaemonNext]_daemonVars => BehindInv'
  BY BehindNext
<1> QED BY <1>1, <1>2, WriteBehindInit, BehindInit, PTL DEF DaemonSpec, IndexIsWrittenBehind, IndexWriteBehind!Spec

-------------------------------------------------------------------------------
(* What is not pending is in the rows.                                       *)

\* f leads from the store d to the store c, change by change.
Leads(f, d, q, c) ==
  /\ f[0] = d
  /\ f[Len(q)] = c
  /\ \A i \in 1..Len(q) : f[i] = IndexWriteBehind!Apply(f[i - 1], q[i])

\* The changes pending lead from the rows to the index.
Replayed == \E f : Leads(f, Durable, Pending, Current)

LEMMA NothingLeads == ASSUME NEW d PROVE \E f : Leads(f, d, <<>>, d)
<1>1. Leads([i \in {0} |-> d], d, <<>>, d)
  BY DEF Leads
<1> QED BY <1>1

\* A change made comes last ...
LEMMA MoreLeads ==
  ASSUME NEW S, NEW q \in Seq(S), NEW e, NEW d, NEW c, NEW f, Leads(f, d, q, c)
  PROVE  \E g : Leads(g, d, Append(q, e), IndexWriteBehind!Apply(c, e))
<1> DEFINE n == Len(q)
           last == IndexWriteBehind!Apply(c, e)
           g == [i \in 0..(n + 1) |-> IF i = n + 1 THEN last ELSE f[i]]
           t == Append(q, e)
<1>1. /\ n \in Nat /\ Len(t) = n + 1 /\ t[n + 1] = e /\ \A i \in 1..n : t[i] = q[i]
      /\ f[0] = d /\ f[n] = c /\ \A i \in 1..n : f[i] = IndexWriteBehind!Apply(f[i - 1], q[i])
  BY DEF Leads
<1>2. g[n + 1] = last /\ \A i \in 0..n : g[i] = f[i]
  BY <1>1
<1>3. 0 \in 0..n /\ n \in 0..n /\ (n + 1) - 1 = n /\ \A i \in 1..n : i \in 0..n /\ i - 1 \in 0..n
  BY <1>1
<1>4. \A i \in 1..(n + 1) : i = n + 1 \/ i \in 1..n
  BY <1>1
<1> HIDE DEF g, t, n
<1>5. \A i \in 1..(n + 1) : g[i] = IndexWriteBehind!Apply(g[i - 1], t[i])
  <2> SUFFICES ASSUME NEW i \in 1..(n + 1) PROVE g[i] = IndexWriteBehind!Apply(g[i - 1], t[i])
    OBVIOUS
  <2>1. CASE i = n + 1
    BY <1>1, <1>2, <1>3, <2>1
  <2>2. CASE i \in 1..n
    BY <1>1, <1>2, <1>3, <2>2
  <2> QED BY <1>4, <2>1, <2>2
<1>6. Leads(g, d, t, last)
  BY <1>1, <1>2, <1>3, <1>5 DEF Leads
<1> QED BY <1>6 DEF t

\* ... and one executed came first.
LEMMA FewerLeads ==
  ASSUME NEW S, NEW q \in Seq(S), q /= <<>>, NEW d, NEW c, NEW f, Leads(f, d, q, c)
  PROVE  \E g : Leads(g, IndexWriteBehind!Apply(d, Head(q)), Tail(q), c)
<1> DEFINE n == Len(q)
           g == [i \in 0..(n - 1) |-> f[i + 1]]
           t == Tail(q)
<1>1. /\ n \in Nat /\ n >= 1 /\ Len(t) = n - 1 /\ Head(q) = q[1] /\ \A i \in 1..(n - 1) : t[i] = q[i + 1]
      /\ f[0] = d /\ f[n] = c /\ \A i \in 1..n : f[i] = IndexWriteBehind!Apply(f[i - 1], q[i])
  BY DEF Leads
<1>2. \A i \in 0..(n - 1) : g[i] = f[i + 1]
  OBVIOUS
<1>3. /\ 0 \in 0..(n - 1) /\ n - 1 \in 0..(n - 1) /\ (n - 1) + 1 = n /\ 1 \in 1..n /\ 1 - 1 = 0 /\ 0 + 1 = 1
      /\ \A i \in 1..(n - 1) : /\ i \in 0..(n - 1) /\ i - 1 \in 0..(n - 1) /\ i + 1 \in 1..n
                               /\ (i - 1) + 1 = i /\ (i + 1) - 1 = i
  BY <1>1
<1> HIDE DEF g, t, n
<1>4. g[0] = IndexWriteBehind!Apply(d, Head(q)) /\ g[n - 1] = c
  <2>1. f[1] = IndexWriteBehind!Apply(f[1 - 1], q[1])
    BY <1>1, <1>3
  <2> QED BY <1>1, <1>2, <1>3, <2>1
<1>5. ASSUME NEW i \in 1..(n - 1) PROVE g[i] = IndexWriteBehind!Apply(g[i - 1], t[i])
  <2>1. f[i + 1] = IndexWriteBehind!Apply(f[(i + 1) - 1], q[i + 1])
    BY <1>1, <1>3
  <2>2. g[i] = f[i + 1] /\ g[i - 1] = f[i] /\ t[i] = q[i + 1]
    <3>1. g[i - 1] = f[(i - 1) + 1]
      BY <1>2, <1>3
    <3> QED BY <1>1, <1>2, <1>3, <3>1
  <2> QED BY <1>3, <2>1, <2>2
<1>6. Leads(g, IndexWriteBehind!Apply(d, Head(q)), t, c)
  BY <1>1, <1>4, <1>5 DEF Leads
<1> QED BY <1>6 DEF t

\* The changes pending are a sequence.
LEMMA PendingSeq == ASSUME Types PROVE \E S : Pending \in Seq(S)
<1> DEFINE c == Cardinality(OpenFrom(sqlQueue, Done))
           S == {Pending[k] : k \in 1..c}
<1>1. c \in Nat
  BY BehindTypes, OpenProps, FS_CardinalityType
<1>2. Pending = [k \in 1..c |-> Pending[k]]
  BY PendingIs DEF PendingOf, Picked
<1>3. \A k \in 1..c : Pending[k] \in S
  OBVIOUS
<1> HIDE DEF c, S
<1> DEFINE s == Pending
<1> HIDE DEF s
<1>4. s \in [1..c -> S]
  BY <1>2, <1>3 DEF s
<1>5. s \in Seq(S)
  BY <1>1, <1>4
<1> QED BY <1>5 DEF s

LEMMA ReplayedNext ==
  ASSUME Types, Replayed, BehindStep
  PROVE  Replayed'
<1>1. PICK f : Leads(f, Durable, Pending, Current)
  BY DEF Replayed
<1>2. PICK S : Pending \in Seq(S)
  BY PendingSeq
<1>3. CASE Same
  BY <1>1, <1>3 DEF Same, Replayed
<1>4. ASSUME NEW e, Makes(e) PROVE Replayed'
  <2>1. \E g : Leads(g, Durable, Append(Pending, e), IndexWriteBehind!Apply(Current, e))
    BY <1>1, <1>2, MoreLeads
  <2> QED BY <1>4, <2>1 DEF Makes, Replayed
<1>5. CASE Persists
  <2>1. \E g : Leads(g, IndexWriteBehind!Apply(Durable, Head(Pending)), Tail(Pending), Current)
    BY <1>1, <1>2, <1>5, FewerLeads DEF Persists
  <2> QED BY <1>5, <2>1 DEF Persists, Replayed
<1>6. CASE Dies
  BY <1>6, NothingLeads DEF Dies, Replayed
<1> QED BY <1>3, <1>4, <1>5, <1>6 DEF BehindStep

\* With nothing pending, index and database hold the same versions of every
\* path in the same order, as long as no client sends a command before the index
\* is restored: a restart then restores exactly the index.
THEOREM IndexIsInDb ==
  ASSUME ~EarlyCommands
  PROVE  DaemonSpec => []IndexMatchesDb
<1>1. BehindInv /\ Replayed => IndexMatchesDb
  <2> SUFFICES ASSUME Replayed, ~restoring, Pending = <<>>, NEW p \in Files PROVE NamesOf(index[p]) = NamesInDb(p)
    BY DEF IndexMatchesDb
  <2>1. PICK f : Leads(f, Durable, <<>>, Current)
    BY DEF Replayed
  <2>2. Current = Durable
    BY <2>1 DEF Leads
  <2> QED BY <2>2 DEF Current, Durable
<1>2. DaemonInit => BehindInv /\ Replayed
  <2>1. IndexWriteBehind!Init => Replayed
    <3> SUFFICES ASSUME IndexWriteBehind!Init PROVE Replayed
      OBVIOUS
    <3>1. Pending = <<>> /\ Current = Durable
      BY DEF IndexWriteBehind!Init, Current, Durable
    <3> QED BY <3>1, NothingLeads DEF Replayed
  <2> QED BY <2>1, BehindInit, WriteBehindInit
<1>3. (BehindInv /\ Replayed) /\ [DaemonNext]_daemonVars => (BehindInv /\ Replayed)'
  <2> SUFFICES ASSUME BehindInv, Replayed, [DaemonNext]_daemonVars PROVE BehindInv' /\ Replayed'
    OBVIOUS
  <2>1. Types
    BY DEF BehindInv, AllInv
  <2> QED BY <2>1, BehindSteps, ReplayedNext, BehindNext
<1> QED BY <1>1, <1>2, <1>3, PTL DEF DaemonSpec

===============================================================================
