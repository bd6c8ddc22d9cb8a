----------------------------- MODULE RestoreProofs -----------------------------
(***************************************************************************)
(* Proofs about Restore, for any index, contents, chunk size, clients and  *)
(* requests.                                                               *)
(*                                                                         *)
(* That a verified file stays what it was reported as needs that no two    *)
(* items of a command are of the same path (OnePerPath), and that hashes   *)
(* belong to the versions they are stored with (Recorded).  That an intact *)
(* version is verified rests on RoundTrips, and on no object ever coming   *)
(* to a name after it was looked for in vain and something else than       *)
(* a failure reported (FreshNames).                                        *)
(*                                                                         *)
(* That an answer is complete rests on what is still to be queued, what is *)
(* queued and what is reported being together as much as was asked for     *)
(* (CoverInv).  The types need that a handler runs for a request in a      *)
(* thread that lives (SessionInv), and that an object has the name it was  *)
(* encrypted for (StoreInv).                                               *)
(***************************************************************************)
EXTENDS Restore, SecretStreamProofs, FiniteSetTheorems

USE RestoreAssumption, SecretStreamAssumption

Reply == [path : Paths, name : Names, result : Result]

Types ==
  /\ index \in [Paths -> Seq(Version)]
  /\ data \in Seq(Contents)
  /\ Len(data) <= MaxVersions
  /\ DOMAIN bucket = Names
  /\ bucket = [n \in Names |-> bucket[n]]
  /\ uploads \subseteq Names
  /\ queue \in Seq(Item)
  /\ batch \in Seq(Item)
  /\ answer \in Seq(Reply)
  /\ target = [p \in Paths |-> target[p]]
  /\ wanted \subseteq asked
  /\ asked \subseteq Paths \cup Names
  /\ begun \in [Paths -> Nat]

\* A version has the hash of what it was made of, or lost it in a restart.
IsRecorded(v, versions) ==
  /\ v.name \in 1..Len(versions)
  /\ v.mod = v.name
  /\ v.hash = HashFile(versions[v.name]) \/ (Restarted /\ v.hash = NoHash)

Recorded ==
  \A p \in Paths :
    /\ Len(index[p]) >= 1
    /\ \A i \in 1..Len(index[p]) : IsRecorded(index[p][i], data)

\* An item is about a version of the index.
IsVersion(x) ==
  /\ x.name \in 1..Len(data)
  /\ x.mod = x.name
  /\ Indexed(x.name)

ItemsAreVersions ==
  /\ \A x \in wanted : x \in Paths \/ Indexed(x)
  /\ \A i \in 1..Len(queue) : IsVersion(queue[i])
  /\ \A i \in 1..Len(batch) : IsVersion(batch[i])
  /\ \A i \in 1..Len(answer) : answer[i].name \in 1..Len(data)

Distinct(s) == \A i, j \in 1..Len(s) : i /= j => s[i].path /= s[j].path

OnePerPath ==
  /\ Distinct(queue)
  /\ stage = "queueing" =>
       /\ answer = <<>>
       /\ batch = <<>>
       /\ \/ /\ wanted \subseteq Paths
             /\ \A i \in 1..Len(queue) : queue[i].path \notin wanted
          \/ queue = <<>> /\ \E x : wanted = {x}
  /\ stage = "downloading" =>
       /\ batch = queue
       /\ wanted = {}
       /\ \A i \in 1..Len(queue), j \in 1..Len(answer) : queue[i].path /= answer[j].path
  /\ stage \in {"none", "finished"} => queue = <<>> /\ batch = <<>>
  /\ stage \in {"none", "queueing", "downloading", "finished"}

\* Names not uploaded yet have no object, and downloads of them have failed.
FreshNames ==
  /\ uploads \subseteq 1..Len(data)
  /\ \A n \in Names : n \in uploads \/ n > Len(data) => bucket[n] = NoObject
  /\ \A i \in 1..Len(answer) : answer[i].name \in uploads => answer[i].result = "failed"

IInv ==
  /\ Types
  /\ Recorded
  /\ ItemsAreVersions
  /\ OnePerPath
  /\ FreshNames
  /\ VerifiedIsGenuine
  /\ ~Restarted => IntactVersionsRestore

-------------------------------------------------------------------------------
\* Sequences.

LEMMA ElementOf ==
  ASSUME NEW S, NEW s \in Seq(S), NEW i \in 1..Len(s)
  PROVE  s[i] \in S
  OBVIOUS

LEMMA AppendProps ==
  ASSUME NEW S, NEW s \in Seq(S), NEW e \in S
  PROVE  /\ Append(s, e) \in Seq(S)
         /\ Len(s) \in Nat
         /\ Len(Append(s, e)) = Len(s) + 1
         /\ Append(s, e)[Len(s) + 1] = e
         /\ \A i \in 1..Len(s) : Append(s, e)[i] = s[i]
         /\ \A i \in 1..Len(Append(s, e)) : i \in 1..Len(s) \/ i = Len(s) + 1
  OBVIOUS

LEMMA TailProps ==
  ASSUME NEW S, NEW s \in Seq(S), s /= <<>>
  PROVE  /\ Len(s) \in Nat \ {0}
         /\ 1 \in 1..Len(s)
         /\ Head(s) = s[1]
         /\ Head(s) \in S
         /\ Tail(s) \in Seq(S)
         /\ Len(Tail(s)) = Len(s) - 1
         /\ \A i \in 1..Len(Tail(s)) : i + 1 \in 1..Len(s) /\ i + 1 /= 1 /\ Tail(s)[i] = s[i + 1]
  OBVIOUS

-------------------------------------------------------------------------------
\* Kinds of steps.

\* Steps of clients and connections, and of other commands.
Quiet ==
  /\ UNCHANGED <<index, data, bucket, uploads, wanted, queue, batch, answer, asked, begun, target>>
  /\ stage' = stage \/ (stage = "finished" /\ stage' = "none")

\* A version is queued for download.
Queues(p, v) ==
  /\ stage = "queueing"
  /\ p \in Paths
  /\ v \in VersionsOf(p)
  /\ QueueItem(p, v)
  /\ \/ p \in wanted /\ wanted' = wanted \ {p}
     \/ wanted = {v.name} /\ v.name \notin Paths /\ wanted' = {} /\ queue = <<>>
  /\ UNCHANGED <<index, data, bucket, uploads, stage, batch, answer, asked, begun, target>>

LEMMA QuietSteps ==
  ASSUME [RestoreNext]_vars
  PROVE  \/ Quiet
         \/ DownloadFiles \/ DownloadRemotes \/ DownloadObject \/ DownloadEnds
         \/ \E p \in Paths : QueuePath(p) \/ NewVersion(p)
         \/ \E n \in Names : QueueName(n) \/ Upload(n)
<1>1. CASE UNCHANGED vars
  BY <1>1 DEF vars, indexVars, commandVars, history, Quiet
<1>2. CASE SessionStep
  BY <1>2 DEF SessionStep, indexVars, commandVars, history, Quiet
<1>3. CASE Answer \/ OtherAnswer \/ OtherThrows
  BY <1>3 DEF Answer, OtherAnswer, OtherThrows, Unchanged, indexVars, history, Quiet
<1> QED BY <1>1, <1>2, <1>3 DEF RestoreNext, HandlerStep

LEMMA PathOfIndexed ==
  ASSUME NEW n, Indexed(n)
  PROVE  PathOf(n) \in Paths /\ \E v \in VersionsOf(PathOf(n)) : v.name = n
  BY DEF Indexed, PathOf

LEMMA VersionsProps ==
  ASSUME Types, NEW p \in Paths
  PROVE  /\ index[p] \in Seq(Version)
         /\ Len(index[p]) \in Nat
         /\ \A v : v \in VersionsOf(p) <=> \E i \in 1..Len(index[p]) : v = index[p][i]
         /\ VersionsOf(p) \subseteq Version
<1>1. index[p] \in Seq(Version)
  BY DEF Types
<1> QED BY <1>1, ElementOf DEF VersionsOf

LEMMA QueuesSteps ==
  ASSUME IInv, (\E p \in Paths : QueuePath(p)) \/ (\E n \in Names : QueueName(n))
  PROVE  \E p \in Paths, v \in Version : Queues(p, v)
<1> USE DEF IInv
<1>1. ASSUME NEW p \in Paths, QueuePath(p)
      PROVE  Queues(p, Latest(p)) /\ Latest(p) \in Version
  <2>1. Len(index[p]) \in 1..Len(index[p])
    BY VersionsProps DEF Recorded
  <2>2. Latest(p) \in VersionsOf(p) /\ Latest(p) \in Version
    BY <2>1, VersionsProps DEF Latest
  <2> QED BY <1>1, <2>2 DEF QueuePath, Queues, indexVars, history
<1>2. ASSUME NEW n \in Names, QueueName(n)
      PROVE  \E p \in Paths, v \in Version : Queues(p, v)
  <2>1. n \notin Paths /\ n \in wanted /\ stage = "queueing"
    BY <1>2 DEF RestoreAssumption, QueueName
  <2>2. wanted = {n} /\ queue = <<>> /\ Indexed(n)
    BY <2>1 DEF OnePerPath, ItemsAreVersions
  <2>3. PathOf(n) \in Paths
    BY <2>2, PathOfIndexed
  <2>4. PICK v \in VersionsOf(PathOf(n)) : v.name = n /\ QueueItem(PathOf(n), v)
    BY <1>2 DEF QueueName
  <2>5. v \in Version
    BY <2>3, <2>4, VersionsProps
  <2>6. Queues(PathOf(n), v)
    BY <1>2, <2>1, <2>2, <2>3, <2>4 DEF QueueName, Queues, indexVars, history
  <2> QED BY <2>3, <2>5, <2>6
<1> QED BY <1>1, <1>2

-------------------------------------------------------------------------------
\* The first state.

LEMMA InvInit ==
  ASSUME RestoreInit
  PROVE  IInv
<1>1. /\ FirstData \in Seq(Contents) /\ Len(FirstData) \in Nat /\ Len(FirstData) <= MaxVersions
      /\ data = FirstData /\ MaxVersions \in Nat
  BY DEF RestoreAssumption, RestoreInit
<1>2. ASSUME NEW n \in 1..Len(FirstData), NEW nth
      PROVE  /\ VersionOf(n, nth) \in Version
             /\ IsRecorded(VersionOf(n, nth), data)
  <2>1. n \in Names /\ FirstData[n] \in Contents
    BY <1>1 DEF Names
  <2>2. HashFile(FirstData[n]) \in Hash /\ NoHash \in Hash
    BY <2>1 DEF Hash
  <2> QED BY <1>1, <2>1, <2>2, RestoreAssumption DEF VersionOf, Version, IsRecorded, RestoreAssumption
<1>3. ASSUME NEW p \in Paths
      PROVE  /\ index[p] \in Seq(Version)
             /\ Len(index[p]) >= 1
             /\ \A i \in 1..Len(index[p]) : IsRecorded(index[p][i], data)
  <2> DEFINE s == FirstIndex[p]
  <2>1. s \in Seq(1..Len(FirstData)) /\ s /= <<>>
    BY DEF RestoreAssumption
  <2>2. DOMAIN s = 1..Len(s) /\ Len(s) \in Nat \ {0} /\ \A i \in 1..Len(s) : s[i] \in 1..Len(FirstData)
    BY <2>1
  <2>3. index[p] = [i \in 1..Len(s) |-> VersionOf(s[i], i)]
    BY <2>2 DEF RestoreInit
  <2>4. \A i \in 1..Len(s) : VersionOf(s[i], i) \in Version /\ IsRecorded(VersionOf(s[i], i), data)
    BY <1>2, <2>2
  <2> HIDE DEF s
  <2>5. index[p] \in Seq(Version) /\ Len(index[p]) = Len(s)
    BY <2>2, <2>3, <2>4
  <2>6. \A i \in 1..Len(s) : index[p][i] = VersionOf(s[i], i)
    BY <2>3
  <2> QED BY <2>2, <2>4, <2>5, <2>6
<1>4. index \in [Paths -> Seq(Version)]
  BY <1>3 DEF RestoreInit
<1>5. /\ DOMAIN bucket = Names
      /\ bucket = [n \in Names |-> bucket[n]]
      /\ \A n \in Names : n > Len(data) => bucket[n] = NoObject
  <2>1. /\ DOMAIN FirstBucket = Names
        /\ \A n \in Names : n > Len(data) => FirstBucket[n] = NoObject
    BY <1>1 DEF FirstBucket
  <2>2. CASE bucket = FirstBucket
    BY <2>1, <2>2 DEF FirstBucket
  <2>3. CASE \E n \in DOMAIN FirstData : \E s \in Spoiled(n) : bucket = [FirstBucket EXCEPT ![n] = s]
    <3>1. PICK n \in DOMAIN FirstData : \E s \in Spoiled(n) : bucket = [FirstBucket EXCEPT ![n] = s]
      BY <2>3
    <3>2. PICK s : bucket = [FirstBucket EXCEPT ![n] = s]
      BY <3>1
    <3>3. n \in 1..Len(data)
      BY <1>1
    <3>4. DOMAIN bucket = Names /\ \A k \in Names : k /= n => bucket[k] = FirstBucket[k]
      BY <2>1, <3>2
    <3>5. bucket = [k \in Names |-> bucket[k]]
      BY <2>1, <3>2
    <3> QED BY <1>1, <2>1, <3>3, <3>4, <3>5 DEF Names
  <2> QED BY <2>2, <2>3 DEF RestoreInit
<1>6. /\ uploads = {} /\ queue = <<>> /\ batch = <<>> /\ answer = <<>> /\ stage = "none"
      /\ wanted = {} /\ asked = {}
      /\ target = [p \in Paths |-> NoFile] /\ begun = [p \in Paths |-> 0]
  BY DEF RestoreInit
<1>7. Types
  BY <1>1, <1>4, <1>5, <1>6 DEF Types
<1>8. Recorded
  BY <1>3 DEF Recorded
<1>9. ItemsAreVersions /\ OnePerPath
  BY <1>6 DEF ItemsAreVersions, OnePerPath, Distinct
<1>10. FreshNames
  BY <1>5, <1>6 DEF FreshNames
<1>11. VerifiedIsGenuine /\ IntactVersionsRestore
  BY <1>6 DEF VerifiedIsGenuine, IntactVersionsRestore
<1> QED BY <1>7, <1>8, <1>9, <1>10, <1>11 DEF IInv

-------------------------------------------------------------------------------
\* The steps of a command.

LEMMA QuietKeeps ==
  ASSUME IInv, Quiet
  PROVE  IInv'
<1> USE DEF IInv, Quiet
<1>1. Types'
  BY DEF Types
<1>2. Recorded'
  BY DEF Recorded, IsRecorded
<1>3. ItemsAreVersions'
  BY DEF ItemsAreVersions, IsVersion, Indexed, VersionsOf
<1>4. OnePerPath'
  <2>1. CASE stage' = stage
    <3>1. /\ queue' = queue /\ batch' = batch /\ answer' = answer /\ wanted' = wanted
          /\ Distinct(queue)' <=> Distinct(queue)
      BY DEF Distinct
    <3> HIDE DEF Quiet
    <3> QED BY <2>1, <3>1 DEF OnePerPath
  <2>2. CASE stage = "finished" /\ stage' = "none"
    <3>1. queue = <<>> /\ batch = <<>> /\ Distinct(queue)'
      BY <2>2 DEF OnePerPath, Distinct
    <3> QED BY <2>2, <3>1 DEF OnePerPath
  <2> QED BY <2>1, <2>2
<1>5. FreshNames'
  BY DEF FreshNames
<1>6. VerifiedIsGenuine'
  BY DEF VerifiedIsGenuine
<1>7. IntactVersionsRestore => IntactVersionsRestore'
  BY DEF IntactVersionsRestore
<1> QED BY <1>1, <1>2, <1>3, <1>4, <1>5, <1>6, <1>7

\* As long as the index stays, so do its versions.
LEMMA IndexKept ==
  ASSUME UNCHANGED <<index, data>>
  PROVE  /\ Recorded => Recorded'
         /\ \A x : IsVersion(x)' <=> IsVersion(x)
         /\ \A n : Indexed(n)' <=> Indexed(n)
  BY DEF Recorded, IsRecorded, IsVersion, Indexed, VersionsOf

LEMMA FoundIsKnown ==
  ASSUME Types
  PROVE  /\ Found \subseteq Paths \cup Names
         /\ \A x \in Found : x \in Paths \/ Indexed(x)
         /\ Found \subseteq Paths \/ \E x : Found = {x}
<1> DEFINE known(x) == x \in Paths \/ (x \in Names /\ Indexed(x))
<1>1. Found = Paths \/ Found = {x \in {Arg} : known(x)}
  BY DEF Found
<1>2. CASE Found = Paths
  BY <1>2
<1>3. CASE Found = {x \in {Arg} : known(x)}
  <2>1. \A x \in Found : x = Arg /\ known(x)
    BY <1>3
  <2> HIDE DEF known
  <2>2. Found = {} \/ Found = {Arg}
    BY <1>3
  <2> USE DEF known
  <2> QED BY <2>1, <2>2
<1> QED BY <1>1, <1>2, <1>3

LEMMA DownloadFilesKeeps ==
  ASSUME IInv, DownloadFiles
  PROVE  IInv'
<1> USE DEF IInv
<1>1. /\ UNCHANGED <<index, data, bucket, uploads, queue, batch, target>>
      /\ wanted' = Found /\ asked' = Found /\ answer' = <<>>
      /\ stage = "none" /\ stage' = IF Found = {} THEN "finished" ELSE "queueing"
      /\ begun' = [p \in Paths |-> Len(index[p])]
  BY DEF DownloadFiles, indexVars
<1>2. begun' \in [Paths -> Nat]
  BY <1>1, VersionsProps
<1>3. Types'
  BY <1>1, <1>2, FoundIsKnown DEF Types
<1>4. queue = <<>> /\ batch = <<>>
  BY <1>1 DEF OnePerPath
<1>5. Recorded'
  BY <1>1, IndexKept
<1>6. ItemsAreVersions'
  BY <1>1, <1>4, FoundIsKnown, IndexKept DEF ItemsAreVersions
<1>7. OnePerPath'
  <2>1. Len(queue') = 0 /\ Distinct(queue)'
    BY <1>1, <1>4 DEF Distinct
  <2>2. CASE Found = {}
    BY <1>1, <1>4, <2>1, <2>2 DEF OnePerPath
  <2>3. CASE Found /= {}
    <3>1. wanted' \subseteq Paths \/ \E x : wanted' = {x}
      BY <1>1, FoundIsKnown
    <3>2. stage' = "queueing" /\ answer' = <<>> /\ batch' = <<>> /\ queue' = <<>>
      BY <1>1, <1>4, <2>3
    <3>3. \A i \in 1..Len(queue') : queue'[i].path \notin wanted'
      BY <2>1
    <3> QED BY <2>1, <3>1, <3>2, <3>3 DEF OnePerPath
  <2> QED BY <2>2, <2>3
<1>8. FreshNames'
  BY <1>1 DEF FreshNames
<1>9. VerifiedIsGenuine' /\ IntactVersionsRestore'
  BY <1>1 DEF VerifiedIsGenuine, IntactVersionsRestore
<1> QED BY <1>3, <1>5, <1>6, <1>7, <1>8, <1>9

LEMMA QueuesKeeps ==
  ASSUME IInv, NEW p \in Paths, NEW v \in Version, Queues(p, v)
  PROVE  IInv'
<1> USE DEF IInv
<1> DEFINE item == [path |-> p, name |-> v.name, mod |-> v.mod]
<1>1. /\ UNCHANGED <<index, data, bucket, uploads, batch, answer, target, asked, begun, stage>>
      /\ queue' = Append(queue, item) /\ v \in VersionsOf(p) /\ stage = "queueing"
      /\ wanted' \subseteq wanted
  BY DEF Queues, QueueItem
<1>2. item \in Item /\ queue \in Seq(Item)
  BY DEF Item, Version, Types
<1>3. item.path = p /\ item.name = v.name /\ item.mod = v.mod
  OBVIOUS
<1>4. IsVersion(item)
  <2>1. PICK i \in 1..Len(index[p]) : v = index[p][i]
    BY <1>1, VersionsProps
  <2>2. IsRecorded(v, data)
    BY <2>1 DEF Recorded
  <2>3. Indexed(v.name)
    BY <1>1 DEF Indexed
  <2> QED BY <1>3, <2>2, <2>3 DEF IsVersion, IsRecorded
<1> HIDE DEF item
<1>5. /\ queue' \in Seq(Item) /\ Len(queue) \in Nat
      /\ queue'[Len(queue) + 1] = item
      /\ \A i \in 1..Len(queue) : queue'[i] = queue[i]
      /\ \A i \in 1..Len(queue') : i \in 1..Len(queue) \/ i = Len(queue) + 1
  BY <1>1, <1>2, AppendProps
<1>6. Types'
  BY <1>1, <1>5 DEF Types
<1>7. Recorded'
  BY <1>1, IndexKept
<1>8. ItemsAreVersions'
  <2>1. \A i \in 1..Len(queue') : IsVersion(queue'[i])
    BY <1>4, <1>5 DEF ItemsAreVersions
  <2> QED BY <1>1, <2>1, IndexKept DEF ItemsAreVersions
<1>9. OnePerPath'
  <2>1. /\ answer = <<>> /\ batch = <<>> /\ Distinct(queue)
        /\ \/ wanted \subseteq Paths /\ \A i \in 1..Len(queue) : queue[i].path \notin wanted
           \/ queue = <<>> /\ \E x : wanted = {x}
    BY <1>1 DEF OnePerPath
  <2>2. CASE queue = <<>> /\ wanted' = {}
    <3>1. Len(queue) = 0
      BY <2>2
    <3>2. Distinct(queue)' /\ \A i \in 1..Len(queue') : queue'[i].path \notin wanted'
      BY <1>5, <2>2, <3>1 DEF Distinct
    <3> QED BY <1>1, <2>1, <2>2, <3>2 DEF OnePerPath
  <2>3. CASE p \in wanted /\ wanted' = wanted \ {p} /\ wanted \subseteq Paths
             /\ \A i \in 1..Len(queue) : queue[i].path \notin wanted
    <3>1. \A i \in 1..Len(queue') : queue'[i].path \notin wanted'
      BY <1>3, <1>5, <2>3
    <3>2. ASSUME NEW i \in 1..Len(queue'), NEW j \in 1..Len(queue'), i /= j
          PROVE  queue'[i].path /= queue'[j].path
      <4>1. CASE i \in 1..Len(queue) /\ j \in 1..Len(queue)
        BY <1>5, <2>1, <3>2, <4>1 DEF Distinct
      <4>2. CASE i = Len(queue) + 1 \/ j = Len(queue) + 1
        BY <1>3, <1>5, <2>3, <3>2, <4>2
      <4> QED BY <1>5, <4>1, <4>2
    <3>3. Distinct(queue)'
      BY <3>2 DEF Distinct
    <3> QED BY <1>1, <2>1, <2>3, <3>1, <3>3 DEF OnePerPath
  <2> QED BY <2>1, <2>2, <2>3 DEF Queues
<1>10. FreshNames' /\ VerifiedIsGenuine' /\ (IntactVersionsRestore => IntactVersionsRestore')
  BY <1>1 DEF FreshNames, VerifiedIsGenuine, IntactVersionsRestore
<1> QED BY <1>6, <1>7, <1>8, <1>9, <1>10

LEMMA DownloadRemotesKeeps ==
  ASSUME IInv, DownloadRemotes
  PROVE  IInv'
<1> USE DEF IInv
<1>1. /\ UNCHANGED <<index, data, bucket, uploads, queue, wanted, answer, target, asked, begun>>
      /\ batch' = queue /\ stage = "queueing" /\ stage' = "downloading" /\ wanted = {}
  BY DEF DownloadRemotes, indexVars, history
<1>2. Types'
  BY <1>1 DEF Types
<1>3. Recorded'
  BY <1>1, IndexKept
<1>4. ItemsAreVersions'
  BY <1>1, IndexKept DEF ItemsAreVersions
<1>5. OnePerPath'
  BY <1>1 DEF OnePerPath, Distinct
<1>6. FreshNames' /\ VerifiedIsGenuine' /\ (IntactVersionsRestore => IntactVersionsRestore')
  BY <1>1 DEF FreshNames, VerifiedIsGenuine, IntactVersionsRestore
<1> QED BY <1>2, <1>3, <1>4, <1>5, <1>6

LEMMA DownloadEndsKeeps ==
  ASSUME IInv, DownloadEnds
  PROVE  IInv'
<1> USE DEF IInv
<1>1. /\ UNCHANGED <<index, data, bucket, uploads, queue, batch, wanted, answer, target, asked, begun>>
      /\ batch = <<>> /\ stage = "downloading" /\ stage' = "finished"
  BY DEF DownloadEnds, indexVars, history
<1>2. Types'
  BY <1>1 DEF Types
<1>3. Recorded'
  BY <1>1, IndexKept
<1>4. ItemsAreVersions'
  BY <1>1, IndexKept DEF ItemsAreVersions
<1>5. OnePerPath'
  BY <1>1 DEF OnePerPath, Distinct
<1>6. FreshNames' /\ VerifiedIsGenuine' /\ (IntactVersionsRestore => IntactVersionsRestore')
  BY <1>1 DEF FreshNames, VerifiedIsGenuine, IntactVersionsRestore
<1> QED BY <1>2, <1>3, <1>4, <1>5, <1>6

\* What a hash that verifies says of the contents.
LEMMA VerifyHashProps ==
  ASSUME IInv, NEW n, Indexed(n), NEW plain
  PROVE  /\ VerifyHash(n, HashFile(plain)) => plain = data[n]
         /\ ~Restarted => VerifyHash(n, HashFile(data[n]))
<1> USE DEF IInv
<1>1. PathOf(n) \in Paths /\ \E v \in VersionsOf(PathOf(n)) : v.name = n
  BY PathOfIndexed
<1>2. ASSUME NEW v \in VersionsOf(PathOf(n)), v.name = n
      PROVE  v.hash = HashFile(data[n]) \/ (Restarted /\ v.hash = NoHash)
  <2>1. PICK i \in 1..Len(index[PathOf(n)]) : v = index[PathOf(n)][i]
    BY <1>1, VersionsProps
  <2> QED BY <1>1, <1>2, <2>1 DEF Recorded, IsRecorded
<1>3. HashFile(plain) /= NoHash /\ (HashFile(plain) = HashFile(data[n]) => plain = data[n])
  BY DEF HashFile, NoHash
<1> QED BY <1>1, <1>2, <1>3 DEF VerifyHash

\* What is reported of an item, and what becomes of the target.
Reports(item, result) ==
  /\ Report(item, result)
  /\ result \in Result
  /\ target' = [p \in Paths |-> target'[p]]
  /\ \A p \in Paths : p /= item.path => target'[p] = target[p]
  /\ result = "verified" => target'[item.path] = [plain |-> data[item.name], mod |-> item.name]
  /\ bucket[item.name] = NoObject => result = "failed"
  /\ ~Restarted /\ bucket[item.name] = EncryptFile(item.name, data[item.name])
       => result \in {"verified", "failed"}

LEMMA Outcomes ==
  ASSUME IInv, NEW item \in Item, IsVersion(item),
         DownloadFails(item) \/ DecryptFails(item) \/ Decrypted(item)
  PROVE  \E result : Reports(item, result)
<1> USE DEF IInv
<1> DEFINE n == item.name
           s == bucket[n]
<1>1. /\ target = [p \in Paths |-> target[p]] /\ item.path \in Paths
      /\ item.mod = n /\ Indexed(n) /\ n \in Headers /\ data[n] \in Contents
  BY DEF Types, Item, IsVersion, RestoreAssumption
<1>2. ASSUME s = EncryptFile(n, data[n])
      PROVE  Decrypts(s) /\ Plain(s) = data[n]
  BY <1>1, <1>2, RoundTrips DEF StreamRoundTrips
<1>3. s = NoObject => ~Decrypts(s)
  BY DEF NoObject, Decrypts
<1>4. ASSUME NEW t, NEW result \in Result, Report(item, result),
             target' = [target EXCEPT ![item.path] = t],
             result = "verified" => t = [plain |-> data[n], mod |-> n],
             s = NoObject => result = "failed",
             ~Restarted /\ s = EncryptFile(n, data[n]) => result \in {"verified", "failed"}
      PROVE  Reports(item, result)
  <2>1. /\ target' = [p \in Paths |-> target'[p]]
        /\ \A p \in Paths : p /= item.path => target'[p] = target[p]
        /\ target'[item.path] = t
    BY <1>1, <1>4
  <2> QED BY <1>4, <2>1 DEF Reports
<1>5. CASE DownloadFails(item)
  <2>1. target' = target /\ Report(item, "failed")
    BY <1>5 DEF DownloadFails
  <2> QED BY <1>1, <2>1 DEF Reports, Result
<1>6. CASE DecryptFails(item)
  <2>1. s /= NoObject /\ ~Decrypts(s) /\ Report(item, "undecrypted")
        /\ target' = [target EXCEPT ![item.path] = [plain |-> Plain(s), mod |-> Now]]
    BY <1>6 DEF DecryptFails
  <2> QED BY <1>2, <1>4, <2>1 DEF Result
<1>7. CASE Decrypted(item)
  <2>1. Decrypts(s) /\ s /= NoObject
    BY <1>3, <1>7 DEF Decrypted
  <2>2. CASE VerifyHash(n, HashFile(Plain(s)))
    <3>1. Plain(s) = data[n]
      BY <1>1, <2>2, VerifyHashProps
    <3>2. target' = [target EXCEPT ![item.path] = [plain |-> data[n], mod |-> n]] /\ Report(item, "verified")
      BY <1>1, <1>7, <2>2, <3>1 DEF Decrypted
    <3> QED BY <1>4, <2>1, <3>2 DEF Result
  <2>3. CASE ~VerifyHash(n, HashFile(Plain(s)))
    <3>1. target' = [target EXCEPT ![item.path] = NoFile] /\ Report(item, "unverified")
      BY <1>7, <2>3 DEF Decrypted
    <3>2. ~(~Restarted /\ s = EncryptFile(n, data[n]))
      BY <1>1, <1>2, <2>3, VerifyHashProps
    <3> QED BY <1>4, <2>1, <3>1, <3>2 DEF Result
  <2> QED BY <2>2, <2>3
<1> QED BY <1>5, <1>6, <1>7

LEMMA DownloadObjectKeeps ==
  ASSUME IInv, DownloadObject
  PROVE  IInv'
<1> USE DEF IInv
<1> DEFINE item == queue[1]
<1>1. /\ UNCHANGED <<index, data, bucket, uploads, wanted, asked, begun, stage>>
      /\ stage = "downloading" /\ batch /= <<>>
      /\ queue' = Tail(queue) /\ batch' = Tail(batch)
  BY DEF DownloadObject, PopDownload, indexVars, history
<1>2. /\ batch = queue /\ wanted = {} /\ Distinct(queue)
      /\ \A i \in 1..Len(queue), j \in 1..Len(answer) : queue[i].path /= answer[j].path
  BY <1>1 DEF OnePerPath
<1>3. /\ queue \in Seq(Item) /\ answer \in Seq(Reply) /\ Len(answer) \in Nat
  BY DEF Types
<1>4. /\ Len(queue) \in Nat \ {0} /\ 1 \in 1..Len(queue) /\ Head(queue) = item /\ item \in Item
      /\ queue' \in Seq(Item) /\ Len(queue') \in Nat
      /\ \A i \in 1..Len(queue') :
           i + 1 \in 1..Len(queue) /\ i + 1 /= 1 /\ queue'[i] = queue[i + 1]
  BY <1>1, <1>2, <1>3, TailProps
<1>5. IsVersion(item)
  BY <1>4 DEF ItemsAreVersions
<1>6. PICK result : Reports(item, result)
  BY <1>1, <1>2, <1>4, <1>5, Outcomes DEF DownloadObject
<1> DEFINE reply == [path |-> item.path, name |-> item.name, result |-> result]
<1>7. reply \in Reply /\ answer' = Append(answer, reply)
  BY <1>4, <1>6 DEF Reports, Report, Reply, Item
<1>8. reply.path = item.path /\ reply.name = item.name /\ reply.result = result
  OBVIOUS
<1> HIDE DEF item, reply
<1>9. /\ answer' \in Seq(Reply)
      /\ answer'[Len(answer) + 1] = reply
      /\ \A i \in 1..Len(answer) : answer'[i] = answer[i]
      /\ \A i \in 1..Len(answer') : i \in 1..Len(answer) \/ i = Len(answer) + 1
  BY <1>3, <1>7, AppendProps
<1>10. item.path \in Paths /\ item.name \in 1..Len(data)
  BY <1>4, <1>5 DEF Item, IsVersion
<1>11. Types'
  BY <1>1, <1>2, <1>4, <1>6, <1>9 DEF Types, Reports
<1>12. Recorded'
  BY <1>1, IndexKept
<1>13. ItemsAreVersions'
  <2>1. \A i \in 1..Len(queue') : IsVersion(queue'[i])
    BY <1>4 DEF ItemsAreVersions
  <2>2. \A i \in 1..Len(answer') : answer'[i].name \in 1..Len(data)
    BY <1>8, <1>9, <1>10 DEF ItemsAreVersions
  <2>3. batch' = queue'
    BY <1>1, <1>2
  <2> QED BY <1>1, <1>2, <2>1, <2>2, <2>3, IndexKept DEF ItemsAreVersions
<1>14. \A i \in 1..Len(queue') : queue'[i].path /= item.path
  <2> SUFFICES ASSUME NEW i \in 1..Len(queue') PROVE queue'[i].path /= item.path
    OBVIOUS
  <2>1. i + 1 \in 1..Len(queue) /\ i + 1 /= 1 /\ queue'[i] = queue[i + 1] /\ 1 \in 1..Len(queue)
    BY <1>4
  <2>2. queue[i + 1].path /= queue[1].path
    BY <1>2, <2>1 DEF Distinct
  <2> QED BY <2>1, <2>2 DEF item
<1>15. OnePerPath'
  <2>1. \A i \in 1..Len(queue'), j \in 1..Len(answer') : queue'[i].path /= answer'[j].path
    <3> SUFFICES ASSUME NEW i \in 1..Len(queue'), NEW j \in 1..Len(answer')
                 PROVE  queue'[i].path /= answer'[j].path
      OBVIOUS
    <3>1. CASE j \in 1..Len(answer)
      <4>1. i + 1 \in 1..Len(queue) /\ queue'[i] = queue[i + 1]
        BY <1>4
      <4> QED BY <1>2, <1>9, <3>1, <4>1
    <3>2. CASE j = Len(answer) + 1
      BY <1>8, <1>9, <1>14, <3>2
    <3> QED BY <1>9, <3>1, <3>2
  <2>2. ASSUME NEW i \in 1..Len(queue'), NEW j \in 1..Len(queue'), i /= j
        PROVE  queue'[i].path /= queue'[j].path
    <3>1. /\ i + 1 \in 1..Len(queue) /\ queue'[i] = queue[i + 1]
          /\ j + 1 \in 1..Len(queue) /\ queue'[j] = queue[j + 1]
      BY <1>4
    <3>2. i + 1 /= j + 1
      BY <1>4, <2>2
    <3>3. queue[i + 1].path /= queue[j + 1].path
      BY <1>2, <3>1, <3>2 DEF Distinct
    <3> QED BY <3>1, <3>3
  <2>3. Distinct(queue)'
    BY <2>2 DEF Distinct
  <2>4. batch' = queue'
    BY <1>1, <1>2
  <2> QED BY <1>1, <1>2, <2>1, <2>3, <2>4 DEF OnePerPath
<1>16. \A j \in 1..Len(answer) : answer[j].path \in Paths /\ answer[j].path /= item.path
  <2> SUFFICES ASSUME NEW j \in 1..Len(answer)
               PROVE  answer[j].path \in Paths /\ answer[j].path /= item.path
    OBVIOUS
  <2>1. answer[j] \in Reply
    BY <1>3
  <2> QED BY <1>2, <1>4, <2>1 DEF Reply, item
<1>17. FreshNames'
  <2>1. item.name \in uploads => result = "failed"
    BY <1>6 DEF FreshNames, Reports, Types
  <2>2. \A i \in 1..Len(answer') : answer'[i].name \in uploads => answer'[i].result = "failed"
    BY <1>8, <1>9, <2>1 DEF FreshNames
  <2> QED BY <1>1, <2>2 DEF FreshNames
<1>18. VerifiedIsGenuine'
  <2>1. DOMAIN answer' = 1..Len(answer') /\ DOMAIN answer = 1..Len(answer)
    BY <1>3, <1>9
  <2>2. ASSUME NEW i \in 1..Len(answer'), answer'[i].result = "verified"
        PROVE  target'[answer'[i].path] = [plain |-> data[answer'[i].name], mod |-> answer'[i].name]
    <3>1. CASE i \in 1..Len(answer)
      <4>1. answer'[i] = answer[i] /\ answer[i].path \in Paths /\ answer[i].path /= item.path
        BY <1>9, <1>16, <3>1
      <4>2. target'[answer[i].path] = target[answer[i].path]
        BY <1>6, <4>1 DEF Reports
      <4>3. target[answer[i].path] = [plain |-> data[answer[i].name], mod |-> answer[i].name]
        BY <2>1, <2>2, <3>1, <4>1 DEF VerifiedIsGenuine
      <4> QED BY <4>1, <4>2, <4>3
    <3>2. CASE i = Len(answer) + 1
      BY <1>6, <1>8, <1>9, <2>2, <3>2 DEF Reports
    <3> QED BY <1>9, <3>1, <3>2
  <2> QED BY <1>1, <2>1, <2>2 DEF VerifiedIsGenuine
<1>19. ASSUME ~Restarted PROVE IntactVersionsRestore'
  <2>1. DOMAIN answer' = 1..Len(answer') /\ DOMAIN answer = 1..Len(answer)
    BY <1>3, <1>9
  <2>2. ASSUME NEW i \in 1..Len(answer'),
               bucket[answer'[i].name] = EncryptFile(answer'[i].name, data[answer'[i].name])
        PROVE  answer'[i].result \in {"verified", "failed"}
    <3>1. CASE i \in 1..Len(answer)
      BY <1>9, <1>19, <2>1, <2>2, <3>1 DEF IntactVersionsRestore
    <3>2. CASE i = Len(answer) + 1
      BY <1>6, <1>8, <1>9, <1>19, <2>2, <3>2 DEF Reports
    <3> QED BY <1>9, <3>1, <3>2
  <2> QED BY <1>1, <2>1, <2>2 DEF IntactVersionsRestore
<1> QED BY <1>11, <1>12, <1>13, <1>15, <1>17, <1>18, <1>19

-------------------------------------------------------------------------------
\* The other threads.

LEMMA OnePerPathKept ==
  ASSUME OnePerPath, UNCHANGED <<stage, wanted, queue, batch, answer>>
  PROVE  OnePerPath'
<1>1. Distinct(queue)' <=> Distinct(queue)
  BY DEF Distinct
<1> QED BY <1>1 DEF OnePerPath

LEMMA NewVersionKeeps ==
  ASSUME IInv, NEW p \in Paths, NewVersion(p)
  PROVE  IInv'
<1> USE DEF IInv
<1>n. PICK n : n = Len(data) + 1
  OBVIOUS
<1>1. PICK f \in NewContents : AddVersion(p, f, f)
  BY DEF NewVersion
<1>v. PICK v : v = [name |-> n, mod |-> n, hash |-> HashFile(f)]
  OBVIOUS
<1>2. /\ UNCHANGED <<bucket, stage, wanted, queue, batch, answer, asked, begun, target>>
      /\ index' = [index EXCEPT ![p] = Append(index[p], v)]
      /\ data' = Append(data, f)
      /\ uploads' = uploads \cup {n}
  BY <1>n, <1>v, <1>1 DEF AddVersion, commandVars, history
<1>3. /\ f \in Contents /\ Len(data) \in Nat /\ MaxVersions \in Nat /\ n \in Names
      /\ Len(data) < MaxVersions /\ data \in Seq(Contents)
  BY <1>n DEF NewVersion, Types, RestoreAssumption, Names
<1>4. v.name = n /\ v.mod = n /\ v.hash = HashFile(f) /\ v \in Version
  BY <1>v, <1>3 DEF Version, Hash
<1>5. /\ data' \in Seq(Contents) /\ Len(data') = n /\ data'[n] = f
      /\ \A k \in 1..Len(data) : data'[k] = data[k] /\ k \in 1..Len(data')
      /\ Len(data') <= MaxVersions /\ n \in 1..Len(data') /\ n \notin 1..Len(data)
  BY <1>n, <1>2, <1>3, AppendProps
<1>6. /\ index[p] \in Seq(Version) /\ Len(index[p]) \in Nat
      /\ Append(index[p], v) \in Seq(Version)
      /\ index' \in [Paths -> Seq(Version)]
      /\ index'[p] = Append(index[p], v)
      /\ \A q \in Paths : q /= p => index'[q] = index[q]
  BY <1>2, <1>4, VersionsProps, AppendProps DEF Types
<1>7. /\ Len(index'[p]) = Len(index[p]) + 1
      /\ index'[p][Len(index[p]) + 1] = v
      /\ \A i \in 1..Len(index[p]) : index'[p][i] = index[p][i] /\ i \in 1..Len(index'[p])
      /\ \A i \in 1..Len(index'[p]) : i \in 1..Len(index[p]) \/ i = Len(index[p]) + 1
  BY <1>4, <1>6, AppendProps
<1>8. \A x : IsRecorded(x, data) => IsRecorded(x, data')
  BY <1>5 DEF IsRecorded
<1>9. \A k : Indexed(k) => Indexed(k)'
  <2> SUFFICES ASSUME NEW k, Indexed(k) PROVE Indexed(k)'
    OBVIOUS
  <2>1. PICK q \in Paths : \E w \in VersionsOf(q) : w.name = k
    BY DEF Indexed
  <2>2. PICK i \in 1..Len(index[q]) : index[q][i].name = k
    BY <2>1, VersionsProps
  <2>3. index'[q] \in Seq(Version) /\ i \in 1..Len(index'[q]) /\ index'[q][i] = index[q][i]
    BY <1>6, <1>7, <2>2
  <2>4. index'[q][i] \in VersionsOf(q)'
    BY <2>3 DEF VersionsOf
  <2> QED BY <2>2, <2>3, <2>4 DEF Indexed
<1>10. \A x : IsVersion(x) => IsVersion(x)'
  BY <1>5, <1>9 DEF IsVersion
<1>11. Types'
  BY <1>2, <1>3, <1>5, <1>6 DEF Types
<1>12. Recorded'
  <2>1. IsRecorded(v, data')
    BY <1>4, <1>5 DEF IsRecorded
  <2>2. ASSUME NEW q \in Paths
        PROVE  /\ Len(index'[q]) >= 1
               /\ \A i \in 1..Len(index'[q]) : IsRecorded(index'[q][i], data')
    <3>1. CASE q = p
      <4>1. ASSUME NEW i \in 1..Len(index'[p]) PROVE IsRecorded(index'[p][i], data')
        BY <1>7, <1>8, <2>1, <4>1 DEF Recorded
      <4> QED BY <1>6, <1>7, <3>1, <4>1
    <3>2. CASE q /= p
      BY <1>6, <1>8, <3>2 DEF Recorded
    <3> QED BY <3>1, <3>2
  <2> QED BY <2>2 DEF Recorded
<1>13. ItemsAreVersions'
  BY <1>2, <1>5, <1>9, <1>10 DEF ItemsAreVersions
<1>14. OnePerPath'
  BY <1>2, OnePerPathKept
<1>15. DOMAIN answer = 1..Len(answer) /\ \A i \in 1..Len(answer) : data'[answer[i].name] = data[answer[i].name]
  <2>1. DOMAIN answer = 1..Len(answer)
    BY DEF Types
  <2> QED BY <1>5, <2>1 DEF ItemsAreVersions
<1>16. FreshNames'
  <2>1. \A k \in Names : k \in uploads' \/ k > Len(data') => k \in uploads \/ k > Len(data)
    BY <1>2, <1>3, <1>5 DEF Names
  <2>2. uploads' \subseteq 1..Len(data')
    BY <1>2, <1>5 DEF FreshNames
  <2>3. \A i \in 1..Len(answer) : answer[i].name \in uploads' => answer[i].name \in uploads
    BY <1>2, <1>5 DEF ItemsAreVersions
  <2> QED BY <1>2, <2>1, <2>2, <2>3 DEF FreshNames
<1>17. VerifiedIsGenuine'
  BY <1>2, <1>15 DEF VerifiedIsGenuine
<1>18. IntactVersionsRestore => IntactVersionsRestore'
  BY <1>2, <1>15 DEF IntactVersionsRestore
<1> QED BY <1>11, <1>12, <1>13, <1>14, <1>16, <1>17, <1>18

LEMMA UploadKeeps ==
  ASSUME IInv, NEW n \in Names, Upload(n)
  PROVE  IInv'
<1> USE DEF IInv
<1>1. /\ UNCHANGED <<index, data, stage, wanted, queue, batch, answer, asked, begun, target>>
      /\ n \in uploads /\ uploads' = uploads \ {n}
      /\ \/ bucket' = bucket
         \/ bucket' = [bucket EXCEPT ![n] = EncryptFile(n, data[n])]
  BY DEF Upload, indexVars, commandVars, history
<1>2. /\ DOMAIN bucket' = Names
      /\ bucket' = [k \in Names |-> bucket'[k]]
      /\ \A k \in Names : k /= n => bucket'[k] = bucket[k]
  BY <1>1 DEF Types
<1>3. Types'
  BY <1>1, <1>2 DEF Types
<1>4. Recorded'
  BY <1>1, IndexKept
<1>5. ItemsAreVersions'
  BY <1>1, IndexKept DEF ItemsAreVersions
<1>6. OnePerPath'
  BY <1>1, OnePerPathKept
<1>7. Len(data) \in Nat /\ Len(data) <= MaxVersions /\ MaxVersions \in Nat /\ n \in 1..Len(data)
  BY <1>1 DEF Types, FreshNames, RestoreAssumption
<1>8. FreshNames'
  <2>1. \A k \in Names : k \in uploads' \/ k > Len(data) => (k \in uploads \/ k > Len(data)) /\ k /= n
    BY <1>1, <1>7
  <2> QED BY <1>1, <1>2, <2>1 DEF FreshNames
<1>9. VerifiedIsGenuine'
  BY <1>1 DEF VerifiedIsGenuine
<1>10. ASSUME IntactVersionsRestore PROVE IntactVersionsRestore'
  <2>1. DOMAIN answer = 1..Len(answer)
    BY DEF Types
  <2>2. ASSUME NEW i \in 1..Len(answer),
               bucket'[answer[i].name] = EncryptFile(answer[i].name, data[answer[i].name])
        PROVE  answer[i].result \in {"verified", "failed"}
    <3>1. CASE answer[i].name = n
      BY <1>1, <3>1 DEF FreshNames
    <3>2. CASE answer[i].name /= n
      <4>1. answer[i].name \in Names
        BY <1>7 DEF ItemsAreVersions, Names
      <4> QED BY <1>2, <1>10, <2>1, <2>2, <3>2, <4>1 DEF IntactVersionsRestore
    <3> QED BY <3>1, <3>2
  <2> QED BY <1>1, <2>1, <2>2 DEF IntactVersionsRestore
<1> QED BY <1>3, <1>4, <1>5, <1>6, <1>8, <1>9, <1>10

-------------------------------------------------------------------------------
\* The theorems.

\* The inductive invariant of all behaviours.
THEOREM InvHolds == RestoreSpec => []IInv
<1>1. RestoreInit => IInv
  BY InvInit
<1>2. ASSUME IInv, [RestoreNext]_vars
      PROVE  IInv'
  <2>1. ASSUME \E p \in Paths : QueuePath(p) \/ NewVersion(p)
        PROVE  IInv'
    BY <1>2, <2>1, QueuesSteps, QueuesKeeps, NewVersionKeeps
  <2>2. ASSUME \E n \in Names : QueueName(n) \/ Upload(n)
        PROVE  IInv'
    BY <1>2, <2>2, QueuesSteps, QueuesKeeps, UploadKeeps
  <2> QED BY <1>2, <2>1, <2>2, QuietSteps, QuietKeeps, DownloadFilesKeeps, DownloadRemotesKeeps,
             DownloadObjectKeeps, DownloadEndsKeeps
<1> QED BY <1>1, <1>2, PTL DEF RestoreSpec

\* verifyHash and the removal of what it rejects keep what a client is told of
\* a restored file true, whatever the store holds and whatever the watch and
\* the remote threads do meanwhile, for any number of files and versions.
THEOREM VerifiedAreGenuine == RestoreSpec => []VerifiedIsGenuine
<1>1. IInv => VerifiedIsGenuine
  BY DEF IInv
<1> QED BY <1>1, InvHolds, PTL

\* An object as encryptFile made it is never rejected by downloadObject, as
\* long as the index was not restored from the database.
THEOREM IntactAreRestored == ~Restarted => (RestoreSpec => []IntactVersionsRestore)
<1> SUFFICES ASSUME ~Restarted PROVE RestoreSpec => []IntactVersionsRestore
  OBVIOUS
<1>1. IInv => IntactVersionsRestore
  BY DEF IInv
<1> QED BY <1>1, InvHolds, PTL

-------------------------------------------------------------------------------
\* The answer to a command.

\* The report, or the item to be reported of, is what x asks for.
Covers(a, x) ==
  IF x \in Paths
  THEN /\ a.path = x
       /\ \E k \in begun[x]..Len(index[x]) : index[x][k].name = a.name
  ELSE a.name = x

Covered(x) ==
  \/ \E i \in 1..Len(queue) : Covers(queue[i], x)
  \/ \E i \in 1..Len(answer) : Covers(answer[i], x)

\* Every file asked for is still to be queued, in the queue or reported, once.
CoverInv ==
  /\ IsFiniteSet(asked)
  /\ stage /= "none" =>
       /\ \A p \in Paths : begun[p] \in 1..Len(index[p])
       /\ Len(answer) + Len(queue) + Cardinality(wanted) = Cardinality(asked)
       /\ \A x \in asked \ wanted : Covered(x)
  /\ stage = "finished" => wanted = {}

LEMMA CoverGives ==
  ASSUME IInv, CoverInv
  PROVE  AnswerCoversRequest
<1> SUFFICES ASSUME stage = "finished"
             PROVE  /\ queue = <<>>
                    /\ Len(answer) = Cardinality(asked)
                    /\ \A x \in asked : \E i \in 1..Len(answer) : Covers(answer[i], x)
  <2>1. DOMAIN answer = 1..Len(answer)
    BY DEF IInv, Types
  <2> QED BY <2>1 DEF AnswerCoversRequest, Covers
<1>1. queue = <<>> /\ Len(queue) = 0 /\ wanted = {}
  BY DEF IInv, OnePerPath, CoverInv
<1>2. Len(answer) \in Nat /\ Cardinality(wanted) = 0
  BY <1>1, FS_EmptySet DEF IInv, Types
<1>3. Len(answer) = Cardinality(asked)
  BY <1>1, <1>2 DEF CoverInv
<1>4. \A x \in asked : Covered(x)
  BY <1>1 DEF CoverInv
<1> QED BY <1>1, <1>3, <1>4 DEF Covered

LEMMA CoverInit ==
  ASSUME RestoreInit
  PROVE  CoverInv
BY FS_EmptySet DEF RestoreInit, CoverInv

LEMMA QuietCovers ==
  ASSUME CoverInv, Quiet
  PROVE  CoverInv'
<1> USE DEF Quiet
<1>1. \A x : Covered(x)' <=> Covered(x)
  BY DEF Covered, Covers
<1> QED BY <1>1 DEF CoverInv

LEMMA DownloadFilesCovers ==
  ASSUME IInv, CoverInv, DownloadFiles
  PROVE  CoverInv'
<1>1. /\ index' = index /\ queue' = queue /\ queue = <<>>
      /\ wanted' = Found /\ asked' = Found /\ answer' = <<>>
      /\ stage' = IF Found = {} THEN "finished" ELSE "queueing"
      /\ begun' = [p \in Paths |-> Len(index[p])]
  BY DEF DownloadFiles, indexVars, IInv, OnePerPath
<1>2. IsFiniteSet(Found)
  <2>1. Found \subseteq Paths \/ \E x : Found = {x}
    BY FoundIsKnown DEF IInv
  <2>2. IsFiniteSet(Paths)
    BY DEF RestoreAssumption
  <2> QED BY <2>1, <2>2, FS_Subset, FS_Singleton
<1>3. Cardinality(Found) \in Nat
  BY <1>2, FS_CardinalityType
<1>4. \A p \in Paths : begun'[p] \in 1..Len(index'[p])
  BY <1>1, VersionsProps DEF IInv, Recorded
<1>5. Len(answer') + Len(queue') + Cardinality(wanted') = Cardinality(asked')
  <2>1. Len(answer') = 0 /\ Len(queue') = 0
    BY <1>1
  <2> QED BY <1>1, <1>3, <2>1
<1> QED BY <1>1, <1>2, <1>4, <1>5 DEF CoverInv

\* What is queued for x covers it.
LEMMA ItemCovers ==
  ASSUME IInv, CoverInv, NEW x \in wanted, stage = "queueing", NEW item \in Item, queue' = Append(queue, item),
         wanted' = wanted \ {x}, UNCHANGED <<index, stage, answer, asked, begun>>, Covers(item, x)
  PROVE  CoverInv'
<1>1. /\ queue' \in Seq(Item) /\ Len(queue) \in Nat /\ Len(queue') = Len(queue) + 1
      /\ queue'[Len(queue) + 1] = item
      /\ \A i \in 1..Len(queue) : queue'[i] = queue[i]
  BY AppendProps DEF IInv, Types
<1>3. IsFiniteSet(asked) /\ IsFiniteSet(wanted)
  BY FS_Subset DEF CoverInv, IInv, Types
<1>4. Cardinality(wanted) \in Nat /\ Cardinality(wanted') = Cardinality(wanted) - 1
  BY <1>3, FS_RemoveElement, FS_CardinalityType
<1>5. Len(answer) \in Nat
  BY DEF IInv, Types
<1>6. Len(answer') + Len(queue') + Cardinality(wanted') = Cardinality(asked')
  BY <1>1, <1>4, <1>5 DEF CoverInv
<1>7. ASSUME NEW y \in asked \ wanted' PROVE Covered(y)'
  <2>1. CASE y = x
    <3>1. PICK k : k = Len(queue) + 1
      OBVIOUS
    <3>2. k \in 1..Len(queue') /\ queue'[k] = item
      BY <1>1, <3>1
    <3>3. Covers(queue[k], y)'
      BY <2>1, <3>2 DEF Covers
    <3> QED BY <3>2, <3>3 DEF Covered
  <2>2. CASE y /= x
    <3>1. Covered(y)
      BY <1>7, <2>2 DEF CoverInv
    <3>2. CASE \E i \in 1..Len(answer) : Covers(answer[i], y)
      BY <3>2 DEF Covered, Covers
    <3>3. ASSUME NEW i \in 1..Len(queue), Covers(queue[i], y) PROVE Covered(y)'
      <4>1. i \in 1..Len(queue') /\ queue'[i] = queue[i]
        BY <1>1
      <4>2. Covers(queue[i], y)'
        BY <3>3, <4>1 DEF Covers
      <4> QED BY <4>1, <4>2 DEF Covered
    <3> QED BY <3>1, <3>2, <3>3 DEF Covered
  <2> QED BY <2>1, <2>2
<1> QED BY <1>3, <1>6, <1>7 DEF CoverInv

LEMMA QueuePathCovers ==
  ASSUME IInv, CoverInv, NEW p \in Paths, QueuePath(p)
  PROVE  CoverInv'
<1>1. Len(index[p]) \in begun[p]..Len(index[p]) /\ Len(index[p]) \in 1..Len(index[p])
  BY VersionsProps DEF CoverInv, QueuePath, IInv
<1>2. Latest(p) \in Version
  BY <1>1, VersionsProps DEF Latest, IInv
<1> DEFINE item == [path |-> p, name |-> Latest(p).name, mod |-> Latest(p).mod]
<1>3. /\ queue' = Append(queue, item) /\ p \in wanted /\ stage = "queueing" /\ wanted' = wanted \ {p}
      /\ UNCHANGED <<index, stage, answer, asked, begun>>
  BY DEF QueuePath, QueueItem, indexVars, history
<1>4. item \in Item
  BY <1>2 DEF Item, Version
<1>5. Covers(item, p)
  BY <1>1 DEF Covers, Latest
<1> HIDE DEF item
<1> QED BY <1>3, <1>4, <1>5, ItemCovers

LEMMA QueueNameCovers ==
  ASSUME IInv, CoverInv, NEW n \in Names, QueueName(n)
  PROVE  CoverInv'
<1>1. n \notin Paths /\ n \in wanted /\ stage = "queueing"
  BY DEF RestoreAssumption, QueueName
<1>2. PathOf(n) \in Paths
  BY <1>1, PathOfIndexed DEF IInv, ItemsAreVersions
<1>3. PICK v \in VersionsOf(PathOf(n)) : v.name = n /\ QueueItem(PathOf(n), v)
  BY DEF QueueName
<1> DEFINE item == [path |-> PathOf(n), name |-> v.name, mod |-> v.mod]
<1>4. /\ queue' = Append(queue, item) /\ wanted' = wanted \ {n}
      /\ UNCHANGED <<index, stage, answer, asked, begun>>
  BY <1>3 DEF QueueName, QueueItem, indexVars, history
<1>5. item \in Item
  BY <1>2, <1>3, VersionsProps DEF Item, Version, IInv
<1>6. Covers(item, n)
  BY <1>1, <1>3 DEF Covers
<1> HIDE DEF item
<1> QED BY <1>1, <1>4, <1>5, <1>6, ItemCovers

\* The pass reports of the item at the head of the queue.
LEMMA DownloadObjectCovers ==
  ASSUME IInv, CoverInv, DownloadObject
  PROVE  CoverInv'
<1> USE DEF IInv
<1> DEFINE item == queue[1]
<1>1. /\ UNCHANGED <<index, wanted, asked, begun, stage>>
      /\ stage = "downloading" /\ batch /= <<>> /\ queue' = Tail(queue)
  BY DEF DownloadObject, PopDownload, indexVars, history
<1>2. batch = queue
  BY <1>1 DEF OnePerPath
<1>3. queue \in Seq(Item) /\ answer \in Seq(Reply) /\ Len(answer) \in Nat /\ IsFiniteSet(wanted)
  BY FS_Subset DEF Types, CoverInv
<1>4. /\ Len(queue) \in Nat \ {0} /\ 1 \in 1..Len(queue) /\ Head(queue) = item /\ item \in Item
      /\ Len(queue') = Len(queue) - 1
      /\ \A i \in 1..Len(queue) : i /= 1 => i - 1 \in 1..Len(queue') /\ queue'[i - 1] = queue[i]
  BY <1>1, <1>2, <1>3
<1>5. IsVersion(item)
  BY <1>4 DEF ItemsAreVersions
<1>6. PICK result : Reports(item, result)
  BY <1>1, <1>2, <1>4, <1>5, Outcomes DEF DownloadObject
<1> DEFINE reply == [path |-> item.path, name |-> item.name, result |-> result]
<1>7. reply \in Reply /\ answer' = Append(answer, reply)
  BY <1>4, <1>6 DEF Reports, Report, Reply, Item
<1>8. reply.path = item.path /\ reply.name = item.name
  OBVIOUS
<1> HIDE DEF item, reply
<1>9. /\ Len(answer') = Len(answer) + 1 /\ answer'[Len(answer) + 1] = reply
      /\ \A i \in 1..Len(answer) : i \in 1..Len(answer') /\ answer'[i] = answer[i]
  BY <1>3, <1>7, AppendProps
<1>10. Cardinality(wanted) \in Nat
  BY <1>3, FS_CardinalityType
<1>11. Len(answer') + Len(queue') + Cardinality(wanted') = Cardinality(asked')
  BY <1>1, <1>3, <1>4, <1>9, <1>10 DEF CoverInv
<1>12. ASSUME NEW x \in asked \ wanted PROVE Covered(x)'
  <2>1. Covered(x)
    BY <1>1 DEF CoverInv
  <2>2. ASSUME NEW k, k \in 1..Len(answer'), Covers(answer'[k], x) PROVE Covered(x)'
    <3>1. Covers(answer[k], x)'
      BY <1>1, <2>2 DEF Covers
    <3> QED BY <2>2, <3>1 DEF Covered
  <2>3. ASSUME NEW i \in 1..Len(answer), Covers(answer[i], x) PROVE Covered(x)'
    BY <1>9, <2>2, <2>3
  <2>4. CASE Covers(queue[1], x)
    <3>1. Covers(reply, x)
      BY <1>8, <2>4 DEF Covers, item
    <3> QED BY <1>3, <1>9, <2>2, <3>1
  <2>5. ASSUME NEW i \in 1..Len(queue), i /= 1, Covers(queue[i], x) PROVE Covered(x)'
    <3>1. PICK k : k = i - 1
      OBVIOUS
    <3>2. k \in 1..Len(queue') /\ queue'[k] = queue[i]
      BY <1>4, <2>5, <3>1
    <3>3. Covers(queue[k], x)'
      BY <1>1, <2>5, <3>2 DEF Covers
    <3> QED BY <3>2, <3>3 DEF Covered
  <2> QED BY <2>1, <2>3, <2>4, <2>5 DEF Covered
<1> QED BY <1>1, <1>11, <1>12 DEF CoverInv

\* The other steps of the pass.
LEMMA DownloadCovers ==
  ASSUME IInv, CoverInv, DownloadRemotes \/ DownloadEnds
  PROVE  CoverInv'
<1>1. /\ UNCHANGED <<index, wanted, queue, answer, asked, begun>>
      /\ stage /= "none" /\ wanted = {}
  BY DEF DownloadRemotes, DownloadEnds, IInv, OnePerPath, indexVars, history
<1>2. \A x : Covered(x)' <=> Covered(x)
  BY <1>1 DEF Covered, Covers
<1> QED BY <1>1, <1>2 DEF CoverInv

\* A version that is added covers no less.
LEMMA NewVersionCovers ==
  ASSUME IInv, CoverInv, NEW p \in Paths, NewVersion(p)
  PROVE  CoverInv'
<1>1. PICK f \in NewContents : AddVersion(p, f, f)
  BY DEF NewVersion
<1>2. PICK v : v = [name |-> Len(data) + 1, mod |-> Len(data) + 1, hash |-> HashFile(f)]
  OBVIOUS
<1>3. /\ UNCHANGED <<stage, wanted, queue, answer, asked, begun>>
      /\ index' = [index EXCEPT ![p] = Append(index[p], v)]
  BY <1>1, <1>2 DEF AddVersion, commandVars, history
<1>4. ASSUME NEW q \in Paths
      PROVE  /\ Len(index[q]) \in Nat /\ Len(index'[q]) \in Nat /\ Len(index[q]) <= Len(index'[q])
             /\ \A k \in 1..Len(index[q]) : index'[q][k] = index[q][k]
  <2>1. index[q] \in Seq(Version) /\ index'[q] = IF q = p THEN Append(index[q], v) ELSE index[q]
    BY <1>3 DEF IInv, Types
  <2> QED BY <2>1
<1>5. ASSUME stage /= "none"
      PROVE  /\ \A q \in Paths : begun'[q] \in 1..Len(index'[q])
             /\ \A x \in asked \ wanted : Covered(x)'
  <2>1. \A q \in Paths : begun[q] \in 1..Len(index[q])
    BY <1>5 DEF CoverInv
  <2>2. \A q \in Paths : begun'[q] \in 1..Len(index'[q])
    BY <1>3, <1>4, <2>1
  <2> DEFINE Still(a, x) ==
        IF x \in Paths THEN a.path = x /\ \E k \in begun[x]..Len(index'[x]) : index'[x][k].name = a.name
        ELSE a.name = x
  <2>3. ASSUME NEW a, NEW x, Covers(a, x)
        PROVE  Still(a, x)
    <3>1. CASE x \in Paths
      <4>1. PICK k \in begun[x]..Len(index[x]) : index[x][k].name = a.name
        BY <2>3, <3>1 DEF Covers
      <4>2. k \in begun[x]..Len(index'[x]) /\ k \in 1..Len(index[x])
        BY <1>4, <2>1, <3>1, <4>1
      <4> QED BY <1>4, <2>3, <3>1, <4>1, <4>2 DEF Covers
    <3>2. CASE x \notin Paths
      BY <2>3, <3>2 DEF Covers
    <3> QED BY <3>1, <3>2
  <2> HIDE DEF Still
  <2>4. ASSUME NEW x \in asked \ wanted PROVE Covered(x)'
    <3>1. Covered(x)
      BY <1>5 DEF CoverInv
    <3>2. ASSUME NEW i \in 1..Len(queue), Covers(queue[i], x) PROVE Covered(x)'
      <4>0. Still(queue[i], x)
        BY <2>3, <3>2
      <4>1. Covers(queue[i], x)'
        BY <1>3, <4>0 DEF Covers, Still
      <4> QED BY <1>3, <4>1 DEF Covered
    <3>3. ASSUME NEW i \in 1..Len(answer), Covers(answer[i], x) PROVE Covered(x)'
      <4>0. Still(answer[i], x)
        BY <2>3, <3>3
      <4>1. Covers(answer[i], x)'
        BY <1>3, <4>0 DEF Covers, Still
      <4> QED BY <1>3, <4>1 DEF Covered
    <3> QED BY <3>1, <3>2, <3>3 DEF Covered
  <2> QED BY <2>2, <2>4
<1> QED BY <1>3, <1>5 DEF CoverInv

LEMMA UploadCovers ==
  ASSUME CoverInv, NEW n \in Names, Upload(n)
  PROVE  CoverInv'
<1>1. UNCHANGED <<index, stage, wanted, queue, answer, asked, begun>>
  BY DEF Upload, indexVars, commandVars, history
<1>2. \A x : Covered(x)' <=> Covered(x)
  BY <1>1 DEF Covered, Covers
<1> QED BY <1>1, <1>2 DEF CoverInv

\* The answer to a restore reports every file asked for exactly once, in a
\* version that was asked for or has been the latest since the command began,
\* and nothing else, whatever fails and whatever is added meanwhile.
THEOREM AnswersCover == RestoreSpec => []AnswerCoversRequest
<1>1. RestoreInit => IInv /\ CoverInv
  BY InvInit, CoverInit
<1>2. ASSUME IInv, CoverInv, [RestoreNext]_vars
      PROVE  CoverInv'
  <2>1. ASSUME \E p \in Paths : QueuePath(p) \/ NewVersion(p)
        PROVE  CoverInv'
    BY <1>2, <2>1, QueuePathCovers, NewVersionCovers
  <2>2. ASSUME \E n \in Names : QueueName(n) \/ Upload(n)
        PROVE  CoverInv'
    BY <1>2, <2>2, QueueNameCovers, UploadCovers
  <2> QED BY <1>2, <2>1, <2>2, QuietSteps, QuietCovers, DownloadFilesCovers, DownloadCovers, DownloadObjectCovers
<1>3. IInv /\ CoverInv => AnswerCoversRequest
  BY CoverGives
<1> QED BY <1>1, <1>2, <1>3, InvHolds, PTL DEF RestoreSpec

-------------------------------------------------------------------------------
\* The types of the clients' requests and of their connections.

IsRequests(s) == \E S : s \in Seq(S) /\ \A r \in S : DOMAIN r = {"cmd", "args"}

\* A connection is about a request.
RequestsInv ==
  /\ todo = [c \in Clients |-> todo[c]]
  /\ \A c \in Clients : IsRequests(todo[c]) /\ (conn[c] /= "none" => todo[c] /= <<>>)
  /\ conn \in [Clients -> ConnState]

\* A handler runs for a connection, in a thread that has not ended.
SessionInv ==
  /\ RequestsInv
  /\ serving \in Clients \cup {Nobody}
  /\ alive \in BOOLEAN
  /\ serving /= Nobody => alive /\ conn[serving] = "handled"

LEMMA SessionInvGives ==
  ASSUME SessionInv
  PROVE  SessionTypeOK
<1>1. ASSUME NEW c \in Clients, NEW i \in 1..Len(todo[c]) PROVE DOMAIN todo[c][i] = {"cmd", "args"}
  <2>1. PICK S : todo[c] \in Seq(S) /\ \A r \in S : DOMAIN r = {"cmd", "args"}
    BY DEF SessionInv, RequestsInv, IsRequests
  <2>2. todo[c][i] \in S
    BY <2>1
  <2> QED BY <2>1, <2>2
<1> QED BY <1>1 DEF SessionInv, RequestsInv, SessionTypeOK

LEMMA NoRequests == IsRequests(<<>>)
<1>1. <<>> \in Seq({}) /\ \A r \in {} : DOMAIN r = {"cmd", "args"}
  OBVIOUS
<1> QED BY <1>1 DEF IsRequests

LEMMA OneRequest ==
  ASSUME NEW cmd, NEW args
  PROVE  DOMAIN Request(cmd, args) = {"cmd", "args"} /\ IsRequests(<<Request(cmd, args)>>)
<1> DEFINE S == {Request(cmd, args)}
<1>1. DOMAIN Request(cmd, args) = {"cmd", "args"}
  BY DEF Request
<1>2. <<Request(cmd, args)>> \in Seq(S)
  OBVIOUS
<1>3. \A r \in S : DOMAIN r = {"cmd", "args"}
  BY <1>1
<1> HIDE DEF S
<1> QED BY <1>1, <1>2, <1>3 DEF IsRequests

LEMMA BothRequests ==
  ASSUME NEW s, NEW t, IsRequests(s), IsRequests(t)
  PROVE  IsRequests(s \o t)
<1>1. PICK S : s \in Seq(S) /\ \A r \in S : DOMAIN r = {"cmd", "args"}
  BY DEF IsRequests
<1>2. PICK T : t \in Seq(T) /\ \A r \in T : DOMAIN r = {"cmd", "args"}
  BY DEF IsRequests
<1>3. s \in Seq(S \cup T) /\ t \in Seq(S \cup T)
  BY <1>1, <1>2
<1>4. s \o t \in Seq(S \cup T)
  BY <1>3
<1>5. \A r \in S \cup T : DOMAIN r = {"cmd", "args"}
  BY <1>1, <1>2
<1> QED BY <1>4, <1>5 DEF IsRequests

\* A request for each of n arguments.
LEMMA ManyRequests ==
  ASSUME NEW n \in Nat, NEW s, s = [i \in 1..n |-> s[i]],
         \A i \in 1..n : DOMAIN s[i] = {"cmd", "args"}
  PROVE  IsRequests(s)
<1> DEFINE S == {s[i] : i \in 1..n}
<1>1. \A i \in 1..n : s[i] \in S
  OBVIOUS
<1>2. \A r \in S : DOMAIN r = {"cmd", "args"}
  OBVIOUS
<1> HIDE DEF S
<1>3. s \in Seq(S)
  BY <1>1
<1> QED BY <1>2, <1>3 DEF IsRequests

LEMMA FirstRequest ==
  ASSUME NEW s, IsRequests(s), s /= <<>>
  PROVE  IsRequests(<<Head(s)>>)
<1>1. PICK S : s \in Seq(S) /\ \A r \in S : DOMAIN r = {"cmd", "args"}
  BY DEF IsRequests
<1>2. Head(s) \in S
  BY <1>1
<1>3. <<Head(s)>> \in Seq(S)
  BY <1>2
<1> QED BY <1>1, <1>3 DEF IsRequests

LEMMA TailRequests ==
  ASSUME NEW s, IsRequests(s), s /= <<>>
  PROVE  IsRequests(Tail(s))
<1>1. PICK S : s \in Seq(S) /\ \A r \in S : DOMAIN r = {"cmd", "args"}
  BY DEF IsRequests
<1>2. Tail(s) \in Seq(S)
  BY <1>1
<1> QED BY <1>1, <1>2 DEF IsRequests

LEMMA EachRequests ==
  ASSUME NEW cmd, NEW args, Len(args) \in Nat
  PROVE  IsRequests(Each(cmd, args))
<1> DEFINE s == Each(cmd, args)
<1>1. s = [i \in 1..Len(args) |-> Request(cmd, <<args[i]>>)]
  BY DEF Each
<1>2. \A i \in 1..Len(args) : DOMAIN s[i] = {"cmd", "args"}
  BY <1>1, OneRequest
<1>3. s = [i \in 1..Len(args) |-> s[i]]
  BY <1>1
<1> HIDE DEF s
<1>4. IsRequests(s)
  BY <1>2, <1>3, ManyRequests
<1> QED BY <1>4 DEF s

LEMMA RestoreRequestsAreRequests ==
  ASSUME NEW o, Len(o.restore) \in Nat
  PROVE  IsRequests(RestoreRequests(o))
<1> DEFINE s == RestoreRequests(o)
           n == Len(o.restore)
<1>1. s = [i \in 1..n |-> IF o.restore[i] = All THEN Request("restoreAll", o.target)
                          ELSE Request("restore", o.target \o <<o.restore[i]>>)]
  BY DEF RestoreRequests
<1>2. ASSUME NEW i \in 1..n PROVE DOMAIN s[i] = {"cmd", "args"}
  <2>1. s[i] = IF o.restore[i] = All THEN Request("restoreAll", o.target)
               ELSE Request("restore", o.target \o <<o.restore[i]>>)
    BY <1>1
  <2> HIDE DEF s
  <2>2. CASE o.restore[i] = All
    BY <2>1, <2>2, OneRequest
  <2>3. CASE o.restore[i] /= All
    BY <2>1, <2>3, OneRequest
  <2> QED BY <2>2, <2>3
<1>3. s = [i \in 1..n |-> s[i]]
  BY <1>1
<1> HIDE DEF s
<1>4. IsRequests(s)
  BY <1>2, <1>3, ManyRequests
<1> QED BY <1>4 DEF s

\* What a command line is turned into.
LEMMA ShowOptionsAreRequests ==
  ASSUME NEW o \in Invocations
  PROVE  IsRequests(ShowOptions(o))
<1>1. /\ Len(o.add) \in Nat /\ Len(o.addr) \in Nat /\ Len(o.del) \in Nat /\ Len(o.delr) \in Nat
      /\ Len(o.restore) \in Nat /\ Len(o.index) \in Nat
  BY SessionAssumption DEF SessionAssumption, Options
<1> DEFINE list == IF o.list = <<"local">> THEN <<Request("listLocal", <<>>)>>
                   ELSE IF o.list = <<"remote">> THEN <<Request("listRemote", <<>>)>>
                   ELSE <<>>
           del == IfGiven(o.del, Each("del", ToDel(o)))
           delr == IfGiven(o.delr, Each("delr", ToDel(o)))
           clean == IfGiven(o.clean, <<Request("cleanRemote", <<>>)>>)
           last == IF o.restore /= <<>> /\ o.target = <<>> THEN <<>>
                   ELSE RestoreRequests(o) \o Each("restoreIndex", o.index) \o clean
<1>2. IsRequests(list)
  BY NoRequests, OneRequest
<1>3. Len(ToDel(o)) \in Nat
  BY <1>1 DEF ToDel
<1>4. IsRequests(del) /\ IsRequests(delr)
  BY <1>3, NoRequests, EachRequests DEF IfGiven
<1>5. IsRequests(clean)
  BY NoRequests, OneRequest DEF IfGiven
<1> HIDE DEF list, del, delr, clean
<1>6. IsRequests(Each("add", o.add)) /\ IsRequests(Each("addr", o.addr)) /\ IsRequests(Each("restoreIndex", o.index))
  BY <1>1, EachRequests
<1>7. IsRequests(RestoreRequests(o) \o Each("restoreIndex", o.index) \o clean)
  BY <1>1, <1>5, <1>6, RestoreRequestsAreRequests, BothRequests
<1>8. IsRequests(last)
  BY <1>7, NoRequests
<1> HIDE DEF last
<1>9. IsRequests(list \o Each("add", o.add) \o Each("addr", o.addr) \o del \o delr \o last)
  BY <1>2, <1>4, <1>6, <1>8, BothRequests
<1> QED BY <1>9 DEF ShowOptions, list, del, delr, clean, last

LEMMA SessionInvInit ==
  ASSUME SessionInit
  PROVE  SessionInv
<1>1. todo = [c \in Clients |-> todo[c]] /\ \A c \in Clients : IsRequests(todo[c])
  BY ShowOptionsAreRequests DEF SessionInit
<1> QED BY <1>1 DEF SessionInit, SessionInv, RequestsInv, ConnState

\* The connection of one client changes, its request stays.
LEMMA OneConnection ==
  ASSUME SessionInv, NEW c \in Clients, NEW state \in ConnState, Becomes(c, state), todo' = todo,
         state /= "none" => todo[c] /= <<>>
  PROVE  RequestsInv' /\ conn'[c] = state /\ \A k : k /= c => conn'[k] = conn[k]
<1>1. conn' = [conn EXCEPT ![c] = state] /\ conn \in [Clients -> ConnState]
  BY DEF SessionInv, RequestsInv, Becomes
<1>2. RequestsInv'
  BY <1>1 DEF SessionInv, RequestsInv
<1> QED BY <1>1, <1>2

\* The connection of one client goes, and with it one or all of its requests.
LEMMA NoConnection ==
  ASSUME SessionInv, NEW c \in Clients, Becomes(c, "none"), NEW rest, IsRequests(rest),
         todo' = [todo EXCEPT ![c] = rest]
  PROVE  RequestsInv' /\ \A k : k /= c => conn'[k] = conn[k]
<1>1. conn' = [conn EXCEPT ![c] = "none"] /\ conn \in [Clients -> ConnState] /\ "none" \in ConnState
  BY DEF SessionInv, RequestsInv, Becomes, ConnState
<1>2. DOMAIN todo = Clients /\ todo = [k \in Clients |-> todo[k]]
  BY DEF SessionInv, RequestsInv
<1>3. todo' = [k \in Clients |-> IF k = c THEN rest ELSE todo[k]]
  BY <1>2
<1>4. RequestsInv'
  BY <1>1, <1>3 DEF SessionInv, RequestsInv
<1> QED BY <1>1, <1>4

LEMMA ClientSteps ==
  ASSUME SessionInv, NEW c \in Clients, ClientStep(c) \/ Interrupt(c) \/ HandleAccept(c) \/ HandleRead(c)
  PROVE  SessionInv'
<1>1. CASE Connect(c)
  <2>1. c /= serving /\ todo[c] /= <<>> /\ "backlog" \in ConnState
    BY <1>1, SessionAssumption DEF SessionAssumption, Connect, SessionInv, RequestsInv, ConnState
  <2> QED BY <1>1, <2>1, OneConnection DEF Connect, SessionInv
<1>2. CASE HandleAccept(c)
  <2>1. c /= serving /\ todo[c] /= <<>> /\ "accepted" \in ConnState
    BY <1>2, SessionAssumption DEF SessionAssumption, HandleAccept, SessionInv, RequestsInv, ConnState
  <2> QED BY <1>2, <2>1, OneConnection DEF HandleAccept, SessionInv
<1>3. CASE HandleRead(c)
  <2>1. todo[c] /= <<>> /\ "handled" \in ConnState
    BY <1>3, SessionAssumption DEF SessionAssumption, HandleRead, SessionInv, RequestsInv, ConnState
  <2> QED BY <1>3, <2>1, OneConnection DEF HandleRead, SessionInv
<1>4. CASE Refused(c) \/ Received(c)
  <2>1. /\ c /= serving /\ todo[c] /= <<>> /\ Becomes(c, "none")
        /\ todo' = [todo EXCEPT ![c] = Tail(todo[c])] /\ UNCHANGED <<serving, alive>>
    BY <1>4, SessionAssumption DEF SessionAssumption, Refused, Received, SendNext, SessionInv, RequestsInv
  <2>2. IsRequests(Tail(todo[c]))
    BY <2>1, TailRequests DEF SessionInv, RequestsInv
  <2> QED BY <2>1, <2>2, NoConnection DEF SessionInv
<1>5. CASE Interrupt(c) /\ UNCHANGED conn
  <2>1. /\ todo[c] /= <<>> /\ todo' = [todo EXCEPT ![c] = <<Head(todo[c])>>]
        /\ UNCHANGED <<conn, serving, alive>>
    BY <1>5 DEF Interrupt, Becomes, SessionInv, RequestsInv, ConnState
  <2>2. IsRequests(<<Head(todo[c])>>) /\ <<Head(todo[c])>> /= <<>>
    BY <2>1, FirstRequest DEF SessionInv, RequestsInv
  <2>3. RequestsInv'
    BY <2>1, <2>2 DEF SessionInv, RequestsInv
  <2> QED BY <2>1, <2>3 DEF SessionInv
<1>6. CASE Interrupt(c) /\ ~UNCHANGED conn
  <2>1. /\ c /= serving /\ Becomes(c, "none") /\ todo' = [todo EXCEPT ![c] = <<>>]
        /\ UNCHANGED <<serving, alive>>
    BY <1>6, SessionAssumption DEF SessionAssumption, Interrupt, SessionInv, RequestsInv
  <2> QED BY <2>1, NoRequests, NoConnection DEF SessionInv
<1> QED BY <1>1, <1>2, <1>3, <1>4, <1>5, <1>6 DEF ClientStep

LEMMA HandlersReturn ==
  ASSUME SessionInv, serving /= Nobody, Throw \/ \E long : Respond(long)
  PROVE  SessionInv'
<1>1. serving \in Clients /\ conn[serving] = "handled" /\ todo[serving] /= <<>>
  BY DEF SessionInv, RequestsInv
<1>2. PICK c \in Clients : c = serving
  BY <1>1
<1>3. CASE Throw
  <2>1. IsRequests(Tail(todo[c]))
    BY <1>1, <1>2, TailRequests DEF SessionInv, RequestsInv
  <2>2. Becomes(c, "none") /\ todo' = [todo EXCEPT ![c] = Tail(todo[c])] /\ serving' = Nobody /\ alive' = FALSE
    BY <1>2, <1>3 DEF Throw, SendNext
  <2> QED BY <2>1, <2>2, NoConnection DEF SessionInv
<1>4. ASSUME NEW long, Respond(long) PROVE SessionInv'
  <2>1. PICK state \in {"answered", "cut"} : Becomes(c, state)
    BY <1>2, <1>4 DEF Respond
  <2>2. state \in ConnState /\ todo' = todo /\ serving' = Nobody /\ alive' = alive
    BY <1>4 DEF Respond, ConnState
  <2> QED BY <1>1, <1>2, <2>1, <2>2, OneConnection DEF SessionInv
<1> QED BY <1>3, <1>4

LEMMA SessionKept ==
  ASSUME SessionInv, UNCHANGED sessionVars
  PROVE  SessionInv'
BY DEF SessionInv, RequestsInv, sessionVars

LEMMA SessionStepKeeps ==
  ASSUME SessionInv, [RestoreNext]_vars
  PROVE  SessionInv'
<1>1. CASE UNCHANGED sessionVars
  BY <1>1, SessionKept
<1>2. CASE Answer \/ OtherAnswer \/ OtherThrows
  <2>1. serving /= Nobody
    BY <1>2 DEF Answer, OtherAnswer, OtherThrows, Handling
  <2>2. Throw \/ \E long : Respond(long)
    BY <1>2 DEF Answer, OtherAnswer, OtherThrows
  <2> QED BY <2>1, <2>2, HandlersReturn
<1>3. ASSUME NEW c \in Clients, ClientStep(c) \/ Interrupt(c) \/ HandleAccept(c) \/ HandleRead(c)
      PROVE  SessionInv'
  BY <1>3, ClientSteps
<1>4. CASE DownloadFiles \/ DownloadRemotes \/ DownloadObject \/ DownloadEnds
  BY <1>1, <1>4 DEF DownloadFiles, DownloadRemotes, DownloadObject, DownloadEnds
<1>5. ASSUME NEW x, QueuePath(x) \/ QueueName(x) \/ NewVersion(x) \/ Upload(x) PROVE SessionInv'
  BY <1>1, <1>5 DEF QueuePath, QueueName, NewVersion, AddVersion, Upload
<1> QED BY <1>1, <1>2, <1>3, <1>4, <1>5, Zenon DEF RestoreNext, HandlerStep, vars

-------------------------------------------------------------------------------
\* The types of objects and targets.

StoreInv ==
  /\ \A n \in Names : bucket[n] = NoObject \/ bucket[n].header = n
  /\ \A p \in Paths : target[p].mod \in Names \cup {Now, NoFile.mod}
  /\ faults \in 0..MaxFaults

LEMMA StoreInvInit ==
  ASSUME RestoreInit
  PROVE  StoreInv
<1>1. ASSUME NEW n \in Names PROVE FirstBucket[n] = NoObject \/ FirstBucket[n].header = n
  BY DEF FirstBucket, EncryptFile
<1>2. ASSUME NEW n \in DOMAIN FirstData PROVE n \in Names /\ \A s \in Spoiled(n) : s.header = n
  <2>1. n \in Names
    BY DEF RestoreAssumption, Names
  <2>2. FirstBucket[n] = EncryptFile(n, FirstData[n])
    BY <2>1 DEF FirstBucket
  <2>3. CutOff(FirstBucket[n]).header = n
    BY <2>2 DEF CutOff, EncryptFile
  <2>4. \A f : EncryptFile(n, f).header = n
    BY DEF EncryptFile
  <2> QED BY <2>1, <2>3, <2>4 DEF Spoiled
<1>3. \A n \in Names : bucket[n] = NoObject \/ bucket[n].header = n
  <2>1. CASE bucket = FirstBucket
    BY <1>1, <2>1
  <2>2. ASSUME NEW k \in DOMAIN FirstData, NEW s \in Spoiled(k), bucket = [FirstBucket EXCEPT ![k] = s]
        PROVE  \A n \in Names : bucket[n] = NoObject \/ bucket[n].header = n
    <3>1. DOMAIN FirstBucket = Names
      BY DEF FirstBucket
    <3>2. \A n \in Names : bucket[n] = IF n = k THEN s ELSE FirstBucket[n]
      BY <2>2, <3>1
    <3> QED BY <1>1, <1>2, <3>2
  <2> QED BY <2>1, <2>2 DEF RestoreInit
<1>4. \A p \in Paths : target[p].mod = NoFile.mod
  BY DEF RestoreInit
<1>5. faults \in 0..MaxFaults
  BY DEF RestoreInit, RestoreAssumption
<1> QED BY <1>3, <1>4, <1>5 DEF StoreInv

LEMMA DownloadStores ==
  ASSUME IInv, StoreInv, DownloadObject
  PROVE  StoreInv'
<1>1. batch \in Seq(Item) /\ batch /= <<>> /\ bucket' = bucket
  BY DEF DownloadObject, IInv, Types
<1>2. PICK item \in Item : DownloadFails(item) \/ DecryptFails(item) \/ Decrypted(item)
  BY <1>1, TailProps DEF DownloadObject
<1>3. item.mod \in Names /\ item.path \in Paths /\ target = [p \in Paths |-> target[p]]
  BY DEF Item, IInv, Types
<1>4. faults' \in 0..MaxFaults
  BY <1>2 DEF DownloadFails, DecryptFails, Decrypted, StoreInv, RestoreAssumption
<1>5. ASSUME NEW file, file.mod \in Names \cup {Now, NoFile.mod}, target' = [target EXCEPT ![item.path] = file]
      PROVE  \A p \in Paths : target'[p].mod \in Names \cup {Now, NoFile.mod}
  <2>1. \A p \in Paths : target'[p] = IF p = item.path THEN file ELSE target[p]
    BY <1>3, <1>5
  <2> QED BY <1>5, <2>1 DEF StoreInv
<1>6. \A p \in Paths : target'[p].mod \in Names \cup {Now, NoFile.mod}
  <2>1. CASE DownloadFails(item)
    BY <2>1 DEF DownloadFails, StoreInv
  <2>2. CASE DecryptFails(item)
    BY <1>5, <2>2 DEF DecryptFails
  <2>3. CASE Decrypted(item)
    BY <1>3, <1>5, <2>3 DEF Decrypted
  <2> QED BY <1>2, <2>1, <2>2, <2>3
<1> QED BY <1>1, <1>4, <1>6 DEF StoreInv

LEMMA UploadStores ==
  ASSUME IInv, StoreInv, NEW n \in Names, Upload(n)
  PROVE  StoreInv'
<1>1. /\ UNCHANGED <<target, faults>>
      /\ bucket' = bucket \/ bucket' = [bucket EXCEPT ![n] = EncryptFile(n, data[n])]
  BY DEF Upload, commandVars
<1>2. EncryptFile(n, data[n]).header = n
  BY DEF EncryptFile
<1>3. DOMAIN bucket = Names
  BY DEF IInv, Types
<1> QED BY <1>1, <1>2, <1>3 DEF StoreInv

LEMMA StoreStepKeeps ==
  ASSUME IInv, StoreInv, [RestoreNext]_vars
  PROVE  StoreInv'
<1>1. CASE UNCHANGED <<bucket, target, faults>>
  BY <1>1 DEF StoreInv
<1>2. CASE SessionStep \/ Answer \/ OtherAnswer \/ OtherThrows
  BY <1>1, <1>2 DEF SessionStep, Answer, OtherAnswer, OtherThrows, Unchanged, commandVars
<1>3. CASE DownloadFiles \/ DownloadRemotes \/ DownloadEnds
  BY <1>1, <1>3 DEF DownloadFiles, DownloadRemotes, DownloadEnds
<1>4. ASSUME NEW x, QueuePath(x) \/ QueueName(x) \/ NewVersion(x) PROVE StoreInv'
  BY <1>1, <1>4 DEF QueuePath, QueueName, NewVersion, AddVersion, commandVars
<1>5. CASE UNCHANGED vars
  BY <1>1, <1>5 DEF vars, commandVars
<1> QED BY <1>2, <1>3, <1>4, <1>5, DownloadStores, UploadStores, Zenon DEF RestoreNext, HandlerStep

\* The requests, connections, versions, objects, items and answers always have
\* their types.
THEOREM RestoreTypesHold == RestoreSpec => []RestoreTypeOK
<1>1. RestoreInit => SessionInv /\ StoreInv
  BY SessionInvInit, StoreInvInit DEF RestoreInit
<1>2. IInv /\ SessionInv /\ StoreInv /\ [RestoreNext]_vars => (SessionInv /\ StoreInv)'
  BY SessionStepKeeps, StoreStepKeeps
<1>3. IInv /\ SessionInv /\ StoreInv => RestoreTypeOK
  BY SessionInvGives DEF IInv, Types, OnePerPath, StoreInv, RestoreTypeOK, Reply
<1> QED BY <1>1, <1>2, <1>3, InvHolds, PTL DEF RestoreSpec

===============================================================================
