------------------------------- MODULE Restore -------------------------------
(***************************************************************************)
(* Restoring files: a client's restore command (Session), downloadFiles    *)
(* and verifyHash (Watch.cpp), the download queue and its pass (S3.cpp),   *)
(* with the watch thread adding versions and the remote thread uploading   *)
(* them meanwhile.  The contents of files are SecretStream's; the header of*)
(* a version's stream is taken to be the number of its name.               *)
(*                                                                         *)
(* downloadFiles reads fileIndex without Watch::mtx.  The data race itself *)
(* is left out: each look at the index is taken to fall between two of its *)
(* updates.                                                                *)
(***************************************************************************)
EXTENDS Session, SecretStream, FiniteSets

CONSTANTS FirstIndex,   \* the names of the versions the index starts with, oldest first
          FirstData,    \* the contents of each of them, by name
          NewContents,  \* contents of versions added later
          Restarted,    \* was the index restored from the database?
          MaxVersions,  \* bound: versions of all paths
          MaxFaults     \* bound: requests to the store that fail

Paths == DOMAIN FirstIndex
Names == 1..MaxVersions

ASSUME RestoreAssumption ==
  /\ IsFiniteSet(Paths)
  /\ Paths \cap Names = {}
  /\ Names \subseteq Headers
  /\ FirstData \in Seq(Contents)
  /\ Len(FirstData) <= MaxVersions
  /\ \A p \in Paths : FirstIndex[p] \in Seq(1..Len(FirstData)) \ {<<>>}
  /\ NewContents \subseteq Contents
  /\ Restarted \in BOOLEAN
  /\ MaxVersions \in Nat
  /\ MaxFaults \in Nat

VARIABLES index,    \* fileIndex
          data,     \* history: the contents each version was made of
          bucket,   \* the objects in the store
          uploads,  \* versions queued for upload
          stage,    \* what the handler of a restore command is doing
          wanted,   \* paths and names downloadFiles has still to queue
          queue,    \* the download queue
          batch,    \* what the pass over it has still to visit
          answer,   \* what the pass has reported of each item
          asked,    \* history: the paths and names the command is about
          begun,    \* history: the versions of each path when it began
          target,   \* the files under the target path
          faults

indexVars == <<index, data>>
history == <<asked, begun>>
commandVars == <<stage, wanted, queue, batch, answer, history, target>>
vars == <<sessionVars, indexVars, bucket, uploads, commandVars, faults>>

\* A hash stands for the contents hashed; {} is the empty string.
NoHash == {}
HashFile(contents) == {contents}
Hash == {NoHash} \cup {HashFile(f) : f \in Contents}

\* A version's name is the number of the draw, and its modification time goes
\* with it.
Version == [name : Names, mod : Names, hash : Hash]
Item == [path : Paths, name : Names, mod : Names]
Result == {"verified", "unverified", "undecrypted", "failed"}

NoObject == [header |-> Damaged, pieces |-> <<>>]
NoFile == [plain |-> <<>>, mod |-> -1]
Now == 0

RestoreTypeOK ==
  /\ SessionTypeOK
  /\ index \in [Paths -> Seq(Version)]
  /\ data \in Seq(Contents)
  /\ \A n \in Names : bucket[n] = NoObject \/ bucket[n].header = n
  /\ uploads \subseteq Names
  /\ stage \in {"none", "queueing", "downloading", "finished"}
  /\ wanted \subseteq asked
  /\ asked \subseteq Paths \cup Names
  /\ queue \in Seq(Item)
  /\ batch \in Seq(Item)
  /\ answer \in Seq([path : Paths, name : Names, result : Result])
  /\ begun \in [Paths -> Nat]
  /\ \A p \in Paths : target[p].mod \in Names \cup {Now, NoFile.mod}
  /\ faults \in 0..MaxFaults

\* A restart loses the hashes of the second and later versions of a path.
VersionOf(n, nth) ==
  [name |-> n, mod |-> n,
   hash |-> IF Restarted /\ nth > 1 THEN NoHash ELSE HashFile(FirstData[n])]

CutOff(s) == [s EXCEPT !.pieces = SubSeq(@, 1, Len(@) - 1)]

\* Bound: at most one of the first objects is not as it should be.  It lost its
\* end, or is what the file held after another write within the same second.
FirstBucket ==
  [n \in Names |-> IF n \in DOMAIN FirstData THEN EncryptFile(n, FirstData[n]) ELSE NoObject]
Spoiled(n) == {CutOff(FirstBucket[n])} \cup {EncryptFile(n, f) : f \in NewContents}

RestoreInit ==
  /\ SessionInit
  /\ index = [p \in Paths |-> [i \in DOMAIN FirstIndex[p] |-> VersionOf(FirstIndex[p][i], i)]]
  /\ data = FirstData
  /\ bucket \in {FirstBucket} \cup
       UNION {{[FirstBucket EXCEPT ![n] = s] : s \in Spoiled(n)} : n \in DOMAIN FirstData}
  /\ uploads = {}
  /\ stage = "none"
  /\ wanted = {}
  /\ queue = <<>>
  /\ batch = <<>>
  /\ answer = <<>>
  /\ asked = {}
  /\ begun = [p \in Paths |-> 0]
  /\ target = [p \in Paths |-> NoFile]
  /\ faults = 0

Latest(p) == index[p][Len(index[p])]
VersionsOf(p) == {index[p][i] : i \in DOMAIN index[p]}
PathOf(n) == CHOOSE p \in Paths : \E v \in VersionsOf(p) : v.name = n
Indexed(n) == \E p \in Paths : \E v \in VersionsOf(p) : v.name = n

-------------------------------------------------------------------------------
(* downloadFiles, on the socket thread and without Watch::mtx.               *)

RestoreCommands == {"restore", "restoreAll"}

\* The argument of restore is a name or a path; one that is not indexed is
\* answered at once.
Arg == Args[Len(Args)]
Found ==
  IF Head(todo[serving]).cmd = "restoreAll" THEN Paths
  ELSE {x \in {Arg} : x \in Paths \/ (x \in Names /\ Indexed(x))}

DownloadFiles ==
  /\ Handling(RestoreCommands)
  /\ stage = "none"
  /\ wanted' = Found
  /\ stage' = IF Found = {} THEN "finished" ELSE "queueing"
  /\ answer' = <<>>
  /\ asked' = Found
  /\ begun' = [p \in Paths |-> Len(index[p])]
  /\ UNCHANGED <<sessionVars, indexVars, bucket, uploads, queue, batch, target, faults>>

QueueItem(path, v) == queue' = Append(queue, [path |-> path, name |-> v.name, mod |-> v.mod])

QueuePath(p) ==
  /\ stage = "queueing"
  /\ p \in wanted
  /\ QueueItem(p, Latest(p))
  /\ wanted' = wanted \ {p}
  /\ UNCHANGED <<sessionVars, indexVars, bucket, uploads, stage, batch, answer, history, target, faults>>

QueueName(n) ==
  /\ stage = "queueing"
  /\ n \in wanted
  /\ \E v \in VersionsOf(PathOf(n)) : v.name = n /\ QueueItem(PathOf(n), v)
  /\ wanted' = wanted \ {n}
  /\ UNCHANGED <<sessionVars, indexVars, bucket, uploads, stage, batch, answer, history, target, faults>>

DownloadRemotes ==
  /\ stage = "queueing"
  /\ wanted = {}
  /\ stage' = "downloading"
  /\ batch' = queue
  /\ UNCHANGED <<sessionVars, indexVars, bucket, uploads, wanted, queue, answer, history, target, faults>>

\* Mutant of VerifyHash: any version of the path will do.
VerifyHashOfPath(n, hash) == \E v \in VersionsOf(PathOf(n)) : v.hash = hash

\* Is the hash that of a version of this name?
VerifyHash(n, hash) == \E v \in VersionsOf(PathOf(n)) : v.name = n /\ v.hash = hash

Report(item, result) ==
  answer' = Append(answer, [path |-> item.path, name |-> item.name, result |-> result])

\* The request fails, or there is no such object: the target is not touched.
DownloadFails(item) ==
  /\ \/ bucket[item.name] = NoObject /\ UNCHANGED faults
     \/ faults < MaxFaults /\ faults' = faults + 1
  /\ Report(item, "failed")
  /\ UNCHANGED target

\* The file at the target is overwritten with as much as can be decrypted.
DecryptFails(item) ==
  /\ bucket[item.name] /= NoObject
  /\ ~Decrypts(bucket[item.name])
  /\ target' = [target EXCEPT ![item.path] = [plain |-> Plain(bucket[item.name]), mod |-> Now]]
  /\ Report(item, "undecrypted")
  /\ UNCHANGED faults

\* A file whose hash is not that of the version is removed again.
Decrypted(item) ==
  /\ Decrypts(bucket[item.name])
  /\ LET plain == Plain(bucket[item.name]) IN
       IF VerifyHash(item.name, HashFile(plain))
       THEN /\ target' = [target EXCEPT ![item.path] = [plain |-> plain, mod |-> item.mod]]
            /\ Report(item, "verified")
       ELSE /\ target' = [target EXCEPT ![item.path] = NoFile]
            /\ Report(item, "unverified")
  /\ UNCHANGED faults

\* Mutant of PopDownload: an item that fails stays in the queue.
PopDownloadVerified ==
  queue' = IF answer'[Len(answer')].result = "verified" THEN Tail(queue) ELSE queue

\* Failed or not, the item leaves the queue.
PopDownload == queue' = Tail(queue)

DownloadObject ==
  /\ stage = "downloading"
  /\ batch /= <<>>
  /\ LET item == Head(batch) IN DownloadFails(item) \/ DecryptFails(item) \/ Decrypted(item)
  /\ PopDownload
  /\ batch' = Tail(batch)
  /\ UNCHANGED <<sessionVars, indexVars, bucket, uploads, stage, wanted, history>>

DownloadEnds ==
  /\ stage = "downloading"
  /\ batch = <<>>
  /\ stage' = "finished"
  /\ UNCHANGED <<sessionVars, indexVars, bucket, uploads, wanted, queue, batch, answer, history, target, faults>>

Unchanged == UNCHANGED <<indexVars, bucket, uploads, wanted, queue, batch, answer, history, target, faults>>

\* The answer to many items is a long one.
Answer ==
  /\ Handling(RestoreCommands)
  /\ stage = "finished"
  /\ Respond(Len(answer) > 1)
  /\ stage' = "none"
  /\ Unchanged

-------------------------------------------------------------------------------
(* The other commands, and the other threads.                                *)

\* Those that walk a directory tree, which may vanish, or look into the names
\* of objects, which may be too short.
Throwing == {"add", "addr", "del", "delr", "restoreIndex"}
OtherCommands == Throwing \cup {"listLocal", "listRemote", "cleanRemote"}

OtherAnswer ==
  /\ Handling(OtherCommands)
  /\ \E long \in BOOLEAN : Respond(long)
  /\ UNCHANGED stage
  /\ Unchanged

OtherThrows ==
  /\ Handling(Throwing)
  /\ Throw
  /\ UNCHANGED stage
  /\ Unchanged

AddVersion(p, f, hashed) ==
  LET n == Len(data) + 1 IN
    /\ index' = [index EXCEPT ![p] = Append(@, [name |-> n, mod |-> n, hash |-> HashFile(hashed)])]
    /\ data' = Append(data, f)
    /\ uploads' = uploads \cup {n}
    /\ UNCHANGED <<sessionVars, bucket, commandVars, faults>>

\* Mutant of NewVersion: the hash is still that of the version before.
NewVersionHashedBefore(p) ==
  /\ Len(data) < MaxVersions
  /\ \E f \in NewContents : AddVersion(p, f, data[Latest(p).name])

NewVersion(p) ==
  /\ Len(data) < MaxVersions
  /\ \E f \in NewContents : AddVersion(p, f, f)

\* The remote thread's pass needs Remote::mtx, which the download pass holds.
\* A version that is no longer the latest is dropped.
Upload(n) ==
  /\ stage /= "downloading"
  /\ n \in uploads
  /\ bucket' = IF Latest(PathOf(n)).name = n THEN [bucket EXCEPT ![n] = EncryptFile(n, data[n])] ELSE bucket
  /\ uploads' = uploads \ {n}
  /\ UNCHANGED <<sessionVars, indexVars, commandVars, faults>>

SessionStep == UNCHANGED <<indexVars, bucket, uploads, commandVars, faults>>

HandlerStep ==
  \/ DownloadFiles
  \/ \E p \in Paths : QueuePath(p)
  \/ \E n \in Names : QueueName(n)
  \/ DownloadRemotes
  \/ DownloadObject
  \/ DownloadEnds
  \/ Answer
  \/ OtherAnswer
  \/ OtherThrows

RestoreNext ==
  \/ \E c \in Clients : (ClientStep(c) \/ Interrupt(c) \/ HandleAccept(c) \/ HandleRead(c)) /\ SessionStep
  \/ HandlerStep
  \/ \E p \in Paths : NewVersion(p)
  \/ \E n \in Names : Upload(n)

RestoreSpec == RestoreInit /\ [][RestoreNext]_vars

\* A client goes on until it waits for the daemon; the socket thread runs what
\* is ready, and an answer that has been written arrives.
RestoreFairSpec ==
  /\ RestoreSpec
  /\ WF_vars(HandlerStep)
  /\ \A c \in Clients :
       /\ WF_vars(ClientStep(c) /\ SessionStep)
       /\ WF_vars(HandleAccept(c) /\ SessionStep)
       /\ WF_vars(HandleRead(c) /\ SessionStep)

-------------------------------------------------------------------------------
(* Properties.                                                               *)

\* A file reported as verified is there with the contents and the modification
\* time of the very version asked for, whatever the object of its name holds.
VerifiedIsGenuine ==
  \A i \in DOMAIN answer :
    answer[i].result = "verified" =>
      target[answer[i].path] = [plain |-> data[answer[i].name], mod |-> answer[i].name]

\* The answer to a restore reports every file asked for exactly once, in a
\* version that was asked for by name or has been the latest since the command
\* began, and nothing else; nothing stays behind in the queue for the next.
AnswerCoversRequest ==
  stage = "finished" =>
    /\ queue = <<>>
    /\ Len(answer) = Cardinality(asked)
    /\ \A x \in asked : \E i \in DOMAIN answer :
         LET a == answer[i] IN
           IF x \in Paths
           THEN /\ a.path = x
                /\ \E k \in begun[x]..Len(index[x]) : index[x][k].name = a.name
           ELSE a.name = x

\* A version whose object is intact is restored: encryption, decryption and
\* hash fit together, for files of every length, and the version is verified
\* against its own hash.  After a restart (Restarted) that fails for the second
\* and later versions of a path, whose hashes are not restored (Watch.cpp:627),
\* although devlog.txt:337 says of the hash that each version has "contents can
\* be verified after download".
IntactVersionsRestore ==
  \A i \in DOMAIN answer :
    LET a == answer[i] IN
      bucket[a.name] = EncryptFile(a.name, data[a.name]) => a.result \in {"verified", "failed"}

===============================================================================
