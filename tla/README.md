# A TLA+ model of enclone

enclone is a backup daemon (`encloned`) with a command line client (`enclone`).
The daemon watches files, records every change as a *version* with a random
object name, encrypts the file and stores it under that name in an S3 bucket.
This directory holds TLA+ modules of the daemon, the TLC runs that check them
and proofs of their main theorems. `PROJECT.json` relates every definition to
the lines it models, and lists the runs, the theorems, the hazards of the code
and the places where code and documentation disagree. Paths below are relative
to the repository's `src/`.

## The system

Three threads are started by `encloned::execLoop` and live as long as the
process: the **watch** thread (`Watch::execThread`), the **remote** thread
(`Remote::execThread`) and the **socket** thread (`Socket::execThread`), which
runs one client command after the other to its end (`Session::handle_read`).

| component | state | operations |
|---|---|---|
| `Watch` (Watch.cpp) | `fileIndex` (path → versions), `pathHashIndex` (name → path), `dirIndex`, `sqlQueue`, `Watch::mtx` | `addWatch`, `delWatch`, `scanFileChange`, `execQueuedSQL`, `restoreDB`, `uploadSuccess`, `resolvePathHash`, `downloadFiles`, `indexBackup`, `restoreIndex`, lists |
| `Remote` (remote/Remote.cpp) | `Remote::mtx` | `uploadRemotes`, `deleteRemotes`, `downloadRemotes`, `queueFor…`, `listObjects`, `cleanRemote` |
| `S3`, `Queue` (remote/S3.cpp, Queue.cpp) | upload, download and delete queue, last listing, `S3::mtx` | `callAPI` and the pass it makes over one queue, `listObjects` |
| `DB` (DB.cpp) | SQLite tables `fileIndex`, `dirIndex`, `indexBackup`, `DB::mtx` | `execSQL`, `backupDB` |
| `Socket`, `Server`, `Session` (Socket.cpp) | a buffer per session | read a request, run it, write the answer |
| `Encryption` (Encryption.cpp) | none | encrypt, decrypt, hash a file, draw a name, derive the backup's name |
| `encloned` (encloned.cpp) | key, sub-key | start, choice of `index.restore` over a missing `index.db` |
| `enclone` (enclone.cpp) | none | options → requests |

How they meet: a scan or `addWatch` finds a new or changed file, appends a
version to `fileIndex` and an INSERT to `sqlQueue`, and queues an upload at
`Remote`, holding `Watch::mtx` all the while and `Remote::mtx` for the last
step. Every five seconds the remote thread makes an upload pass and a delete
pass, holding `Remote::mtx` (and `S3::mtx`) for the whole pass; a finished
upload calls back `Watch::uploadSuccess`, *without* `Watch::mtx`. The watch
thread flushes `sqlQueue` into the database from time to time. Queues and
`sqlQueue` are in memory only; a restart has the database and the bucket.

What is hard: passes that pop the front of a queue they iterate over while
requests fail (Queue.cpp, S3.cpp); two mutexes nested from three threads;
`uploadSuccess` between any two steps of a holder of `Watch::mtx`; a file system
that changes between any two looks at it; a process that dies at any point
between index, SQL queue, database and bucket; a clean-up that decides what to
delete from a listing and an index that change meanwhile. `PROJECT.json` lists
these hazards line by line.

What makes each component correct:

- queues: a pass pops what it finished and nothing else; deletions are not
  starved by uploads that fail; a failed item is kept (it is not, see below).
- locking: one order of the mutexes, each mutex is unlocked by the function that
  locked it (not by `cleanRemote`'s early returns, see below), no thread waits in a
  circle but for a mutex that was left locked, one AWS session at a time.
- index: `pathHashIndex` is the inverse of `fileIndex`; nothing the index knows is
  queued for deletion; what it says is uploaded is in the bucket.
- database: a prefix of the changes of the index, in their order.
- watched directories: whatever lies in one is watched in the end; index and
  database part at no exception and no death.
- index backup: a change not backed up is always due; the bucket ends up with an
  exact copy of a whole database under the name the daemon knows.
- downloads: a file reported as verified is the version asked for; an intact
  version can be restored (not after a restart, see below).
- encryption: decryption takes back what encryption made, and nothing less.
- socket and client: whoever sends a request gets back to its command line.
- the daemon: every change becomes a version, the last contents are backed up.

## Modules

| module | models | extends / composes |
|---|---|---|
| `FileSystem` | (external) files as `std::filesystem` shows them, changed by other programs | |
| `TransferQueue` | `Queue`, the passes of `S3`, `Remote`'s entry points, the bucket | `FileSystem` |
| `TransferQueueProofs` | proofs about `TransferQueue` | |
| `LockNesting` | threads, functions and mutexes, for any call graph | |
| `OrderedNesting` | the assumptions under which a call graph can only hang on a mutex left locked | `LockNesting` |
| `LockNestingProofs` | proofs under these assumptions | `OrderedNesting` |
| `DaemonCalls` | the daemon's call graph and mutexes | |
| `FileIndex` | `Watch`'s index for single files, the SQL queue, the table `fileIndex` | `TransferQueue` |
| `Daemon` | the three threads over `FileIndex` and `TransferQueue`, `cleanRemote`, crash and restart | `FileIndex` |
| `DaemonTypeProofs`, `DaemonProofs` | proofs about `Daemon` | the second extends the first, which uses `TransferQueueProofs` |
| `WriteBehind` | abstract: an index with a database behind it | refined by `Daemon`, which `DaemonProofs` proves |
| `WatchTree` | `dirIndex`: additions, deletions and scans that walk a directory tree, the table `dirIndex` | `FileSystem` |
| `WatchTreeProofs` | proofs about `WatchTree` | |
| `IndexBackup` | `indexBackup`, `backupDB`, the backup's upload, `restoreIndex`, the start with `index.restore` | |
| `IndexBackupProofs` | proofs about `IndexBackup` | |
| `SecretStream` | `encryptFile` and `decryptFile` as functions of sequences of chunks | |
| `SecretStreamProofs` | proofs about `SecretStream` | |
| `Session` | `enclone`'s options and requests, the socket thread's connections | |
| `Restore` | `downloadFiles`, `verifyHash`, the download pass, beside new versions and uploads | `Session`, `SecretStream` |
| `RestoreProofs` | proofs about `Restore` | uses `SecretStreamProofs` |
| `MCTransferQueue`, `MCOrderlyLocks`, `MCLocks`, `MCDaemon`, `MCWatchTree`, `MCRestore` | constants for TLC | |

### TransferQueue

`queue[k]` is `uploadQueue`, `downloadQueue` or `deleteQueue`. `pass` is the
holder of `Remote::mtx`: a pass (one `callAPI` call), nobody, or `"leaked"` when
`cleanRemote` returned without unlocking. `batch` is what the pass's range-for
still has to visit; it is fixed when the loop starts, since nobody else can
enqueue while `Remote::mtx` is held. `checked` is how far `uploadFromQueue` is
with its item: the existence test, the test of the modification time and the
encryption are three looks at a file system that may change in between. When
the file is gone at the third, `fopen` gives a null pointer and the process dies
(`EncryptMissing`). A failed request may or may not have been carried out by the
store. `kept` is a history variable: the items that failed in this pass.

A pop always takes the *front* of the queue (`Dequeue`), not the item just
finished, exactly as in the code: after a failure these are different items.

### FileIndex and Daemon

`section` says what the holder of `Watch::mtx` is doing. A critical section is
split wherever something that does not need `Watch::mtx` can be told from the
order: the file system (scan test, modification time, hash are separate looks),
`Remote::mtx` (a version is in the index before it is queued for upload, and
`delFileWatch` waits for `Remote::mtx` at every version), `uploadSuccess`, and
the death of the process. `execQueuedSQL` reads the text, executes it statement
by statement, each a transaction of its own, and then empties the queue; what
`uploadSuccess` appended in between goes with it. `restoreFileIdx` takes the mutex
for each row, so a restart is many steps; `EarlyCommands` says whether clients
send commands during it.

`cleanRemote` lists the bucket under `Remote::mtx`, looks up each name under
`Watch::mtx` and queues what it does not find, three separate steps per name.

Abstractions: a name is the number of the draw (`hashPath`:
88 random characters from a generator with a 32-bit seed; here they never
repeat); the contents of a file are the number of writes made
to it; a hash is the contents hashed; modification times are counters. The
`unordered_map`'s order is any order. `UploadObject` and `UploadSuccess` are one
step, since nothing another thread does can tell the moment between them. The
SQL queue is a sequence of statements, appended to atomically, although the
code's `stringstream` is shared without a lock, and `uploadSuccess` walks a vector
that another thread may be appending to: the damage such a data race can do to
the objects themselves is not modelled, the lost update it causes is.
Statements never fail; temporary files are left out.

### LockNesting, OrderedNesting, DaemonCalls

A thread is a stack of functions; a function that takes a mutex first waits for
it. A function may call what it calls in any number and order, which
over-approximates its branches and loops. `DaemonCalls` gives the daemon's
functions: a function called with different arguments or a locked part of one is
an entry of its own (`"callAPI delete"`, `"restoreFileIdx row"`). `Leaky`
functions return with their mutex locked. The daemon has one: `cleanRemote`
returns between `mtx.lock()` and `mtx.unlock()` when the bucket is empty or cannot
be listed (Remote.cpp:118-128), which is the entry `"cleanRemote early return"`
beside `"cleanRemote"`, for the runs that get to the `unlock()`. So the daemon does
hang: after such a clean-up the socket thread still owns `Remote::mtx`, and the next
of its functions to lock it waits for itself, as do the other threads for the
socket thread. `OwnersRunTheirFunctions` says that nothing else is ever left
locked, `HangsOnlyOnLeftLocks` that the daemon hangs for no other reason, and
`LockOrder` speaks of the mutexes of the functions that run.

### WatchTree

`walk` is the stack of running `addDirWatch` or `delDirWatch` calls; each frame
has what its `directory_iterator` has still to return, while other programs make,
fill and remove directories. `holder` has `Watch::mtx` for the whole walk, so the
steps of a walk interleave with the file system only. A directory that has
vanished when the iterator is made throws: on the socket thread that ends the
thread and leaves index and SQL queue as they are (`ThrowInSocket`), on the watch
thread the process (`ThrowInWatch`). `todo` is what the scan's loop has still to
visit; an insertion into `dirIndex` in the middle of that loop may leave any of the
other directories behind its iterator (`AddSubdir`). The scan leaves the first
vanished directory and breaks off (`ScanVanished`). A file is reduced to being
watched or not, and to the mark of its latest version; its versions are
`FileIndex`'s. The flush is one step, and a crash may fall between any two of its
statements. `Start` restores both tables in one step.

### IndexBackup

The index is a number that every change makes new. `db`, `backup`, `restore` and the
objects in the bucket are *copies*: which index, which name and which time the
table `indexBackup` holds, and the state of the file. `watch` is the watch
thread in `indexBackup`: the UPDATE of the time, the copy (which begins and ends, so
that the remote thread can read half of it), the item in the queue. `batch` and
`reading` are the remote thread's pass; only the backup's own items are in the
queue. Statements, copies and requests fail at most `MaxFaults` times. Two writes
of `index.db` never fall into the same second, since the watch thread sleeps
between them.

A file that was half written, half read or half decrypted is `"torn"` or
`"broken"`. A start chooses between `index.db`, `index.restore` and a new database.
The only check is `PRAGMA schema_version` (DB.cpp:22), which reads the header of the
file: a torn one opens, with its rows read or not, and is `"damaged"` from then on
(`Openings`); the empty file that `decryptFile` leaves opens as a new database. A
broken one stops the start, after `index.restore` has been renamed (`StartRefused`).
Nothing repairs a damaged database: it is backed up as it is. `BackupIsDue` and
`StopForgetsNothing` hold of it as well; `BackupSettles` is about whole databases,
since a damaged one may refuse every statement.

`BackupIsDue` excepts the case that the last copy failed: the code remembers the
time before it copies, so that change waits for the next one.

### SecretStream

A file is a sequence of bytes, a sealed chunk a record of header, place, FINAL tag
and bytes, which nobody can make without the key (libsodium's promise, stated as
`Authentic`). `Chunks` says how many rounds the `fread` loop makes: a file of whole
chunks gets an empty final one. `Writes` is one round of `decryptFile`'s loop,
`Written` how many rounds there are before the first that fails, `Plain` what is in
the target file then.

### Session and Restore

`ShowOptions` turns the options of an invocation into its requests, in order; each
is sent over a connection of its own (`conn`), and what it returns is ignored. The
socket thread serves one handler at a time (`serving`). The answer is a local
string handed to an asynchronous write: what fits into the socket is written at
once, the end of a long one may be lost (`Respond`). An exception in a handler ends
the thread (`Throw`). A client may be interrupted at any time: the request it has
sent is handled all the same, the rest of its requests is never sent (`Interrupt`).

`Restore` adds the handler of `restore`: `stage` is how far it is, `wanted` what it has
still to queue, `batch` and `answer` the download pass. The other commands only
answer, long or not, or throw. Meanwhile versions are added (`NewVersion`) and
uploaded (`Upload`, not during the pass, which holds `Remote::mtx`). The bucket starts
with the objects of the versions, at most one of them spoiled: cut off, or made
of what the file held after another write within the same second. `data`,
`asked` and `begun` are history: what each version was made of, what the command is
about and how many versions each path had when it began. A hash is what was hashed; `Restarted` says whether the first index
came from the database, which loses the hashes of second and later versions.
`downloadFiles` reads `fileIndex` without `Watch::mtx`: each look at it is taken to fall
between two updates. 88-character paths, which are taken for names, are left out.

## Runs

| run | bounds | shows |
|---|---|---|
| `transfer_queue` | 1 file, 2 writes (also within one second), 2 names, 2 items per queue, 2 failed requests, 1 crash | `PassAccounting`, `UnvisitedStayQueued`, `DeletesDrain` |
| `orderly_locks` | the whole call graph but list remote and restore-index, with the early return of clean, 3 threads, 4 mutexes, no bound | `OwnersRunTheirFunctions`, `LockOrder`, `HangsOnlyOnLeftLocks`, `OneSession` |
| `daemon` | 1 file that may go, 2 writes, 2 names, 1 queued deletion, 1 crash, all commands | `HashIndexAgrees`, `QueuedDeletesAreUntracked`, `FlaggedIsStored`, `IndexMatchesDb`, refinement of `WriteBehind` |
| `daemon_live` | 1 file that stays, 3 writes, 3 names, 1 failed request | `ChangesBecomeVersions`, `EverythingIsBackedUp` |
| `watch_tree` | a directory, its subdirectory and a file in it; 1 write, 1 directory made, 2 commands, 1 crash | `ReplayGivesIndex`, `DeletedSoFar`, `EntriesGetWatched`, `VanishedDirsLeave` |
| `index_backup` | 2 changes, 1 failure, 2 deaths, 2 losses of the database | `BackupIsDue`, `StopForgetsNothing`, `BackupSettles` |
| `restore` | 2 clients, 3 invocations, 2 paths, 3 versions and 1 to come, 1 failed request, 1 spoiled object | `VerifiedIsGenuine`, `AnswerCoversRequest`, `IntactVersionsRestore`, `ClientsReturn` |

Why this is enough: a pass misbehaves through two items, one failed and one
finished, and a third finds nothing new; two names are a version and its
successor, or a path deleted and added again; one crash with two versions has
every split of them over memory, queue, database and bucket, and the restart of
a second one begins in a state already seen. The bounds are guards: `MaxWrites`
(WriteFile), `MaxNames` (a scan stops and `addWatch` is refused when all names are
drawn), `MaxQueue` (downloads and deletions queued), `MaxDeletes` (DELETE
statements queued), `MaxFaults`, `MaxCrashes` (kills; a death in `encryptFile` is
not bounded but needs a name each time). `daemon` does not check deadlock:
`cleanRemote` really stops all threads when it leaks `Remote::mtx`, and with all
names drawn nothing is left to do; nor does `orderly_locks`, for the same leak.
`FlaggedIsStored` is claimed for `crashes = 0`
only: a deletion carried out before its DELETE statement is flushed comes back
from the database after a crash.

`watch_tree` needs a tree of depth two, for a walk inside a walk and a vanished
directory inside another; a second file is dealt with like the first. `MaxMakes`,
`MaxCommands`, `MaxCrashes` bound what others do, not how far a walk goes.
`index_backup` needs a second backup while the first one's item is queued or read,
and a death and a loss for each of two names; it does not check deadlock, since
with everything settled nothing is left to do. `restore` needs a version that is not the
latest, two clients on one thread, and one version that comes while a command
runs; it stops when the clients have returned. Its module also has TLC evaluate
the stream's properties (`MCStreamsAreSound`) over files of up to two chunks and a
byte and all sequences of up to four of their pieces and damaged ones.

Runs that show a disagreement between the code and its documentation (each has
an entry under `findings`):

| run | what happens |
|---|---|
| `failed_popped` | the pass goes on after a failed item and pops it in place of the next |
| `list_remote_hang` | list remote: `Remote::mtx` then `Watch::mtx`; scan: the other way round |
| `scan_breaks_off` | a file found gone stops the scan for good, also after it is back |
| `clean_while_restoring` | a clean-up during the restoration deletes watched objects |
| `restore_after_restart` | a restart drops the hashes of all but the first version, so an intact second version cannot be restored |

These also say under what conditions the passing runs hold: `daemon` has no
commands during a restoration, `restore` an index that was not restored from the
database, `daemon_live` has a file that stays and no second
file whose upload could pop a failed one and no clean-up that could leak
`Remote::mtx`, `index_backup` claims `BackupSettles` of databases that are whole,
`restore` claims `ClientsReturn` of clients whose session the ended thread had not
accepted and whose answer is not cut off, `orderly_locks` leaves out the two
commands that break the order of the mutexes or the guard of the sessions.

### Fairness

`FairSpec` and `DaemonFairSpec` assume no more than the threads' loops give. A
pass or a critical section goes on until it is done (weak fairness): every
request to the store returns, and `runThreads` is never cleared. A thread that
waits for a mutex which is free again and again gets it (strong fairness): all
loops sleep between two rounds without holding a mutex, `scanFileChange` for one
second and the remote thread for five. Clients, other programs, failures and
crashes are never fair.

`TreeFairSpec` is the same: the walk goes on, and the scan gets the mutex. In
`BackupFairSpec` both threads go on, a whole database is flushed to, and
`queueForUpload` gets `Remote::mtx` between two passes; nothing makes a dead daemon start again, nor a statement fail. In
`RestoreFairSpec` the socket thread runs what is ready, one handler's steps after the
other, and a client goes on until it waits; that the handlers return is
assumed (whether they do is what `LockNesting` is about).

## Proofs

TLAPS proves, for every value of the constants their assumptions allow:

- `TransferQueueProofs`: `TypeCorrect`, `PassesAreAccounted`, `UnvisitedAreQueued`.
  `UnvisitedStayQueued` alone is not inductive: that popping the front leaves the
  unvisited tail alone needs the queue to be at least as long as `batch`, which is
  `PassAccounting`, and that in turn needs the types. `IInv` is the three together,
  with the file system's and the bucket's types. The proof has a lemma for each
  thing that can happen to a queue (something is enqueued, the visited item is
  finished or kept, a pass begins, memory is lost), and each action is one of
  them. The only assumption is `TransferQueueAssumption` (the bounds are naturals)
  with `FileSystemAssumption`.
- `LockNestingProofs`: `TypeCorrect`, `OwnersRun`, `LocksInOrder`, `HangsOnlyAfterLeak`,
  `SessionsExclude`, for any number of threads, functions and mutexes, and whatever
  functions are leaky, under the assumptions of `OrderedNesting` (calls go up in the
  order of the mutexes, sessions are called under the guard), which TLC evaluates for
  the daemon's call graph in `orderly_locks`. The inductive invariant adds to types and ownership that
  every stack is *sorted* by `Level` (a function runs below a locking one only if
  its level is lower), that a waiting thread waits for something it may call, and
  that a session runs only above a function that holds the guard.
  `HangsOnlyAfterLeak` follows a supposed circle without a left mutex from owner to
  owner: each owner runs a function that locked its mutex, so it waits for a mutex of
  a higher rank than the one before, and there are only four ranks.

- `SecretStreamProofs`: `RoundTrips`, `OnlyWholeDecrypt` and `PrefixesArePlain`, for any
  size of chunk, file and stream. `ChunksProps` and `ChunkProps` do the arithmetic of the
  chunks once; `WrittenProps` finds the first round of `decryptFile` that fails, as the
  least of those that do (`LeastElement`, from the well-foundedness of the naturals);
  `WritesChunks` says that the rounds before it read the file's chunks in order, because a
  piece says its place; `JoinedIsPrefix` that these, joined, are a beginning of the file.
  Assumed are `SecretStreamAssumption` (the types of the constants) and, for the last
  two theorems, `Authentic` of the stream in question.
- `IndexBackupProofs`: `TypeCorrect`, `StopsForgetNothing`, `BackupsAreDue`. What the last
  two miss is where the newest copy is between `index.backup` and the bucket. `IInv` adds
  that the queue holds increasing times of `index.backup` and that the pass's batch is
  the queue or empty, so that only the queue's last item can be the present copy
  (`QueueInOrder`); that what the remote thread has read is `index.backup` as it is,
  unless the watch thread is about to queue another item or a copy failed
  (`ReadsBackup`); and that the present copy is queued, read or in the bucket
  (`BackupAtHand`). That the database was opened whole or damaged, with a name in it,
  comes from what a start can open (`OpeningsAreCopies`, `StartOpens`). The only assumption
  is `IndexBackupAssumption`.
- `RestoreProofs`: `VerifiedAreGenuine` and, when the index was not restored from the
  database, `IntactAreRestored`. That a verified file stays what was reported needs that
  no two items of a command write to the same target (`OnePerPath`); that it is the
  version asked for, that a hash in the index is that of its own version's contents or
  empty (`Recorded`). An intact object is accepted by `RoundTrips`, and what was
  reported of a name before its object was there was a failure (`FreshNames`).
  `AnswersCover`: at any moment of a command, what is still to be queued, what is queued and
  what is reported are together as many as was asked for, and each of them is covered
  (`CoverInv`); a version added meanwhile only makes a path's window of versions wider,
  and the pop from the front hits the item just done because batch and queue are the same
  (in `IInv`). `RestoreTypesHold` adds that a handler runs for a client that waits, in a
  thread that has not ended (`SessionInv`), that what a client has still to send are requests
  (`RequestsInv`: the types of `ShowOptions`), and that objects and targets are of the
  versions' names and times (`StoreInv`).
  Assumed are `RestoreAssumption`, `SecretStreamAssumption` and `SessionAssumption` (an
  option's value is a list); nothing is assumed of the bucket's objects.

- `DaemonTypeProofs`: `DaemonTypeCorrect`. A step of the daemon is one of a few kinds
  as far as index, statements and rows go (`IndexStep`): they stay, the holder of
  `Watch::mtx` goes on, versions are marked, or it is one of the actions that add, delete,
  restore, execute or lose something. Each kind keeps the types; the queues and the
  bucket have those of `TransferQueueProofs`, whose invariant holds of the composition
  too (`QueueSideKept`). What DELETE leaves of the rows is a recursive function; that it
  only leaves rows there were, in one place each, is proved by the least counterexample.
- `DaemonProofs`: `HashIndexIsInverse` and, when clients wait for the index to be
  restored (`~EarlyCommands`), `DeletesAreUntracked` and `FlaggedAreStored`.
  `HashIndexAgrees` needs that a name stands for one version, and a restart carries names
  from the rows back into the index, so `NamedOnce` says it of the index, of the rows,
  of the INSERTs still to be executed (one moves its name into the rows), and of the rows a
  restore has yet to read against the versions it has read. `DeletesAreUntracked` adds
  that all names in queues, bucket, listing and hand were drawn before (`UsedAreIssued`),
  so that no new version takes one, and that a restore, which does bring names back, finds
  queues and socket thread empty (`RestoreIsAlone`); it is `EarlyCommands` that would
  break this. `FlaggedAreStored` follows the flag back to the upload that set it, and a
  vanishing object to the head of a delete pass, which is still queued (`HeadIsQueued`, from
  `PassAccounting` and `UnvisitedStayQueued`) and so untracked. Assumed are
  `DaemonAssumption`, `FileIndexAssumption` (`NoPath` is no file) and
  `TransferQueueAssumption`; deaths and failures are not bounded by more than constants.
  `IndexIsWriteBehind` is the refinement. What `WriteBehind` calls pending is picked out of
  the statements in memory, those of a running flush that are executed left out, and what
  it calls durable is picked out of the rows, path by path (`Picked`); so the lemmas it rests
  on say what is picked after an append, after the removal of the least place, and from rows
  that lost all of one path (`PickedMore`, `PickedFewer`, `NamesInRowsNotOf`). Then each kind
  of step is shown to make a change, persist the oldest one, die, or be a stutter (`BehindSteps`);
  it has to be known that the rows read by a restore so far are the index so far
  (`ReadSoFar`), that no INSERT or DELETE is queued behind a running flush, which
  would drop it (`FlushCovers`), and that names occur once (`NamedOnce`). `IndexIsInDb` follows:
  there is always a sequence of stores that leads from the rows to the index by the pending
  changes (`Replayed`), so with none pending they are equal.
- `WatchTreeProofs`: `TreeTypesHold`, `DeletedStaysOut` and `TreeReplays`, for trees of any depth.
  The inductive invariant `TreeInv` adds to the types that only the holder of `Watch::mtx` has
  a walk, that nothing is queued or held while the daemon is down (`MtxInv`), and that the
  frames of a walk either all add or all delete, adding ones with nothing deleted, and
  what a deleting one is done with is watched no more (`WalkOK`): it is because a deletion
  never calls an addition that no entry comes back behind it. `TreeReplays` needs what the
  tables become after one more statement (`AfterAppend`, about the recursive function `After`), and
  that the statement each action queues does to the tables what the action does to the
  index: the INSERT is ignored for a directory that is there, so `EnterDir` must be
  too. Assumed are `FileSystemAssumption` and `WatchTreeAssumption`.

Every invariant and action property the passing runs check has its theorem, as has the
refinement. Only model-checked is what is stated under fairness, which the prover does not handle:
`DeletesDrain`, `ChangesBecomeVersions`, `EverythingIsBackedUp`, `EntriesGetWatched`,
`VanishedDirsLeave`, `BackupSettles`, `ClientsReturn`. The hypotheses `~EarlyCommands` and `~Restarted` of
some theorems are needed: the runs `clean_while_restoring` and `restore_after_restart` show what
happens without them.

## Not modelled

- Commands about directories during the restoration of the index (single files:
  `EarlyCommands`).
- SQL errors other than that of the backup's UPDATE (and the statements a damaged
  database refuses, of which nothing is promised).
- The data races on `sqlQueue` and `fileIndex` beyond the order of their accesses.
- `deriveKey`, `verifyKey`, the key file, the client's key generator, base 64: libsodium's
  calls in a row, with no state. The ciphers and hashes are promises.
- The text of requests and answers, and its bounds (2048 bytes, `;` as the end).
- Log lines, SQLite and the AWS SDK beyond what their callers rely on, the
  scratch programs and sample data under `test/`, the build files.
