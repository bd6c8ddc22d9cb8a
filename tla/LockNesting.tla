----------------------------- MODULE LockNesting -----------------------------
(***************************************************************************)
(* Threads that run functions, functions that call functions and hold a    *)
(* std::mutex while they do, each taken at the head of the function and    *)
(* let go when it returns, except that a leaky function returns and leaves *)
(* it locked.  DaemonCalls says what the functions, calls and mutexes of   *)
(* the daemon are.                                                         *)
(*                                                                         *)
(* A thread is its stack of running functions.  A function may make its    *)
(* calls in any number and order before it returns, which covers every     *)
(* loop and branch of the code; only the nesting of calls and locks is     *)
(* kept.                                                                   *)
(***************************************************************************)
EXTENDS Naturals, Sequences

CONSTANTS Threads, Functions, Mutexes,
          Loop,     \* the functions the loop of each thread calls
          Calls,    \* the functions each function calls
          LockOf,   \* the mutex each function takes at its head, or NoLock
          Leaky,    \* the functions that return without unlocking
          Sessions, \* functions no two threads may run at the same time
          Guard,    \* the mutex their callers hold
          Rank,     \* the order in which the mutexes are meant to be nested
          NoLock, NoCall, Nobody

ASSUME LockNestingAssumption ==
  /\ Loop \in [Threads -> SUBSET Functions]
  /\ Calls \in [Functions -> SUBSET Functions]
  /\ LockOf \in [Functions -> Mutexes \cup {NoLock}]
  /\ Rank \in [Mutexes -> 1..4]
  /\ Leaky \subseteq Functions
  /\ Sessions \subseteq Functions
  /\ Guard \in Mutexes
  /\ NoLock \notin Mutexes
  /\ NoCall \notin Functions
  /\ Nobody \notin Threads

VARIABLES stack,    \* the functions running on each thread, the latest last
          waiting,  \* the function each thread is blocked at the head of
          owner     \* the thread that has locked each mutex

vars == <<stack, waiting, owner>>

TypeOK ==
  /\ stack \in [Threads -> Seq(Functions)]
  /\ waiting \in [Threads -> Functions \cup {NoCall}]
  /\ owner \in [Mutexes -> Threads \cup {Nobody}]

Init ==
  /\ stack = [t \in Threads |-> <<>>]
  /\ waiting = [t \in Threads |-> NoCall]
  /\ owner = [m \in Mutexes |-> Nobody]

Top(t) == stack[t][Len(stack[t])]

\* Mutant of Callable: a handler that waits runs the next event of the loop inside.
CallableNested(t) == Loop[t] \cup IF stack[t] = <<>> THEN {} ELSE Calls[Top(t)]

Callable(t) == IF stack[t] = <<>> THEN Loop[t] ELSE Calls[Top(t)]

Running(t) == waiting[t] = NoCall

Push(t, f) == stack' = [stack EXCEPT ![t] = Append(@, f)]
Pop(t) == stack' = [stack EXCEPT ![t] = SubSeq(@, 1, Len(@) - 1)]

CallLockFree(t, f) ==
  /\ Running(t)
  /\ f \in Callable(t)
  /\ LockOf[f] = NoLock
  /\ Push(t, f)
  /\ UNCHANGED <<waiting, owner>>

\* std::mutex::lock is called ...
Lock(t, f) ==
  /\ Running(t)
  /\ f \in Callable(t)
  /\ LockOf[f] /= NoLock
  /\ waiting' = [waiting EXCEPT ![t] = f]
  /\ UNCHANGED <<stack, owner>>

\* Mutant of Acquire: the result of a try_lock is not looked at.
AcquireUnchecked(t) ==
  /\ ~Running(t)
  /\ Push(t, waiting[t])
  /\ owner' = [owner EXCEPT ![LockOf[waiting[t]]] = t]
  /\ waiting' = [waiting EXCEPT ![t] = NoCall]

\* ... and comes back when nobody, this thread included, holds the mutex.
Acquire(t) ==
  /\ ~Running(t)
  /\ owner[LockOf[waiting[t]]] = Nobody
  /\ Push(t, waiting[t])
  /\ owner' = [owner EXCEPT ![LockOf[waiting[t]]] = t]
  /\ waiting' = [waiting EXCEPT ![t] = NoCall]

\* Mutant of Release: no function unlocks.
ReleaseNever(f) == owner' = owner

\* Mutant of Release: something is unlocked where nothing was locked.
ReleaseAnyway(f) ==
  owner' = [m \in Mutexes \cup {LockOf[f]} |-> IF m = LockOf[f] THEN Nobody ELSE owner[m]]

\* The scoped_lock of f is destroyed; a return that passes the unlock by leaves
\* the mutex to the thread.
Release(f) ==
  owner' = [m \in Mutexes |-> IF m = LockOf[f] /\ f \notin Leaky THEN Nobody ELSE owner[m]]

Return(t) ==
  /\ Running(t)
  /\ stack[t] /= <<>>
  /\ Pop(t)
  /\ Release(Top(t))
  /\ UNCHANGED waiting

Next ==
  \E t \in Threads :
    \/ \E f \in Functions : CallLockFree(t, f) \/ Lock(t, f)
    \/ Acquire(t)
    \/ Return(t)

Spec == Init /\ [][Next]_vars

-------------------------------------------------------------------------------
(* Properties.                                                               *)

\* Thread t runs a function that took m at its head.
HeldIn(t, m) == \E i \in 1..Len(stack[t]) : LockOf[stack[t][i]] = m

\* Mutex m was left locked: its owner runs no function that locked it.
LeftLocked(m) == owner[m] \in Threads /\ ~HeldIn(owner[m], m)

\* The mutex of a running function is locked by its thread until it returns,
\* and only the mutex of a leaky function stays locked after that: every other
\* function of the daemon lets its mutex go on every way out.
OwnersRunTheirFunctions ==
  /\ \A t \in Threads, m \in Mutexes : HeldIn(t, m) => owner[m] = t
  /\ \A m \in Mutexes : LeftLocked(m) => \E f \in Leaky : LockOf[f] = m

\* A thread only waits for mutexes that come after all those the functions it
\* runs have locked.
LockOrder ==
  \A t \in Threads, m \in Mutexes :
    HeldIn(t, m) /\ ~Running(t) => Rank[m] < Rank[LockOf[waiting[t]]]

\* The threads of T wait for each other in a circle, or one for itself.
HangTogether(T) ==
  /\ T /= {}
  /\ \A t \in T : ~Running(t) /\ owner[LockOf[waiting[t]]] \in T

\* The daemon never hangs on its mutexes.
NoCircularWait == \A T \in SUBSET Threads : ~HangTogether(T)

\* If threads of the daemon hang, it is because a function returned without
\* unlocking: one of them waits for a mutex that was left locked.
HangsOnlyOnLeftLocks ==
  \A T \in SUBSET Threads :
    HangTogether(T) => \E t \in T : LeftLocked(LockOf[waiting[t]])

\* Aws::InitAPI and Aws::ShutdownAPI, which S3::callAPI begins and ends with,
\* set up and tear down the SDK for the whole process: no two threads are
\* inside callAPI at the same time.
OneSession ==
  \A t, u \in Threads :
    (\E i \in 1..Len(stack[t]) : stack[t][i] \in Sessions) /\
    (\E i \in 1..Len(stack[u]) : stack[u][i] \in Sessions) => t = u

===============================================================================
