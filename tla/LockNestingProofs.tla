-------------------------- MODULE LockNestingProofs --------------------------
(***************************************************************************)
(* Proofs about LockNesting under the discipline of OrderedNesting, for    *)
(* any number of threads, functions and mutexes (of at most four ranks),   *)
(* whatever functions return without unlocking.                            *)
(*                                                                         *)
(* The invariant that carries the proof is that the levels of the          *)
(* functions on a stack go up, strictly wherever a mutex is locked         *)
(* (Sorted): it keeps a thread from locking a mutex that a function it     *)
(* runs has locked, and makes the mutex a function unlocks the only one of *)
(* its name on its stack.                                                  *)
(***************************************************************************)
EXTENDS OrderedNesting, SequenceTheorems, TLAPS

USE LockNestingAssumption, CallsGoUp, SessionsUnderGuard

Below(f, g) ==
  /\ Level[f] <= Level[g]
  /\ LockOf[g] /= NoLock => Level[f] < Level[g]

Sorted ==
  \A t \in Threads : \A i, j \in 1..Len(stack[t]) :
    i < j => Below(stack[t][i], stack[t][j])

WaitingForACall ==
  \A t \in Threads :
    ~Running(t) => waiting[t] \in Callable(t) /\ LockOf[waiting[t]] /= NoLock

\* A session is run by a function that holds the guard, right below it.
GuardedSessions ==
  \A t \in Threads : \A i \in 1..Len(stack[t]) :
    stack[t][i] \in Sessions => i > 1 /\ LockOf[stack[t][i - 1]] = Guard

IInv ==
  /\ TypeOK
  /\ Sorted
  /\ WaitingForACall
  /\ GuardedSessions
  /\ OwnersRunTheirFunctions

-------------------------------------------------------------------------------
\* What pushing and popping do to a sequence.

LEMMA AppendProps ==
  ASSUME NEW S, NEW s \in Seq(S), NEW e \in S
  PROVE  /\ Append(s, e) \in Seq(S)
         /\ Len(Append(s, e)) = Len(s) + 1
         /\ Len(s) \in Nat
         /\ \A i \in 1..Len(s) : Append(s, e)[i] = s[i]
         /\ Append(s, e)[Len(s) + 1] = e
  OBVIOUS

LEMMA PopProps ==
  ASSUME NEW S, NEW s \in Seq(S), s /= <<>>
  PROVE  /\ SubSeq(s, 1, Len(s) - 1) \in Seq(S)
         /\ Len(SubSeq(s, 1, Len(s) - 1)) = Len(s) - 1
         /\ Len(s) \in Nat \ {0}
         /\ \A i \in 1..(Len(s) - 1) : SubSeq(s, 1, Len(s) - 1)[i] = s[i]
<1>1. Len(s) \in Nat \ {0}
  OBVIOUS
<1>2. /\ 1 \in Int /\ Len(s) - 1 \in Int
      /\ (Len(s) - 1) - 1 + 1 = Len(s) - 1
      /\ 1 <= Len(s) - 1 \/ Len(s) - 1 = 0
      /\ \A i \in 1..(Len(s) - 1) : s[i] \in S
  <2>1. \A i \in 1..(Len(s) - 1) : i \in 1..Len(s)
    BY <1>1
  <2>2. \A i \in 1..Len(s) : s[i] \in S
    OBVIOUS
  <2>3. Len(s) - 1 \in Int /\ (Len(s) - 1) - 1 + 1 = Len(s) - 1
        /\ (1 <= Len(s) - 1 \/ Len(s) - 1 = 0)
    <3>1. \A n \in Nat \ {0} : n - 1 \in Int /\ (n - 1) - 1 + 1 = n - 1
                                /\ (1 <= n - 1 \/ n - 1 = 0)
      OBVIOUS
    <3> QED BY <1>1, <3>1
  <2> QED BY <2>1, <2>2, <2>3
<1>3. /\ SubSeq(s, 1, Len(s) - 1) \in Seq(S)
      /\ Len(SubSeq(s, 1, Len(s) - 1)) =
           IF 1 <= Len(s) - 1 THEN (Len(s) - 1) - 1 + 1 ELSE 0
      /\ \A i \in 1..((Len(s) - 1) - 1 + 1) : SubSeq(s, 1, Len(s) - 1)[i] = s[1 + i - 1]
  BY <1>2, SubSeqProperties
<1>4. \A i \in 1..(Len(s) - 1) : 1 + i - 1 = i
  BY <1>1
<1>5. Len(SubSeq(s, 1, Len(s) - 1)) = Len(s) - 1
  BY <1>1, <1>2, <1>3
<1> QED BY <1>1, <1>2, <1>3, <1>4, <1>5

\* A function that may be called next is above everything on the stack.
LEMMA CallableAbove ==
  ASSUME TypeOK, Sorted, NEW t \in Threads, NEW f \in Callable(t)
  PROVE  /\ f \in Functions
         /\ \A i \in 1..Len(stack[t]) : Below(stack[t][i], f)
         /\ f \in Sessions => stack[t] /= <<>> /\ LockOf[Top(t)] = Guard
<1>1. stack[t] \in Seq(Functions)
  BY DEF TypeOK
<1>2. CASE stack[t] = <<>>
  BY <1>2 DEF Callable
<1>3. CASE stack[t] /= <<>>
  <2>1. Len(stack[t]) \in Nat \ {0} /\ Top(t) \in Functions
    BY <1>1, <1>3, PopProps DEF Top
  <2>2. f \in Calls[Top(t)] /\ f \in Functions
    BY <1>3, <2>1 DEF Callable
  <2>3. Below(Top(t), f)
    BY <2>1, <2>2 DEF Below
  <2>4. ASSUME NEW i \in 1..Len(stack[t]), i /= Len(stack[t])
        PROVE  Below(stack[t][i], f)
    <3>1. i < Len(stack[t]) /\ Len(stack[t]) \in 1..Len(stack[t])
      BY <2>1, <2>4
    <3>2. Below(stack[t][i], Top(t))
      BY <3>1 DEF Sorted, Top
    <3>3. stack[t][i] \in Functions
      BY <1>1
    <3>4. Level[stack[t][i]] \in Nat /\ Level[Top(t)] \in Nat /\ Level[f] \in Nat
      BY <2>1, <2>2, <3>3
    <3> QED BY <2>3, <3>2, <3>4 DEF Below
  <2>5. f \in Sessions => LockOf[Top(t)] = Guard
    BY <2>1, <2>2
  <2> QED BY <1>3, <2>2, <2>3, <2>4, <2>5 DEF Top
<1> QED BY <1>2, <1>3

-------------------------------------------------------------------------------
\* A call that starts running keeps the stack in order; it holds its mutex.
LEMMA PushKeepsOrder ==
  ASSUME TypeOK, Sorted, GuardedSessions,
         NEW t \in Threads, NEW f \in Callable(t), Push(t, f)
  PROVE  /\ stack' \in [Threads -> Seq(Functions)]
         /\ Sorted'
         /\ GuardedSessions'
         /\ \A u \in Threads, m \in Mutexes :
              HeldIn(u, m)' <=> HeldIn(u, m) \/ (u = t /\ LockOf[f] = m)
<1>1. stack \in [Threads -> Seq(Functions)]
  BY DEF TypeOK
<1>2. f \in Functions /\ (\A i \in 1..Len(stack[t]) : Below(stack[t][i], f))
  BY CallableAbove
<1>3. /\ stack'[t] \in Seq(Functions)
      /\ Len(stack'[t]) = Len(stack[t]) + 1
      /\ Len(stack[t]) \in Nat
      /\ \A i \in 1..Len(stack[t]) : stack'[t][i] = stack[t][i]
      /\ stack'[t][Len(stack[t]) + 1] = f
  <2>1. stack'[t] = Append(stack[t], f)
    BY <1>1 DEF Push
  <2> QED BY <1>1, <1>2, <2>1, AppendProps
<1>4. \A u \in Threads : u /= t => stack'[u] = stack[u]
  BY <1>1 DEF Push
<1>5. \A i \in 1..Len(stack'[t]) : i \in 1..Len(stack[t]) \/ i = Len(stack[t]) + 1
  BY <1>3
<1>6. stack' \in [Threads -> Seq(Functions)]
  BY <1>1, <1>3 DEF Push
<1>7. Sorted'
  <2> SUFFICES ASSUME NEW u \in Threads, NEW i \in 1..Len(stack'[u]),
                      NEW j \in 1..Len(stack'[u]), i < j
               PROVE  Below(stack'[u][i], stack'[u][j])
    BY DEF Sorted, Below
  <2>1. CASE u /= t
    BY <1>4, <2>1 DEF Sorted
  <2>2. CASE u = t
    <3>1. i \in 1..Len(stack[t])
      BY <1>3, <2>2
    <3>2. CASE j \in 1..Len(stack[t])
      BY <1>3, <2>2, <3>1, <3>2 DEF Sorted
    <3>3. CASE j = Len(stack[t]) + 1
      BY <1>2, <1>3, <2>2, <3>1, <3>3
    <3> QED BY <1>5, <2>2, <3>2, <3>3
  <2> QED BY <2>1, <2>2
<1>8. GuardedSessions'
  <2> SUFFICES ASSUME NEW u \in Threads, NEW i \in 1..Len(stack'[u]), stack'[u][i] \in Sessions
               PROVE  i > 1 /\ LockOf[stack'[u][i - 1]] = Guard
    BY DEF GuardedSessions
  <2>1. CASE u /= t
    BY <1>4, <2>1 DEF GuardedSessions
  <2>2. CASE u = t /\ i \in 1..Len(stack[t])
    <3>1. i > 1 /\ LockOf[stack[t][i - 1]] = Guard
      BY <1>3, <2>2 DEF GuardedSessions
    <3>2. i - 1 \in 1..Len(stack[t])
      BY <1>3, <2>2, <3>1
    <3> QED BY <1>3, <2>2, <3>1, <3>2
  <2>3. CASE u = t /\ i = Len(stack[t]) + 1
    <3>1. stack[t] /= <<>> /\ LockOf[Top(t)] = Guard
      BY <1>3, <2>3, CallableAbove
    <3>2. Len(stack[t]) \in Nat \ {0}
      BY <1>1, <3>1, PopProps
    <3>3. i - 1 = Len(stack[t]) /\ i > 1 /\ i - 1 \in 1..Len(stack[t])
      BY <2>3, <3>2
    <3> QED BY <1>3, <2>3, <3>1, <3>3 DEF Top
  <2> QED BY <1>5, <2>1, <2>2, <2>3
<1>9. ASSUME NEW u \in Threads, NEW m \in Mutexes
      PROVE  HeldIn(u, m)' <=> HeldIn(u, m) \/ (u = t /\ LockOf[f] = m)
  <2>1. CASE u /= t
    BY <1>4, <2>1 DEF HeldIn
  <2>2. CASE u = t
    <3>1. \A i \in 1..Len(stack[t]) : i \in 1..Len(stack'[t])
      BY <1>3
    <3>2. Len(stack[t]) + 1 \in 1..Len(stack'[t])
      BY <1>3
    <3> QED BY <1>3, <1>5, <2>2, <3>1, <3>2 DEF HeldIn
  <2> QED BY <2>1, <2>2
<1> QED BY <1>6, <1>7, <1>8, <1>9

\* A call that returns takes one function, and with it one mutex, off a stack.
LEMMA PopKeepsOrder ==
  ASSUME TypeOK, Sorted, GuardedSessions,
         NEW t \in Threads, stack[t] /= <<>>, Pop(t)
  PROVE  /\ stack' \in [Threads -> Seq(Functions)]
         /\ Sorted'
         /\ GuardedSessions'
         /\ Top(t) \in Functions
         /\ \A u \in Threads, m \in Mutexes :
              HeldIn(u, m)' <=> HeldIn(u, m) /\ ~(u = t /\ LockOf[Top(t)] = m)
<1>1. stack \in [Threads -> Seq(Functions)]
  BY DEF TypeOK
<1>2. /\ stack'[t] \in Seq(Functions)
      /\ Len(stack'[t]) = Len(stack[t]) - 1
      /\ Len(stack[t]) \in Nat \ {0}
      /\ \A i \in 1..(Len(stack[t]) - 1) : stack'[t][i] = stack[t][i]
  <2>1. stack'[t] = SubSeq(stack[t], 1, Len(stack[t]) - 1)
    BY <1>1 DEF Pop
  <2> QED BY <1>1, <2>1, PopProps
<1>3. \A u \in Threads : u /= t => stack'[u] = stack[u]
  BY <1>1 DEF Pop
<1>4. /\ \A i \in 1..Len(stack'[t]) : i \in 1..Len(stack[t]) /\ i < Len(stack[t])
      /\ \A i \in 1..Len(stack[t]) : i \in 1..Len(stack'[t]) \/ i = Len(stack[t])
      /\ Len(stack[t]) \in 1..Len(stack[t])
  BY <1>2
<1>5. \A i \in 1..Len(stack'[t]) : stack'[t][i] = stack[t][i]
  BY <1>2
<1>6. stack' \in [Threads -> Seq(Functions)]
  BY <1>1, <1>2 DEF Pop
<1>7. Top(t) \in Functions
  BY <1>1, <1>4 DEF Top
<1>8. Sorted'
  <2> SUFFICES ASSUME NEW u \in Threads, NEW i \in 1..Len(stack'[u]),
                      NEW j \in 1..Len(stack'[u]), i < j
               PROVE  Below(stack'[u][i], stack'[u][j])
    BY DEF Sorted, Below
  <2>1. CASE u /= t
    BY <1>3, <2>1 DEF Sorted
  <2>2. CASE u = t
    BY <1>4, <1>5, <2>2 DEF Sorted
  <2> QED BY <2>1, <2>2
<1>9. GuardedSessions'
  <2> SUFFICES ASSUME NEW u \in Threads, NEW i \in 1..Len(stack'[u]), stack'[u][i] \in Sessions
               PROVE  i > 1 /\ LockOf[stack'[u][i - 1]] = Guard
    BY DEF GuardedSessions
  <2>1. CASE u /= t
    BY <1>3, <2>1 DEF GuardedSessions
  <2>2. CASE u = t
    <3>1. i > 1 /\ LockOf[stack[t][i - 1]] = Guard
      BY <1>4, <1>5, <2>2 DEF GuardedSessions
    <3>2. i - 1 \in 1..Len(stack'[t])
      BY <1>2, <2>2, <3>1
    <3> QED BY <1>5, <2>2, <3>1, <3>2
  <2> QED BY <2>1, <2>2
<1>10. ASSUME NEW u \in Threads, NEW m \in Mutexes
       PROVE  HeldIn(u, m)' <=> HeldIn(u, m) /\ ~(u = t /\ LockOf[Top(t)] = m)
  <2>1. CASE u /= t
    BY <1>3, <2>1 DEF HeldIn
  <2>2. CASE u = t /\ LockOf[Top(t)] /= m
    BY <1>4, <1>5, <2>2 DEF HeldIn, Top
  <2>3. CASE u = t /\ LockOf[Top(t)] = m
    <3>1. ASSUME NEW i \in 1..Len(stack'[t]), LockOf[stack'[t][i]] = m
          PROVE  FALSE
      <4>1. Below(stack[t][i], Top(t)) /\ LockOf[stack[t][i]] = m /\ stack[t][i] \in Functions
        <5>1. /\ i \in 1..Len(stack[t]) /\ Len(stack[t]) \in 1..Len(stack[t]) /\ i < Len(stack[t])
              /\ LockOf[stack[t][i]] = m
          BY <1>4, <1>5, <3>1
        <5>2. Below(stack[t][i], stack[t][Len(stack[t])])
          BY <5>1 DEF Sorted
        <5>3. stack[t][i] \in Functions
          <6>1. stack[t] \in Seq(Functions)
            BY <1>1
          <6> QED BY <5>1, <6>1
        <5> QED BY <5>1, <5>2, <5>3 DEF Top
      <4>2. m /= NoLock
        OBVIOUS
      <4>3. Level[stack[t][i]] = Rank[m] /\ Level[Top(t)] = Rank[m]
        BY <1>7, <2>3, <4>1, <4>2
      <4>4. Level[stack[t][i]] < Level[Top(t)] /\ Level[Top(t)] \in Nat
        BY <1>7, <2>3, <4>1, <4>2 DEF Below
      <4> QED BY <4>3, <4>4
    <3> QED BY <2>3, <3>1 DEF HeldIn
  <2> QED BY <2>1, <2>2, <2>3
<1> QED BY <1>6, <1>7, <1>8, <1>9, <1>10

LEMMA InitIInv == Init => IInv
<1> SUFFICES ASSUME Init PROVE IInv
  OBVIOUS
<1>1. \A t \in Threads : stack[t] = <<>> /\ waiting[t] = NoCall
  BY DEF Init
<1>2. \A t \in Threads : 1..Len(stack[t]) = {}
  <2>1. Len(<<>>) = 0 /\ 1..0 = {}
    OBVIOUS
  <2> QED BY <1>1, <2>1
<1>3. TypeOK
  BY DEF Init, TypeOK
<1>4. \A m \in Mutexes : owner[m] \notin Threads
  BY DEF Init
<1> QED BY <1>1, <1>2, <1>3, <1>4
        DEF IInv, Sorted, WaitingForACall, Running, GuardedSessions, OwnersRunTheirFunctions,
            LeftLocked, HeldIn

LEMMA NextIInv == IInv /\ [Next]_vars => IInv'
<1> SUFFICES ASSUME IInv, [Next]_vars PROVE IInv'
  OBVIOUS
<1>0. /\ stack \in [Threads -> Seq(Functions)]
      /\ waiting \in [Threads -> Functions \cup {NoCall}]
      /\ owner \in [Mutexes -> Threads \cup {Nobody}]
  BY DEF IInv, TypeOK
<1>1. ASSUME NEW t \in Threads, NEW f \in Functions, CallLockFree(t, f)
      PROVE  IInv'
  <2>1. f \in Callable(t) /\ Push(t, f) /\ LockOf[f] = NoLock /\ waiting[t] = NoCall
        /\ waiting' = waiting /\ owner' = owner
    BY <1>1 DEF CallLockFree, Running
  <2>2. /\ stack' \in [Threads -> Seq(Functions)]
        /\ Sorted'
        /\ GuardedSessions'
        /\ \A u \in Threads, m \in Mutexes :
             HeldIn(u, m)' <=> HeldIn(u, m) \/ (u = t /\ LockOf[f] = m)
    BY <2>1, PushKeepsOrder DEF IInv
  <2>3. OwnersRunTheirFunctions'
    <3>1. ASSUME NEW m \in Mutexes
          PROVE  owner'[m] = owner[m] /\ (\A u \in Threads : HeldIn(u, m)' <=> HeldIn(u, m))
      BY <2>1, <2>2
    <3>2. \A m \in Mutexes : LeftLocked(m)' => LeftLocked(m)
      BY <3>1 DEF LeftLocked
    <3>3. \A u \in Threads, m \in Mutexes : HeldIn(u, m)' => owner'[m] = u
      BY <3>1 DEF IInv, OwnersRunTheirFunctions
    <3>4. \A m \in Mutexes : LeftLocked(m)' => \E g \in Leaky : LockOf[g] = m
      BY <3>2 DEF IInv, OwnersRunTheirFunctions
    <3> QED BY <3>3, <3>4 DEF OwnersRunTheirFunctions
  <2>4. \A u \in Threads : u /= t => stack'[u] = stack[u]
    BY <1>0, <2>1 DEF Push
  <2>5. WaitingForACall'
    BY <2>1, <2>4 DEF IInv, WaitingForACall, Running, Callable, Top
  <2> QED BY <1>0, <2>1, <2>2, <2>3, <2>5 DEF IInv, TypeOK
<1>2. ASSUME NEW t \in Threads, NEW f \in Functions, Lock(t, f)
      PROVE  IInv'
  <2>1. /\ f \in Callable(t) /\ LockOf[f] /= NoLock
        /\ waiting' = [waiting EXCEPT ![t] = f]
        /\ stack' = stack /\ owner' = owner
    BY <1>2 DEF Lock
  <2>2. TypeOK'
    BY <1>0, <2>1 DEF TypeOK
  <2>3. WaitingForACall'
    BY <1>0, <2>1 DEF IInv, WaitingForACall, Running, Callable, Top
  <2>4. Sorted' /\ GuardedSessions' /\ OwnersRunTheirFunctions'
    <3> USE DEF IInv
    <3>1. Sorted'
      BY <2>1 DEF Sorted, Below
    <3>2. GuardedSessions'
      BY <2>1 DEF GuardedSessions
    <3>3. OwnersRunTheirFunctions'
      <4>1. \A u \in Threads, m \in Mutexes : HeldIn(u, m)' <=> HeldIn(u, m)
        BY <2>1 DEF HeldIn
      <4>2. \A m \in Mutexes : LeftLocked(m)' <=> LeftLocked(m)
        BY <2>1 DEF LeftLocked, HeldIn
      <4> QED BY <2>1, <4>1, <4>2 DEF OwnersRunTheirFunctions
    <3> QED BY <3>1, <3>2, <3>3
  <2> QED BY <2>2, <2>3, <2>4 DEF IInv
<1>3. ASSUME NEW t \in Threads, Acquire(t)
      PROVE  IInv'
  <2> DEFINE f == waiting[t]
  <2>1. /\ ~Running(t) /\ owner[LockOf[f]] = Nobody /\ Push(t, f)
        /\ owner' = [owner EXCEPT ![LockOf[f]] = t]
        /\ waiting' = [waiting EXCEPT ![t] = NoCall]
    BY <1>3 DEF Acquire
  <2>2. f \in Callable(t) /\ f \in Functions /\ LockOf[f] \in Mutexes
    BY <1>0, <2>1 DEF IInv, WaitingForACall, Running
  <2> HIDE DEF f
  <2>3. /\ stack' \in [Threads -> Seq(Functions)]
        /\ Sorted'
        /\ GuardedSessions'
        /\ \A u \in Threads, m \in Mutexes :
             HeldIn(u, m)' <=> HeldIn(u, m) \/ (u = t /\ LockOf[f] = m)
    BY <2>1, <2>2, PushKeepsOrder DEF IInv
  <2>4. OwnersRunTheirFunctions'
    <3>1. ASSUME NEW m \in Mutexes, m = LockOf[f]
          PROVE  /\ owner'[m] = t /\ HeldIn(t, m)'
                 /\ \A u \in Threads : HeldIn(u, m)' => u = t
      BY <1>0, <2>1, <2>2, <2>3, <3>1 DEF IInv, OwnersRunTheirFunctions
    <3>2. ASSUME NEW m \in Mutexes, m /= LockOf[f]
          PROVE  owner'[m] = owner[m] /\ (\A u \in Threads : HeldIn(u, m)' <=> HeldIn(u, m))
      BY <1>0, <2>1, <2>2, <2>3, <3>2
    <3>3. \A m \in Mutexes : LeftLocked(m)' => LeftLocked(m)
      BY <3>1, <3>2 DEF LeftLocked
    <3>4. \A u \in Threads, m \in Mutexes : HeldIn(u, m)' => owner'[m] = u
      BY <3>1, <3>2 DEF IInv, OwnersRunTheirFunctions
    <3> QED BY <3>3, <3>4 DEF IInv, OwnersRunTheirFunctions
  <2>5. \A u \in Threads : u /= t => stack'[u] = stack[u] /\ waiting'[u] = waiting[u]
    BY <1>0, <2>1 DEF Push
  <2>6. waiting'[t] = NoCall
    BY <1>0, <2>1
  <2>7. WaitingForACall'
    BY <2>5, <2>6 DEF IInv, WaitingForACall, Running, Callable, Top
  <2>8. TypeOK'
    BY <1>0, <2>1, <2>2, <2>3 DEF TypeOK
  <2> QED BY <2>3, <2>4, <2>7, <2>8 DEF IInv
<1>4. ASSUME NEW t \in Threads, Return(t)
      PROVE  IInv'
  <2>1. stack[t] /= <<>> /\ Pop(t) /\ waiting[t] = NoCall /\ waiting' = waiting
    BY <1>4 DEF Return, Running
  <2>2. owner' = [m \in Mutexes |->
                    IF m = LockOf[Top(t)] /\ Top(t) \notin Leaky THEN Nobody ELSE owner[m]]
    BY <1>4 DEF Return, Release
  <2>3. /\ stack' \in [Threads -> Seq(Functions)]
        /\ Sorted'
        /\ GuardedSessions'
        /\ Top(t) \in Functions
        /\ \A u \in Threads, m \in Mutexes :
             HeldIn(u, m)' <=> HeldIn(u, m) /\ ~(u = t /\ LockOf[Top(t)] = m)
    BY <2>1, PopKeepsOrder DEF IInv
  <2>4. OwnersRunTheirFunctions'
    <3>1. ASSUME NEW m \in Mutexes, m = LockOf[Top(t)]
          PROVE  /\ \A u \in Threads : ~HeldIn(u, m)'
                 /\ LeftLocked(m)' => Top(t) \in Leaky
      <4>1. HeldIn(t, m)
        <5>1. Len(stack[t]) \in 1..Len(stack[t])
          BY <1>0, <2>1, PopProps
        <5> QED BY <3>1, <5>1 DEF HeldIn, Top
      <4>2. \A u \in Threads : HeldIn(u, m) => u = t
        BY <4>1 DEF IInv, OwnersRunTheirFunctions
      <4>3. Top(t) \notin Leaky => owner'[m] = Nobody
        BY <2>2, <3>1
      <4> QED BY <2>3, <3>1, <4>2, <4>3 DEF LeftLocked
    <3>2. ASSUME NEW m \in Mutexes, m /= LockOf[Top(t)]
          PROVE  owner'[m] = owner[m] /\ (\A u \in Threads : HeldIn(u, m)' <=> HeldIn(u, m))
      BY <2>2, <2>3, <3>2
    <3>3. \A m \in Mutexes : LeftLocked(m)' => \E f \in Leaky : LockOf[f] = m
      <4> SUFFICES ASSUME NEW m \in Mutexes, LeftLocked(m)'
                   PROVE  \E f \in Leaky : LockOf[f] = m
        OBVIOUS
      <4>1. CASE m = LockOf[Top(t)]
        BY <3>1, <4>1
      <4>2. CASE m /= LockOf[Top(t)]
        <5>1. LeftLocked(m)
          BY <3>2, <4>2 DEF LeftLocked
        <5> QED BY <5>1 DEF IInv, OwnersRunTheirFunctions
      <4> QED BY <4>1, <4>2
    <3>4. \A u \in Threads, m \in Mutexes : HeldIn(u, m)' => owner'[m] = u
      BY <3>1, <3>2 DEF IInv, OwnersRunTheirFunctions
    <3> QED BY <3>3, <3>4 DEF OwnersRunTheirFunctions
  <2>5. \A u \in Threads : u /= t => stack'[u] = stack[u]
    BY <1>0, <2>1 DEF Pop
  <2>6. WaitingForACall'
    BY <2>1, <2>5 DEF IInv, WaitingForACall, Running, Callable, Top
  <2>7. TypeOK'
    BY <1>0, <2>1, <2>2, <2>3 DEF TypeOK
  <2> QED BY <2>3, <2>4, <2>6, <2>7 DEF IInv
<1>5. CASE UNCHANGED vars
  BY <1>5 DEF vars, IInv, TypeOK, Sorted, WaitingForACall, Running, Callable, Top,
              GuardedSessions, OwnersRunTheirFunctions, LeftLocked, HeldIn
<1> QED BY <1>1, <1>2, <1>3, <1>4, <1>5 DEF Next

LEMMA SpecIInv == Spec => []IInv
  BY InitIInv, NextIInv, PTL DEF Spec

-------------------------------------------------------------------------------
(* What the invariant implies.                                               *)

LEMMA IInvLockOrder == IInv => LockOrder
<1> SUFFICES ASSUME IInv, NEW t \in Threads, NEW m \in Mutexes, HeldIn(t, m), ~Running(t)
             PROVE  Rank[m] < Rank[LockOf[waiting[t]]]
  BY DEF LockOrder
<1>1. waiting[t] \in Callable(t) /\ LockOf[waiting[t]] /= NoLock
  BY DEF IInv, WaitingForACall
<1>2. PICK i \in 1..Len(stack[t]) : LockOf[stack[t][i]] = m
  BY DEF HeldIn
<1>3. Below(stack[t][i], waiting[t]) /\ waiting[t] \in Functions
  BY <1>1, CallableAbove DEF IInv
<1>4. stack[t][i] \in Functions
  BY DEF IInv, TypeOK
<1>5. Level[stack[t][i]] = Rank[m]
  BY <1>2, <1>4
<1>6. Level[waiting[t]] = Rank[LockOf[waiting[t]]]
  BY <1>1, <1>3
<1> QED BY <1>1, <1>3, <1>5, <1>6 DEF Below

\* In a circle of threads none of which waits for a mutex that was left locked
\* every thread waits for one of a higher rank than the thread before it.
LEMMA IInvHangsOnlyOnLeftLocks == IInv => HangsOnlyOnLeftLocks
<1> SUFFICES ASSUME IInv, NEW T \in SUBSET Threads, HangTogether(T),
                    \A t \in T : ~LeftLocked(LockOf[waiting[t]])
             PROVE  FALSE
  BY DEF HangsOnlyOnLeftLocks
<1> DEFINE next(t) == owner[LockOf[waiting[t]]]
           rank(t) == Rank[LockOf[waiting[t]]]
<1>1. ASSUME NEW t \in T
      PROVE  next(t) \in T /\ rank(t) \in 1..4 /\ rank(t) < rank(next(t))
  <2>1. waiting[t] \in Functions /\ LockOf[waiting[t]] \in Mutexes
    BY DEF IInv, TypeOK, WaitingForACall, Running, HangTogether
  <2>2. next(t) \in T /\ next(t) \in Threads /\ ~Running(next(t))
    BY DEF HangTogether
  <2>3. HeldIn(next(t), LockOf[waiting[t]])
    BY <2>2 DEF LeftLocked
  <2>4. rank(t) < rank(next(t))
    BY <2>1, <2>2, <2>3, IInvLockOrder DEF LockOrder
  <2> QED BY <2>1, <2>2, <2>4
<1> HIDE DEF next, rank
<1>2. PICK a \in T : TRUE
  BY DEF HangTogether
<1>3. next(a) \in T /\ next(next(a)) \in T /\ next(next(next(a))) \in T
      /\ next(next(next(next(a)))) \in T
  BY <1>1
<1>4. /\ rank(a) \in 1..4 /\ rank(a) < rank(next(a))
      /\ rank(next(a)) \in 1..4 /\ rank(next(a)) < rank(next(next(a)))
      /\ rank(next(next(a))) \in 1..4 /\ rank(next(next(a))) < rank(next(next(next(a))))
      /\ rank(next(next(next(a)))) \in 1..4
      /\ rank(next(next(next(a)))) < rank(next(next(next(next(a)))))
      /\ rank(next(next(next(next(a))))) \in 1..4
  BY <1>1, <1>3
<1> QED BY <1>4

LEMMA IInvOneSession == IInv => OneSession
<1> SUFFICES ASSUME IInv, NEW t \in Threads, NEW u \in Threads,
                    NEW i \in 1..Len(stack[t]), stack[t][i] \in Sessions,
                    NEW j \in 1..Len(stack[u]), stack[u][j] \in Sessions
             PROVE  t = u
  BY DEF OneSession
<1>1. ASSUME NEW w \in Threads, NEW k \in 1..Len(stack[w]), stack[w][k] \in Sessions
      PROVE  owner[Guard] = w
  <2>1. k > 1 /\ LockOf[stack[w][k - 1]] = Guard
    BY <1>1 DEF IInv, GuardedSessions
  <2>2. k - 1 \in 1..Len(stack[w])
    <3>1. Len(stack[w]) \in Nat
      BY DEF IInv, TypeOK
    <3> QED BY <2>1, <3>1
  <2> QED BY <2>1, <2>2 DEF IInv, OwnersRunTheirFunctions, HeldIn
<1> QED BY <1>1

-------------------------------------------------------------------------------
(* The theorems.                                                             *)

\* Stacks, waiting calls and owners are always of their types.
THEOREM TypeCorrect == Spec => []TypeOK
  BY SpecIInv, PTL DEF IInv

\* The mutex of a function on a thread's stack is owned by that thread, and only
\* leaky functions leave a mutex to a thread that runs none which locked it.
THEOREM OwnersRun == Spec => []OwnersRunTheirFunctions
  BY SpecIInv, PTL DEF IInv

\* A thread only waits for a mutex that comes after all that the functions it
\* runs have locked.
THEOREM LocksInOrder == Spec => []LockOrder
  BY SpecIInv, IInvLockOrder, PTL

\* However many threads there are, they wait for each other in a circle only if
\* one of them waits for a mutex that a leaky function left locked.
THEOREM HangsOnlyAfterLeak == Spec => []HangsOnlyOnLeftLocks
  BY SpecIInv, IInvHangsOnlyOnLeftLocks, PTL

\* No two threads are ever inside a session of the SDK at the same time.
THEOREM SessionsExclude == Spec => []OneSession
  BY SpecIInv, IInvOneSession, PTL

===============================================================================
