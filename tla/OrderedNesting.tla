---------------------------- MODULE OrderedNesting ----------------------------
(***************************************************************************)
(* The discipline under which a LockNesting can only hang on a mutex that *)
(* was left locked: calls only lead upwards in the order of the mutexes,   *)
(* and the functions no two threads may run at the same time are called    *)
(* with the guarding mutex held.  Level places the functions that take no  *)
(* mutex between those that do.                                            *)
(***************************************************************************)
EXTENDS LockNesting

CONSTANT Level

ASSUME CallsGoUp ==
  /\ Level \in [Functions -> Nat]
  /\ \A f \in Functions : LockOf[f] /= NoLock => Level[f] = Rank[LockOf[f]]
  /\ \A f \in Functions : \A g \in Calls[f] :
       /\ Level[f] <= Level[g]
       /\ LockOf[g] /= NoLock => Level[f] < Level[g]

ASSUME SessionsUnderGuard ==
  /\ \A f \in Functions : Calls[f] \cap Sessions /= {} => LockOf[f] = Guard
  /\ \A t \in Threads : Loop[t] \cap Sessions = {}

===============================================================================
