----------------------------- MODULE WriteBehind -----------------------------
(***************************************************************************)
(* What an index in memory with a database behind it promises: the index   *)
(* may run ahead of the database by the changes pending, these reach it    *)
(* one by one in the order they were made, and a death of the process      *)
(* takes the index back to what the database holds, and nowhere else.      *)
(***************************************************************************)
EXTENDS Naturals, Sequences

CONSTANTS Keys, Values

VARIABLES current,   \* the values under each key, in order
          pending,   \* changes the database has not seen
          durable    \* the values under each key in the database

vars == <<current, pending, durable>>

Change == [key : Keys, add : Seq(Values)]

\* A change appends a value to a key or, when add is empty, drops the key.
Apply(store, c) == [store EXCEPT ![c.key] = IF c.add = <<>> THEN <<>> ELSE @ \o c.add]

TypeOK ==
  /\ current \in [Keys -> Seq(Values)]
  /\ pending \in Seq(Change)
  /\ durable \in [Keys -> Seq(Values)]

Init ==
  /\ current = [k \in Keys |-> <<>>]
  /\ pending = <<>>
  /\ durable = [k \in Keys |-> <<>>]

Make(c) ==
  /\ current' = Apply(current, c)
  /\ pending' = Append(pending, c)
  /\ UNCHANGED durable

Persist ==
  /\ pending /= <<>>
  /\ durable' = Apply(durable, Head(pending))
  /\ pending' = Tail(pending)
  /\ UNCHANGED current

Die ==
  /\ current' = durable
  /\ pending' = <<>>
  /\ UNCHANGED durable

\* Most steps of what implements this concern none of the three.
Next ==
  \/ UNCHANGED vars
  \/ \E k \in Keys : Make([key |-> k, add |-> <<>>])
  \/ \E k \in Keys, v \in Values : Make([key |-> k, add |-> <<v>>])
  \/ Persist
  \/ Die

Spec == Init /\ [][Next]_vars

===============================================================================
