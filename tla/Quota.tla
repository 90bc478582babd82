------------------------------- MODULE Quota -------------------------------
(***************************************************************************)
(* What a byte quota shared by several users promises: no user ever holds  *)
(* units beyond what all of them may hold together, a user's units change  *)
(* only by its own grant or return, and a user may always hold fewer.      *)
(* Module Overlay implements it with an optimistic counter.                *)
(***************************************************************************)
EXTENDS Naturals, FiniteSets

CONSTANTS Users,   \* who shares the quota
          Share,   \* the most one user may hold
          Cap      \* the most all users may hold together

VARIABLE used      \* the units each user holds

\* The units in use, as pairs of a user and an index.
Units(u) == {x \in Users \X (1..Share) : x[2] <= u[x[1]]}

Init == used = [s \in Users |-> 0]

Grant(s, n) ==
  /\ used[s] < n
  /\ used' = [used EXCEPT ![s] = n]
  /\ Cardinality(Units(used')) <= Cap

Return(s, n) ==
  /\ n < used[s]
  /\ used' = [used EXCEPT ![s] = n]

Next == \E s \in Users, n \in 0..Share : Grant(s, n) \/ Return(s, n)

Spec == Init /\ [][Next]_used

============================================================================
