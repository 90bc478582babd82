------------------------------ MODULE Limiter ------------------------------
(***************************************************************************)
(* What a concurrency cap promises, independent of how it is counted: a    *)
(* set of holders that never exceeds Cap, that a process enters only when  *)
(* there is room and leaves only by its own release.  The connection       *)
(* server keeps two such caps, the process-wide connLimiter and, for every *)
(* listener and source address, an entry of Server.conns; module Admission *)
(* implements both.                                                        *)
(***************************************************************************)
EXTENDS Naturals, FiniteSets

CONSTANTS Procs,   \* who may hold a slot
          Cap      \* how many may hold one at the same time

VARIABLE holders   \* who holds one now

Init == holders = {}

Acquire(p) == /\ p \notin holders
              /\ Cardinality(holders) < Cap
              /\ holders' = holders \cup {p}

Release(p) == /\ p \in holders
              /\ holders' = holders \ {p}

Next == \E p \in Procs : Acquire(p) \/ Release(p)

Spec == Init /\ [][Next]_holders

============================================================================
