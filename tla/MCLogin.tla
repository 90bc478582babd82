------------------------------ MODULE MCLogin ------------------------------
(* A small instance of Login for TLC.                                      *)
EXTENDS Login

CONSTANTS c1, c2, s1, s2, real, guess, other

\* Few attempts per connection, so that a guesser has to come back.
FewTries == [p \in Protos |-> IF p = "cisco" THEN 1 ELSE 2]

============================================================================
