----------------------------- MODULE MCWebTrap -----------------------------
(* Small instances of WebTrap for TLC.                                     *)
EXTENDS WebTrap, TLC

CONSTANTS c1, c2, s1, s2, s3

ConnSymmetry == Permutations(Conns)

============================================================================
