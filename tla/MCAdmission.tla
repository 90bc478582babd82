---------------------------- MODULE MCAdmission ----------------------------
(* Small instances of Admission for TLC.                                   *)
EXTENDS Admission, TLC

CONSTANTS l1, l2, a1, a2, c1, c2, c3

ConnSymmetry == Permutations({c1, c2, c3})

============================================================================
