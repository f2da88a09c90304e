----------------------------- MODULE MCLoginGuard -----------------------------
(* Instances of LoginGuard for TLC.                                         *)
EXTENDS LoginGuard, TLC

CONSTANTS l1, l2, i1, i2

LoginSymmetry == Permutations(Logins) \cup Permutations(Instances)
==============================================================================
