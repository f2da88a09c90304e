--------------------------- MODULE MCRequestLimiter ---------------------------
(* Instances of RequestLimiter for TLC.                                     *)
EXTENDS RequestLimiter, TLC

CONSTANTS r1, r2, i1, i2

RequestSymmetry == Permutations(Requests) \cup Permutations(Instances)
==============================================================================
