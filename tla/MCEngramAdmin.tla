---------------------------- MODULE MCEngramAdmin ----------------------------
(* Instances of EngramAdmin for TLC.                                        *)
EXTENDS EngramAdmin, TLC

CONSTANTS r1, r2, e1, c1, p1, p2
==============================================================================
