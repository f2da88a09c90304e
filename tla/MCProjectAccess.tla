--------------------------- MODULE MCProjectAccess ---------------------------
(* Instances of ProjectAccess for TLC.                                      *)
EXTENDS ProjectAccess, TLC

CONSTANTS root, ann, bob, r1, r2, p1

Roles == [u \in Users |-> IF u = root THEN "admin" ELSE "analyst"]

\* Requests, and the users of one role, are interchangeable.
AccessSymmetry == Permutations(Requests) \cup Permutations({ann, bob})
==============================================================================
