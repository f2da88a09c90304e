------------------------------ MODULE MCCuration ------------------------------
(* Instances of Curation for TLC.                                           *)
EXTENDS Curation, TLC

CONSTANTS a1, a2, d1, l1, r1, r2, i1, i2

Pairs == {a1, a2, d1}
Positions == (a1 :> 1) @@ (a2 :> 2) @@ (d1 :> 3)
Kinds == (a1 :> "contradiction") @@ (a2 :> "contradiction") @@ (d1 :> "consolidate")

ProjectContents == {{a1, a2, d1}, {a2, l1}}

\* One alert may be opened again, the other shares the pages with it.
OpeningsBound == [s \in Detected |-> IF s = a1 THEN 2 ELSE 1]

CurationSymmetry == Permutations(Requests) \cup Permutations(Ids)
==============================================================================
