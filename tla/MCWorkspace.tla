----------------------------- MODULE MCWorkspace -----------------------------
(* Instances of Workspace for TLC.                                          *)
EXTENDS Workspace, TLC

CONSTANTS u1, u2, p1, p2, s1, s2

\* s1 belongs to u1; s2 is to be created.
MCStored == (s1 :> [owner |-> u1, project |-> p1]) @@ (s2 :> None)
==============================================================================
