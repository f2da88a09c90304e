---------------------------- MODULE MCChatSession ----------------------------
(* Instances of ChatSession for TLC.                                        *)
EXTENDS ChatSession, TLC

CONSTANTS t1, t2, plan, report

\* Every flag and strategy, given or missing, with one set of numbers.
AllCreations ==
    [enabled : BOOLEAN, strategy : Optional(Strategies),
     interval : {1}, minMessages : {1}, days : {1}, max : {1}]
AllFlags ==
    [enabled : Optional(BOOLEAN), strategy : Optional(Strategies),
     interval : {{}}, minMessages : {{}}, days : {{}}, max : {{}}]

\* A session that saves at every turn, with its retention raised and lowered.
SavingCreations ==
    [enabled : {TRUE}, strategy : {{"interval"}, {"message_count"}},
     interval : {1}, minMessages : {1}, days : {1}, max : {1}]
RetentionChanges ==
    [enabled : {{}}, strategy : {{}},
     interval : {{}}, minMessages : {{}}, days : {{}}, max : {{1}, {2}}]

\* Three snapshots early on, or two while the first expires, or one next to
\* other engrams: enough to cut a listing of two and to outlive retention_days.
Budget == stamps + Cardinality(saved) + now <= 4

\* Two deletions, or one next to an engram that was saved.
Deletions == deletes + Cardinality({e \in saved \cup trash : e \in Others}) <= 2

TurnSymmetry == Permutations(Turns)
TurnAndTextSymmetry == Permutations(Turns) \cup Permutations(ReplyTexts)
==============================================================================
