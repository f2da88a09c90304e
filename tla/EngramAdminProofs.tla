-------------------------- MODULE EngramAdminProofs --------------------------
(***************************************************************************)
(* Proofs about EngramAdmin, for any engrams, collections and projects,    *)
(* any number of requests at a time and any size of the connection pool.   *)
(***************************************************************************)
EXTENDS EngramAdmin, FiniteSetTheorems, TLAPS

------------------------------------------------------------------------------
(* Shapes.                                                                 *)

Updating == [pc : {"read", "write", "clear", "insert"}, engram : Engrams,
             scope : Scopes \cup {Keep}, sources : BOOLEAN]
Moving == [pc : {"resolve", "move", "cleanup", "reread"}, engram : Engrams, target : Projects]
Sharing == [pc : {"role", "share"}, engram : Engrams, scope : Scopes]
Adding == [pc : {"add"}, collection : Collections, engrams : SUBSET Engrams]

\* A scope is written as it was given or as it was read: never "keep".
ScopeInv == \A r \in Requests : req[r].pc = "write" => req[r].scope \in Scopes

\* The record of a request, by where it is.
LEMMA RequestShape ==
    ASSUME TypeOK, NEW r \in Requests
    PROVE  /\ req[r].pc \in {"read", "write", "clear", "insert"} => req[r] \in Updating
           /\ req[r].pc \in {"resolve", "move", "cleanup", "reread"} => req[r] \in Moving
           /\ req[r].pc \in {"role", "share"} => req[r] \in Sharing
           /\ req[r].pc = "add" => req[r] \in Adding
           /\ req[r].pc = "idle" => req[r] = Idle
<1>1. PICK q \in Updating \cup Moving \cup Sharing \cup Adding \cup {Idle} : q = req[r]
  BY DEF TypeOK, RequestRecords, Updating, Moving, Sharing, Adding
<1>2. CASE q \in Updating
  BY <1>1, <1>2 DEF Updating
<1>3. CASE q \in Moving
  BY <1>1, <1>3 DEF Moving
<1>4. CASE q \in Sharing
  BY <1>1, <1>4 DEF Sharing
<1>5. CASE q \in Adding
  BY <1>1, <1>5 DEF Adding
<1>6. CASE q = Idle
  BY <1>1, <1>6 DEF Idle
<1> QED BY <1>1, <1>2, <1>3, <1>4, <1>5, <1>6

\* A request that was written is the only one that changed.
LEMMA RequestSet ==
    ASSUME TypeOK, NEW r \in Requests,
           NEW q \in Updating \cup Moving \cup Sharing \cup Adding \cup {Idle}, req' = [req EXCEPT ![r] = q]
    PROVE  /\ req' \in [Requests -> RequestRecords \cup {Idle}]
           /\ req'[r] = q /\ \A x \in Requests \ {r} : req'[x] = req[x]
BY DEF TypeOK, RequestRecords, Updating, Moving, Sharing, Adding

LEMMA RequestGoto ==
    ASSUME TypeOK, NEW r \in Requests, NEW where, Goto(r, where)
    PROVE  req' = [req EXCEPT ![r] = [req[r] EXCEPT !.pc = where]]
BY DEF Goto, TypeOK

LEMMA RequestMoves ==
    /\ \A q \in Updating, where \in {"read", "write", "clear", "insert"} : [q EXCEPT !.pc = where] \in Updating
    /\ \A q \in Moving, where \in {"resolve", "move", "cleanup", "reread"} : [q EXCEPT !.pc = where] \in Moving
    /\ \A q \in Sharing, where \in {"role", "share"} : [q EXCEPT !.pc = where] \in Sharing
BY DEF Updating, Moving, Sharing

Pool == held \subseteq Requests \X {"cleanup", "add"} /\ Cardinality(held) <= PoolSize

LEMMA HeldFinite ==
    ASSUME TypeOK
    PROVE  Pool /\ IsFiniteSet(held) /\ Cardinality(held) \in Nat /\ PoolSize \in Nat
<1>1. IsFiniteSet({"cleanup"}) /\ IsFiniteSet({"cleanup"} \cup {"add"}) /\ {"cleanup"} \cup {"add"} = {"cleanup", "add"}
  BY FS_Singleton, FS_AddElement
<1>2. IsFiniteSet(Requests \X {"cleanup", "add"})
  BY <1>1, PoolAssumption, FS_Product
<1> QED BY <1>2, PoolAssumption, FS_Subset, FS_CardinalityType DEF TypeOK, Pool

LEMMA HeldMore ==
    ASSUME TypeOK, NEW r \in Requests, NEW why \in {"cleanup", "add"}, Connected, held' = held \cup {<<r, why>>}
    PROVE  Pool'
<1>1. Cardinality(held') \in {Cardinality(held), Cardinality(held) + 1}
  BY HeldFinite, FS_AddElement
<1> QED BY <1>1, HeldFinite DEF Pool, Connected

LEMMA HeldLess ==
    ASSUME TypeOK, held' \subseteq held
    PROVE  Pool'
<1>1. Cardinality(held') <= Cardinality(held) /\ Cardinality(held') \in Nat
  BY HeldFinite, FS_Subset, FS_CardinalityType
<1> QED BY <1>1, HeldFinite DEF Pool

LEMMA TypeInit == Init => TypeOK /\ ScopeInv
<1> SUFFICES ASSUME Init PROVE TypeOK /\ ScopeInv
  OBVIOUS
<1>1. Cardinality(held) <= PoolSize
  BY FS_EmptySet, PoolAssumption DEF Init
<1>2. engrams \in [Engrams -> EngramRecords]
  BY DEF Init, EngramRecords
<1> QED BY <1>1, <1>2 DEF Init, TypeOK, ScopeInv, Idle

\* The UPDATEs of one engram's row.
LEMMA EngramSet ==
    ASSUME TypeOK, NEW e \in Engrams
    PROVE  /\ \A p \in Projects : [engrams EXCEPT ![e].project = p] \in [Engrams -> EngramRecords]
           /\ \A s \in Scopes : [engrams EXCEPT ![e].scope = s] \in [Engrams -> EngramRecords]
           /\ \A d \in BOOLEAN : [engrams EXCEPT ![e].deleted = d] \in [Engrams -> EngramRecords]
<1>1. \A q \in EngramRecords : /\ \A p \in Projects : [q EXCEPT !.project = p] \in EngramRecords
                               /\ \A s \in Scopes : [q EXCEPT !.scope = s] \in EngramRecords
                               /\ \A d \in BOOLEAN : [q EXCEPT !.deleted = d] \in EngramRecords
  BY DEF EngramRecords
<1> QED BY <1>1 DEF TypeOK

Base == TypeOK /\ ScopeInv

\* A step that gives request r a new record and leaves the rows alone.
LEMMA RequestOnly ==
    ASSUME Base, NEW r \in Requests, NEW q \in Updating \cup Moving \cup Sharing \cup Adding \cup {Idle},
           req' = [req EXCEPT ![r] = q], q.pc = "write" => q.scope \in Scopes, Pool',
           engrams' \in [Engrams -> EngramRecords], sources' \in [Engrams -> Nat],
           UNCHANGED collections, items' \subseteq Collections \X Engrams, excused' \subseteq Collections \X Engrams
    PROVE  Base'
<1>1. /\ req' \in [Requests -> RequestRecords \cup {Idle}]
      /\ req'[r] = q /\ \A x \in Requests \ {r} : req'[x] = req[x]
  BY RequestSet DEF Base
<1>2. TypeOK'
  BY <1>1 DEF Base, TypeOK, Pool
<1>3. ScopeInv'
  BY <1>1 DEF Base, ScopeInv
<1> QED BY <1>2, <1>3 DEF Base

\* The same for a request that ends.
LEMMA RequestEnds ==
    ASSUME Base, NEW r \in Requests, Finish(r),
           engrams' \in [Engrams -> EngramRecords], sources' \in [Engrams -> Nat],
           UNCHANGED collections, items' \subseteq Collections \X Engrams, excused' \subseteq Collections \X Engrams
    PROVE  Base'
<1>1. req' = [req EXCEPT ![r] = Idle] /\ held' \subseteq held
  BY DEF Finish, Release
<1>2. Pool'
  BY <1>1, HeldLess DEF Base
<1>3. Idle.pc # "write"
  BY DEF Idle
<1> QED BY <1>1, <1>2, <1>3, RequestOnly

LEMMA PendingItems ==
    ASSUME TypeOK, NEW e \in Engrams
    PROVE  BeingAdded(e) \subseteq Collections \X Engrams
BY RequestShape DEF BeingAdded, Adding

LEMMA ArriveBase ==
    ASSUME Base, NEW r \in Requests, Arrive(r)
    PROVE  Base'
<1> USE DEF Rows
<1>0. TypeOK
  BY DEF Base
<1>1. ASSUME NEW q \in Updating \cup Moving \cup Sharing \cup Adding, q.pc # "write",
             req' = [req EXCEPT ![r] = q], UNCHANGED <<Rows, excused>>, Pool'
      PROVE  Base'
  BY <1>0, <1>1, RequestOnly DEF TypeOK
<1>2. ASSUME NEW e \in Engrams, NEW scope \in Scopes \cup {Keep}, NEW s \in BOOLEAN, UpdateEngram(r, e, scope, s)
      PROVE  Base'
  <2>1. [pc |-> "read", engram |-> e, scope |-> scope, sources |-> s] \in Updating
    BY DEF Updating
  <2>2. Pool'
    BY <1>0, <1>2, HeldLess DEF UpdateEngram
  <2> QED BY <1>1, <1>2, <2>1, <2>2 DEF UpdateEngram
<1>3. ASSUME NEW e \in Engrams, NEW p \in Projects, MoveEngram(r, e, p) PROVE Base'
  <2>1. [pc |-> "resolve", engram |-> e, target |-> p] \in Moving
    BY DEF Moving
  <2>2. Pool'
    BY <1>0, <1>3, HeldLess DEF MoveEngram
  <2> QED BY <1>1, <1>3, <2>1, <2>2 DEF MoveEngram
<1>4. ASSUME NEW e \in Engrams, NEW scope \in Scopes, SetEngramVisibility(r, e, scope) PROVE Base'
  <2>1. [pc |-> "role", engram |-> e, scope |-> scope] \in Sharing
    BY DEF Sharing
  <2>2. Pool'
    BY <1>0, <1>4, HeldLess DEF SetEngramVisibility
  <2> QED BY <1>1, <1>4, <2>1, <2>2 DEF SetEngramVisibility
<1>5. ASSUME NEW c \in Collections, NEW es \in SUBSET Engrams, AddCollectionItems(r, c, es) PROVE Base'
  <2>1. [pc |-> "add", collection |-> c, engrams |-> Joinable(c, es)] \in Adding
    BY DEF Adding, Joinable
  <2>2. Pool'
    BY <1>0, <1>5, HeldMore DEF AddCollectionItems
  <2> QED BY <1>1, <1>5, <2>1, <2>2 DEF AddCollectionItems
<1> QED BY <1>2, <1>3, <1>4, <1>5 DEF Arrive

LEMMA ContinueBase ==
    ASSUME Base, NEW r \in Requests, Continue(r) \/ Fail(r)
    PROVE  Base'
<1> USE DEF Rows
<1>0. TypeOK
  BY DEF Base
<1>1. ASSUME Finish(r), UNCHANGED <<Rows, excused>> PROVE Base'
  BY <1>0, <1>1, RequestEnds DEF TypeOK
<1>2. ASSUME NEW q \in Updating \cup Moving \cup Sharing \cup Adding, q.pc # "write",
             req' = [req EXCEPT ![r] = q], UNCHANGED <<Rows, excused, held>>
      PROVE  Base'
  <2>1. Pool'
    BY <1>0, <1>2, HeldLess
  <2> QED BY <1>0, <1>2, <2>1, RequestOnly DEF TypeOK
<1>3. CASE ReadForUpdate(r)
  <2> DEFINE q == req[r]
             kept == IF q.scope = Keep THEN engrams[q.engram].scope ELSE q.scope
  <2>1. q \in Updating
    BY <1>0, <1>3, RequestShape DEF ReadForUpdate
  <2>2. kept \in Scopes
    BY <1>0, <2>1 DEF Updating, TypeOK, EngramRecords
  <2> HIDE DEF kept
  <2>3. CASE ~ Finish(r)
    <3>1. req' = [req EXCEPT ![r].pc = "write", ![r].scope = IF @ = Keep THEN engrams[req[r].engram].scope ELSE @]
          /\ UNCHANGED <<Rows, excused, held>>
      BY <1>3, <2>3 DEF ReadForUpdate
    <3> DEFINE n == [[q EXCEPT !.pc = "write"] EXCEPT !.scope = kept]
    <3>2. req' = [req EXCEPT ![r] = n]
      BY <1>0, <2>1, <3>1 DEF kept, TypeOK, Updating
    <3>3. n \in Updating /\ n.scope = kept
      BY <2>1, <2>2 DEF Updating
    <3>4. Pool'
      BY <1>0, <3>1, HeldLess
    <3> HIDE DEF n, q
    <3> QED BY <1>0, <2>2, <3>1, <3>2, <3>3, <3>4, RequestOnly DEF TypeOK
  <2> QED BY <1>1, <1>3, <2>3 DEF ReadForUpdate
<1>4. CASE WriteUpdate(r)
  <2>1. req[r] \in Updating /\ req[r].scope \in Scopes
    BY <1>0, <1>4, RequestShape DEF WriteUpdate, Base, ScopeInv
  <2>2. req[r].engram \in Engrams
    BY <2>1 DEF Updating
  <2>3. engrams' \in [Engrams -> EngramRecords]
    BY <1>0, <1>4, <2>1, <2>2, EngramSet DEF WriteUpdate, TypeOK
  <2>4. UNCHANGED <<sources, collections, items, excused>>
    BY <1>4 DEF WriteUpdate
  <2>5. CASE Finish(r)
    BY <1>0, <2>3, <2>4, <2>5, RequestEnds DEF TypeOK
  <2>6. CASE ~ Finish(r)
    <3>1. Goto(r, "clear") /\ UNCHANGED held
      BY <1>4, <2>6 DEF WriteUpdate
    <3>2. req' = [req EXCEPT ![r] = [req[r] EXCEPT !.pc = "clear"]] /\ [req[r] EXCEPT !.pc = "clear"] \in Updating
      BY <1>0, <2>1, <3>1, RequestGoto, RequestMoves
    <3>3. [req[r] EXCEPT !.pc = "clear"].pc # "write"
      BY <2>1 DEF Updating
    <3>4. Pool'
      BY <1>0, <3>1, HeldLess
    <3> QED BY <1>0, <2>3, <2>4, <3>2, <3>3, <3>4, RequestOnly DEF TypeOK
  <2> QED BY <2>5, <2>6
<1>5. CASE DeleteSources(r)
  <2>1. req[r] \in Updating /\ req[r].engram \in Engrams
    BY <1>0, <1>5, RequestShape DEF DeleteSources, Updating
  <2>2. sources' \in [Engrams -> Nat] /\ UNCHANGED <<engrams, collections, items, excused, held>>
    BY <1>0, <1>5, <2>1 DEF DeleteSources, TypeOK
  <2>3. req' = [req EXCEPT ![r] = [req[r] EXCEPT !.pc = "insert"]] /\ [req[r] EXCEPT !.pc = "insert"] \in Updating
    BY <1>0, <1>5, <2>1, RequestGoto, RequestMoves DEF DeleteSources
  <2>4. [req[r] EXCEPT !.pc = "insert"].pc # "write"
    BY <2>1 DEF Updating
  <2>5. Pool'
    BY <1>0, <2>2, HeldLess
  <2> QED BY <1>0, <2>2, <2>3, <2>4, <2>5, RequestOnly DEF TypeOK
<1>6. CASE InsertSources(r)
  <2>1. req[r].engram \in Engrams
    BY <1>0, <1>6, RequestShape DEF InsertSources, Updating
  <2>2. sources' \in [Engrams -> Nat]
    BY <1>0, <1>6, <2>1 DEF InsertSources, TypeOK
  <2> QED BY <1>0, <1>6, <2>2, RequestEnds DEF InsertSources, TypeOK
<1>7. CASE Resolve(r)
  <2>1. req[r] \in Moving
    BY <1>0, <1>7, RequestShape DEF Resolve
  <2>2. [req[r] EXCEPT !.pc = "move"] \in Moving /\ [req[r] EXCEPT !.pc = "move"].pc # "write"
    BY <2>1 DEF Moving
  <2> QED BY <1>0, <1>1, <1>2, <1>7, <2>2, RequestGoto DEF Resolve
<1>8. CASE MoveRow(r)
  <2>1. req[r] \in Moving /\ req[r].engram \in Engrams /\ req[r].target \in Projects
    BY <1>0, <1>8, RequestShape DEF MoveRow, Moving
  <2>2. CASE Finish(r) /\ UNCHANGED <<engrams, excused>>
    BY <1>1, <1>8, <2>2 DEF MoveRow
  <2>3. CASE Goto(r, "cleanup") /\ UNCHANGED held /\ engrams' = [engrams EXCEPT ![req[r].engram].project = req[r].target]
               /\ excused' = excused \cup BeingAdded(req[r].engram)
    <3>1. engrams' \in [Engrams -> EngramRecords]
      BY <1>0, <2>1, <2>3, EngramSet
    <3>2. excused' \subseteq Collections \X Engrams
      BY <1>0, <2>1, <2>3, PendingItems DEF TypeOK
    <3>3. [req[r] EXCEPT !.pc = "cleanup"] \in Moving /\ [req[r] EXCEPT !.pc = "cleanup"].pc # "write"
      BY <2>1 DEF Moving
    <3>4. req' = [req EXCEPT ![r] = [req[r] EXCEPT !.pc = "cleanup"]]
      BY <1>0, <2>3, RequestGoto
    <3>5. Pool' /\ UNCHANGED <<sources, collections, items>>
      BY <1>0, <1>8, <2>3, HeldLess DEF MoveRow
    <3> QED BY <1>0, <3>1, <3>2, <3>3, <3>4, <3>5, RequestOnly DEF TypeOK
  <2> QED BY <1>8, <2>2, <2>3 DEF MoveRow
<1>9. CASE Cleanup(r)
  <2>1. req[r] \in Moving /\ req[r].engram \in Engrams
    BY <1>0, <1>9, RequestShape DEF Cleanup, Moving
  <2>2. items' \subseteq items /\ excused' \subseteq excused \cup items \cup BeingAdded(req[r].engram)
    BY <1>9 DEF Cleanup, Strays
  <2>3. items' \subseteq Collections \X Engrams /\ excused' \subseteq Collections \X Engrams
    BY <1>0, <2>1, <2>2, PendingItems DEF TypeOK
  <2>4. Pool'
    BY <1>0, <1>9, HeldMore DEF Cleanup
  <2>5. [req[r] EXCEPT !.pc = "reread"] \in Moving /\ [req[r] EXCEPT !.pc = "reread"].pc # "write"
    BY <2>1 DEF Moving
  <2>6. req' = [req EXCEPT ![r] = [req[r] EXCEPT !.pc = "reread"]] /\ UNCHANGED <<engrams, sources, collections>>
    BY <1>0, <1>9, RequestGoto DEF Cleanup
  <2> QED BY <1>0, <2>3, <2>4, <2>5, <2>6, RequestOnly DEF TypeOK
<1>10. CASE Reread(r)
  BY <1>1, <1>10 DEF Reread
<1>11. CASE CanShareEngram(r)
  <2>1. req[r] \in Sharing
    BY <1>0, <1>11, RequestShape DEF CanShareEngram
  <2>2. [req[r] EXCEPT !.pc = "share"] \in Sharing /\ [req[r] EXCEPT !.pc = "share"].pc # "write"
    BY <2>1 DEF Sharing
  <2> QED BY <1>0, <1>1, <1>2, <1>11, <2>2, RequestGoto DEF CanShareEngram
<1>12. CASE ShareRow(r)
  <2>1. req[r].engram \in Engrams /\ req[r].scope \in Scopes
    BY <1>0, <1>12, RequestShape DEF ShareRow, Sharing
  <2>2. engrams' \in [Engrams -> EngramRecords]
    BY <1>0, <1>12, <2>1, EngramSet DEF ShareRow, TypeOK
  <2> QED BY <1>0, <1>12, <2>2, RequestEnds DEF ShareRow, TypeOK
<1>13. CASE CommitItems(r)
  <2>1. req[r].collection \in Collections /\ req[r].engrams \subseteq Engrams
    BY <1>0, <1>13, RequestShape DEF CommitItems, Adding
  <2>2. items' \subseteq Collections \X Engrams
    BY <1>0, <1>13, <2>1 DEF CommitItems, TypeOK
  <2> QED BY <1>0, <1>13, <2>2, RequestEnds DEF CommitItems, TypeOK
<1>14. CASE Fail(r)
  <2>1. excused' \subseteq excused \cup items
    BY <1>14 DEF Fail, Strays
  <2>2. excused' \subseteq Collections \X Engrams
    BY <1>0, <2>1 DEF TypeOK
  <2> QED BY <1>0, <1>14, <2>2, RequestEnds DEF Fail, TypeOK
<1> QED BY <1>3, <1>4, <1>5, <1>6, <1>7, <1>8, <1>9, <1>10, <1>11, <1>12, <1>13, <1>14 DEF Continue

LEMMA OtherBase ==
    ASSUME Base, Next, ~ \E r \in Requests : Arrive(r) \/ Continue(r) \/ Fail(r)
    PROVE  Base' /\ UNCHANGED <<sources, req, held>>
<1>0. TypeOK
  BY DEF Base
<1>1. UNCHANGED <<sources, req, held>>
  BY DEF Next, DeleteEngram, RestoreEngram, CreateCollection, DeleteCollection, RemoveCollectionItem
<1>2. engrams' \in [Engrams -> EngramRecords]
  <2>1. ASSUME NEW e \in Engrams, DeleteEngram(e) \/ RestoreEngram(e) PROVE engrams' \in [Engrams -> EngramRecords]
    BY <1>0, <2>1, EngramSet DEF DeleteEngram, RestoreEngram
  <2>2. CASE UNCHANGED engrams
    BY <1>0, <2>2 DEF TypeOK
  <2> QED BY <2>1, <2>2 DEF Next, CreateCollection, DeleteCollection, RemoveCollectionItem
<1>3. collections' \in [Collections -> CollectionRecords \cup {NoCollection}]
  <2>1. ASSUME NEW c \in Collections, NEW p \in Projects, CreateCollection(c, p)
        PROVE  collections' \in [Collections -> CollectionRecords \cup {NoCollection}]
    BY <1>0, <2>1 DEF CreateCollection, TypeOK, CollectionRecords
  <2>2. ASSUME NEW c \in Collections, DeleteCollection(c)
        PROVE  collections' \in [Collections -> CollectionRecords \cup {NoCollection}]
    <3>1. collections[c] \in CollectionRecords
      BY <1>0, <2>2 DEF DeleteCollection, TypeOK
    <3>2. [collections[c] EXCEPT !.deleted = TRUE] \in CollectionRecords
      BY <3>1 DEF CollectionRecords
    <3> QED BY <1>0, <2>2, <3>2 DEF DeleteCollection, TypeOK
  <2>3. CASE UNCHANGED collections
    BY <1>0, <2>3 DEF TypeOK
  <2> QED BY <2>1, <2>2, <2>3 DEF Next, DeleteEngram, RestoreEngram, RemoveCollectionItem
<1>4. items' \subseteq items /\ excused' \subseteq excused
  BY DEF Next, DeleteEngram, RestoreEngram, CreateCollection, DeleteCollection, RemoveCollectionItem
<1>5. TypeOK'
  BY <1>0, <1>1, <1>2, <1>3, <1>4 DEF TypeOK
<1> QED BY <1>1, <1>5 DEF Base, ScopeInv

LEMMA BaseStep == Base /\ [Next]_vars => Base'
<1> SUFFICES ASSUME Base, [Next]_vars PROVE Base'
  OBVIOUS
<1>1. CASE UNCHANGED vars
  BY <1>1 DEF vars, Base, TypeOK, ScopeInv
<1> QED BY <1>1, ArriveBase, ContinueBase, OtherBase DEF Next

LEMMA BaseAlways == Spec => []Base
<1>1. Init => Base
  BY TypeInit DEF Base
<1> QED BY <1>1, BaseStep, PTL DEF Spec

\* The type invariant: in particular the statements under way never hold more
\* connections than the pool has.
THEOREM TypeCorrect == Spec => []TypeOK
<1>1. Base => TypeOK
  BY DEF Base
<1> QED BY <1>1, BaseAlways, PTL

------------------------------------------------------------------------------
(* Deleted engrams.                                                        *)

LEMMA FrozenStep ==
    ASSUME Base, [Next]_vars, NEW e \in Engrams, engrams[e].deleted
    PROVE  engrams'[e].project = engrams[e].project /\ engrams'[e].scope = engrams[e].scope
<1> USE DEF Rows
<1>0. TypeOK
  BY DEF Base
<1>1. CASE UNCHANGED engrams
  BY <1>1
<1>2. ASSUME NEW r \in Requests, Present(r), NEW new,
             \/ engrams' = [engrams EXCEPT ![req[r].engram].scope = new]
             \/ engrams' = [engrams EXCEPT ![req[r].engram].project = new]
      PROVE  UNCHANGED engrams[e]
  BY <1>0, <1>2 DEF Present, TypeOK
<1>3. ASSUME NEW r \in Requests, Arrive(r) \/ Continue(r) \/ Fail(r)
      PROVE  UNCHANGED engrams[e]
  <2>1. CASE WriteUpdate(r)
    BY <1>2, <2>1 DEF WriteUpdate
  <2>2. CASE MoveRow(r)
    BY <1>2, <2>2 DEF MoveRow
  <2>3. CASE ShareRow(r)
    BY <1>2, <2>3 DEF ShareRow
  <2>4. CASE ~ WriteUpdate(r) /\ ~ MoveRow(r) /\ ~ ShareRow(r)
    BY <1>3, <2>4 DEF Arrive, Continue, Fail, UpdateEngram, MoveEngram, SetEngramVisibility, AddCollectionItems,
         ReadForUpdate, DeleteSources, InsertSources, Resolve, Cleanup, Reread, CanShareEngram, CommitItems
  <2> QED BY <2>1, <2>2, <2>3, <2>4
<1>4. ASSUME NEW x \in Engrams, DeleteEngram(x) \/ RestoreEngram(x)
      PROVE  engrams'[e].project = engrams[e].project /\ engrams'[e].scope = engrams[e].scope
  BY <1>0, <1>4 DEF DeleteEngram, RestoreEngram, TypeOK, EngramRecords
<1> QED BY <1>1, <1>3, <1>4 DEF Next, CreateCollection, DeleteCollection, RemoveCollectionItem, vars

\* Updates, moves and shares that were under way when an engram was deleted
\* leave its project and visibility alone.
THEOREM DeletedEngramIsFrozen == Spec => DeletedEngramFrozen
<1>1. Base /\ [Next]_vars
        => [\A e \in Engrams : engrams[e].deleted =>
              engrams'[e].project = engrams[e].project /\ engrams'[e].scope = engrams[e].scope]_vars
  BY FrozenStep
<1> QED BY <1>1, BaseAlways, PTL DEF Spec, DeletedEngramFrozen

------------------------------------------------------------------------------
(* Requests, one at a time.                                                *)

\* A step of a request leaves the others alone, and only one kind of step puts
\* it before its insert of sources, its cleanup or its insert of items.
LEMMA OneRequest ==
    ASSUME Base, NEW r \in Requests, Arrive(r) \/ Continue(r) \/ Fail(r)
    PROVE  /\ \A x \in Requests \ {r} : req'[x] = req[x]
           /\ req'[r].pc = "insert" => DeleteSources(r)
           /\ req'[r].pc = "cleanup" => MoveRow(r)
           /\ req'[r].pc = "add" => \E c \in Collections, es \in SUBSET Engrams : AddCollectionItems(r, c, es)
<1> DEFINE Others == \A x \in Requests \ {r} : req'[x] = req[x]
<1>0. TypeOK
  BY DEF Base
<1>1. CASE Finish(r)
  BY <1>0, <1>1 DEF Finish, Idle, TypeOK
<1>2. ASSUME NEW e \in Engrams, NEW scope \in Scopes \cup {Keep}, NEW s \in BOOLEAN, UpdateEngram(r, e, scope, s)
      PROVE  Others /\ req'[r].pc = "read"
  BY <1>0, <1>2 DEF UpdateEngram, TypeOK
<1>3. ASSUME NEW e \in Engrams, NEW p \in Projects, MoveEngram(r, e, p)
      PROVE  Others /\ req'[r].pc = "resolve"
  BY <1>0, <1>3 DEF MoveEngram, TypeOK
<1>4. ASSUME NEW e \in Engrams, NEW scope \in Scopes, SetEngramVisibility(r, e, scope)
      PROVE  Others /\ req'[r].pc = "role"
  BY <1>0, <1>4 DEF SetEngramVisibility, TypeOK
<1>5. ASSUME NEW c \in Collections, NEW es \in SUBSET Engrams, AddCollectionItems(r, c, es)
      PROVE  Others /\ req'[r].pc = "add"
  BY <1>0, <1>5 DEF AddCollectionItems, TypeOK
<1>6. ASSUME NEW where, Goto(r, where), req[r] # Idle
      PROVE  Others /\ req'[r].pc = where
  <2>1. req[r] \in Updating \cup Moving \cup Sharing \cup Adding
    BY <1>0, <1>6 DEF TypeOK, RequestRecords, Updating, Moving, Sharing, Adding
  <2>2. [req[r] EXCEPT !.pc = where].pc = where
    BY <2>1 DEF Updating, Moving, Sharing, Adding
  <2>3. req' = [req EXCEPT ![r] = [req[r] EXCEPT !.pc = where]]
    BY <1>0, <1>6, RequestGoto
  <2>4. PICK n : n.pc = where /\ req' = [req EXCEPT ![r] = n]
    BY <2>2, <2>3
  <2> QED BY <1>0, <2>4 DEF TypeOK
<1>7. ASSUME ReadForUpdate(r), ~ Finish(r) PROVE Others /\ req'[r].pc = "write"
  <2>1. req[r] \in Updating
    BY <1>0, <1>7, RequestShape DEF ReadForUpdate
  <2> QED BY <1>0, <1>7, <2>1 DEF ReadForUpdate, Updating, TypeOK
<1>8. CASE Arrive(r)
  BY <1>2, <1>3, <1>4, <1>5, <1>8 DEF Arrive
<1>9. Continue(r) => req[r] # Idle
  BY DEF Idle, Continue, ReadForUpdate, WriteUpdate, DeleteSources, InsertSources, Resolve, MoveRow,
         Cleanup, Reread, CanShareEngram, ShareRow, CommitItems
<1>10. CASE ~ Finish(r) /\ Continue(r)
  <2>1. CASE ReadForUpdate(r)
    BY <1>7, <1>10, <2>1
  <2>2. CASE WriteUpdate(r)
    BY <1>6, <1>9, <1>10, <2>2 DEF WriteUpdate
  <2>3. CASE DeleteSources(r)
    BY <1>6, <1>9, <1>10, <2>3 DEF DeleteSources
  <2>4. CASE Resolve(r)
    BY <1>6, <1>9, <1>10, <2>4 DEF Resolve
  <2>5. CASE MoveRow(r)
    <3>1. Goto(r, "cleanup")
      BY <1>10, <2>5 DEF MoveRow
    <3> QED BY <1>6, <1>9, <1>10, <2>5, <3>1
  <2>6. CASE Cleanup(r)
    BY <1>6, <1>9, <1>10, <2>6 DEF Cleanup
  <2>7. CASE CanShareEngram(r)
    BY <1>6, <1>9, <1>10, <2>7 DEF CanShareEngram
  <2> QED BY <1>10, <2>1, <2>2, <2>3, <2>4, <2>5, <2>6, <2>7
          DEF Continue, InsertSources, Reread, ShareRow, CommitItems
<1> QED BY <1>1, <1>8, <1>10 DEF Fail

------------------------------------------------------------------------------
(* Source lists.                                                           *)

Inserting(e) == {r \in Requests : req[r].pc = "insert" /\ req[r].engram = e}

\* What a request does to the inserts to come.
LEMMA InsertingStep ==
    ASSUME Base, NEW r \in Requests, Arrive(r) \/ Continue(r) \/ Fail(r), NEW e \in Engrams
    PROVE  \/ sources'[e] = sources[e] /\ Inserting(e)' \subseteq Inserting(e)
           \/ sources'[e] = 0
           \/ sources'[e] = sources[e] + 1 /\ r \in Inserting(e) /\ Inserting(e)' \subseteq Inserting(e) \ {r}
<1> USE DEF Rows
<1>0. TypeOK
  BY DEF Base
<1>1. CASE DeleteSources(r)
  <2>1. req[r] \in Updating /\ sources' = [sources EXCEPT ![req[r].engram] = 0]
    BY <1>0, <1>1, RequestShape DEF DeleteSources
  <2>2. CASE req[r].engram = e
    BY <1>0, <2>1, <2>2 DEF TypeOK
  <2>3. CASE req[r].engram # e
    <3>1. sources'[e] = sources[e]
      BY <1>0, <2>1, <2>3 DEF TypeOK
    <3>2. req' = [req EXCEPT ![r] = [req[r] EXCEPT !.pc = "insert"]]
      BY <1>0, <1>1, RequestGoto DEF DeleteSources
    <3>3. req'[r].engram = req[r].engram /\ \A x \in Requests \ {r} : req'[x] = req[x]
      BY <1>0, <2>1, <3>2 DEF Updating, TypeOK
    <3> QED BY <2>3, <3>1, <3>3 DEF Inserting
  <2> QED BY <2>2, <2>3
<1>2. CASE ~ DeleteSources(r)
  <2>1. req'[r].pc # "insert" /\ \A x \in Requests \ {r} : req'[x] = req[x]
    BY <1>2, OneRequest
  <2>2. Inserting(e)' \subseteq Inserting(e) \ {r}
    BY <2>1 DEF Inserting
  <2>3. CASE InsertSources(r)
    <3>1. req[r].pc = "insert" /\ sources' = [sources EXCEPT ![req[r].engram] = @ + 1]
      BY <2>3 DEF InsertSources
    <3>2. CASE req[r].engram = e
      BY <1>0, <2>2, <3>1, <3>2 DEF Inserting, TypeOK
    <3>3. CASE req[r].engram # e
      BY <1>0, <2>2, <3>1, <3>3 DEF TypeOK
    <3> QED BY <3>2, <3>3
  <2>4. CASE ~ InsertSources(r)
    <3>1. sources' = sources
      BY <1>2, <2>4 DEF Arrive, Continue, Fail, UpdateEngram, MoveEngram, SetEngramVisibility, AddCollectionItems,
           ReadForUpdate, WriteUpdate, Resolve, MoveRow, Cleanup, Reread, CanShareEngram, ShareRow, CommitItems
    <3> QED BY <2>2, <3>1
  <2> QED BY <2>3, <2>4
<1> QED BY <1>1, <1>2

LEMMA SourcesStep == Base /\ SourceListsBounded /\ [Next]_vars => SourceListsBounded'
<1> SUFFICES ASSUME Base, SourceListsBounded, [Next]_vars, NEW e \in Engrams
             PROVE  sources'[e] + Cardinality(Inserting(e)') <= Cardinality(Requests)
  BY DEF SourceListsBounded, Inserting
<1>0. sources[e] \in Nat
  BY DEF Base, TypeOK
<1>1. sources[e] + Cardinality(Inserting(e)) <= Cardinality(Requests)
  BY DEF SourceListsBounded, Inserting
<1>2. /\ IsFiniteSet(Inserting(e)) /\ Cardinality(Inserting(e)) \in Nat
      /\ Cardinality(Inserting(e)') \in Nat /\ Cardinality(Inserting(e)') <= Cardinality(Requests)
      /\ Cardinality(Requests) \in Nat
  <2>1. Inserting(e) \in SUBSET Requests /\ Inserting(e)' \in SUBSET Requests
    BY DEF Inserting
  <2> QED BY <2>1, PoolAssumption, FS_Subset, FS_CardinalityType
<1>3. CASE sources'[e] = sources[e] /\ Inserting(e)' \subseteq Inserting(e)
  <2>1. Cardinality(Inserting(e)') <= Cardinality(Inserting(e))
    BY <1>2, <1>3, FS_Subset
  <2> QED BY <1>0, <1>1, <1>2, <1>3, <2>1
<1>4. CASE sources'[e] = 0
  BY <1>2, <1>4
<1>5. ASSUME NEW r \in Requests, sources'[e] = sources[e] + 1, r \in Inserting(e), Inserting(e)' \subseteq Inserting(e) \ {r}
      PROVE  sources'[e] + Cardinality(Inserting(e)') <= Cardinality(Requests)
  <2>1. IsFiniteSet(Inserting(e) \ {r}) /\ Cardinality(Inserting(e) \ {r}) = Cardinality(Inserting(e)) - 1
    BY <1>2, <1>5, FS_RemoveElement
  <2>2. Cardinality(Inserting(e)') <= Cardinality(Inserting(e) \ {r})
    BY <1>5, <2>1, FS_Subset
  <2> QED BY <1>0, <1>1, <1>2, <1>5, <2>1, <2>2
<1>6. ASSUME NEW r \in Requests, Arrive(r) \/ Continue(r) \/ Fail(r)
      PROVE  sources'[e] + Cardinality(Inserting(e)') <= Cardinality(Requests)
  BY <1>3, <1>4, <1>5, <1>6, InsertingStep
<1>7. CASE UNCHANGED <<sources, req>>
  BY <1>3, <1>7 DEF Inserting
<1> QED BY <1>6, <1>7, OtherBase DEF Next, vars

\* Overlapping updates never leave more source lists on an engram than there
\* are requests at a time.
THEOREM SourceListsAreBounded == Spec => []SourceListsBounded
<1>1. Init => SourceListsBounded
  <2> SUFFICES ASSUME Init, NEW e \in Engrams PROVE sources[e] + Cardinality(Inserting(e)) <= Cardinality(Requests)
    BY DEF SourceListsBounded, Inserting
  <2>1. sources[e] = 0 /\ Inserting(e) = {}
    BY DEF Init, Inserting, Idle
  <2>2. Cardinality({}) = 0 /\ Cardinality(Requests) \in Nat
    BY PoolAssumption, FS_EmptySet, FS_CardinalityType
  <2> QED BY <2>1, <2>2
<1> QED BY <1>1, SourcesStep, BaseAlways, PTL DEF Spec

------------------------------------------------------------------------------
(* Items of collections.                                                   *)

\* A statement under way, for an item it is about to insert.
ToInsert(i) == \E r \in Requests : req[r].pc = "add" /\ i[1] = req[r].collection /\ i[2] \in req[r].engrams

Cleaning(e) == {r \in Requests : req[r].pc = "cleanup" /\ req[r].engram = e}

\* The item is where it belongs, or there is an excuse.
Awaited(i) == Local(i[1], i[2]) \/ i \in excused
InPlace(i) == Awaited(i) \/ Cleaning(i[2]) # {}

\* An item about to be inserted is of the collection's project, or a move has
\* overtaken its insert; an item, stored or to come, is of a collection there is.
ItemInv ==
    /\ \A i \in items : InPlace(i) /\ collections[i[1]] # NoCollection
    /\ \A i \in Collections \X Engrams : ToInsert(i) => Awaited(i) /\ collections[i[1]] # NoCollection

\* A step that moves no row and starts no insert, and excuses what it no longer
\* cleans up.
LEMMA ItemsKept ==
    ASSUME TypeOK, ItemInv,
           items' \subseteq Collections \X Engrams,
           \A c \in Collections : collections[c] # NoCollection =>
             collections'[c] # NoCollection /\ collections'[c].project = collections[c].project,
           \A e \in Engrams : engrams'[e].project = engrams[e].project,
           \A i \in items' : i \in items \/ ToInsert(i),
           \A i \in Collections \X Engrams : ToInsert(i)' => ToInsert(i),
           \A i \in excused : i \in items' \/ ToInsert(i)' => i \in excused',
           \A i \in items' : Cleaning(i[2]) # {} => InPlace(i)'
    PROVE  ItemInv'
<1>1. ASSUME NEW i \in Collections \X Engrams, Awaited(i), collections[i[1]] # NoCollection,
             i \in items' \/ ToInsert(i)'
      PROVE  Awaited(i)' /\ collections'[i[1]] # NoCollection
  <2>1. collections'[i[1]] # NoCollection /\ collections'[i[1]].project = collections[i[1]].project
        /\ engrams'[i[2]].project = engrams[i[2]].project
    BY <1>1
  <2>2. CASE Local(i[1], i[2])
    BY <2>1, <2>2 DEF Local, Awaited
  <2>3. CASE i \in excused
    BY <1>1, <2>1, <2>3 DEF Awaited
  <2> QED BY <1>1, <2>2, <2>3 DEF Awaited
<1>2. ASSUME NEW i \in items'
      PROVE  InPlace(i)' /\ collections'[i[1]] # NoCollection
  <2>1. i \in Collections \X Engrams /\ i[1] \in Collections
    BY <1>2
  <2>2. collections[i[1]] # NoCollection /\ InPlace(i)
    BY <1>2, <2>1 DEF ItemInv, InPlace
  <2>3. collections'[i[1]] # NoCollection
    BY <2>1, <2>2
  <2>4. CASE Cleaning(i[2]) # {}
    BY <1>2, <2>3, <2>4
  <2>5. CASE Awaited(i)
    BY <1>1, <1>2, <2>1, <2>2, <2>5 DEF InPlace
  <2> QED BY <2>2, <2>4, <2>5 DEF InPlace
<1>3. ASSUME NEW i \in Collections \X Engrams, ToInsert(i)'
      PROVE  Awaited(i)' /\ collections'[i[1]] # NoCollection
  BY <1>1, <1>3 DEF ItemInv
<1> QED BY <1>2, <1>3 DEF ItemInv

\* Requests leave each other's statements and cleanups alone.
LEMMA OthersStand ==
    ASSUME Base, NEW r \in Requests, Arrive(r) \/ Continue(r) \/ Fail(r)
    PROVE  /\ \A e \in Engrams : Cleaning(e) \ {r} \subseteq Cleaning(e)'
           /\ req'[r].pc # "add" => \A i \in Collections \X Engrams : ToInsert(i)' => ToInsert(i)
<1>1. \A x \in Requests \ {r} : req'[x] = req[x]
  BY OneRequest
<1> QED BY <1>1 DEF Cleaning, ToInsert

\* The items an engram waits for, as the moves see them.
LEMMA PendingExcused ==
    ASSUME NEW i \in Collections \X Engrams, ToInsert(i)
    PROVE  i \in BeingAdded(i[2])
<1>1. PICK r \in Requests : req[r].pc = "add" /\ i[1] = req[r].collection /\ i[2] \in req[r].engrams
  BY DEF ToInsert
<1>2. i = <<req[r].collection, i[2]>>
  BY <1>1
<1> QED BY <1>1, <1>2 DEF BeingAdded

LEMMA AddItems ==
    ASSUME Base, Base', ItemInv, NEW r \in Requests, NEW c \in Collections, NEW es \in SUBSET Engrams,
           AddCollectionItems(r, c, es)
    PROVE  ItemInv'
<1> USE DEF Rows
<1>0. TypeOK
  BY DEF Base
<1>1. /\ UNCHANGED <<engrams, collections, items, excused>> /\ req[r] = Idle
      /\ collections[c] # NoCollection
      /\ req'[r] = [pc |-> "add", collection |-> c, engrams |-> Joinable(c, es)]
      /\ \A x \in Requests \ {r} : req'[x] = req[x]
  BY <1>0 DEF AddCollectionItems, TypeOK
<1>2. \A e \in Engrams : Cleaning(e) \subseteq Cleaning(e)'
  BY <1>1 DEF Cleaning, Idle
<1>3. ASSUME NEW i \in items PROVE InPlace(i)' /\ collections'[i[1]] # NoCollection
  <2>1. i[2] \in Engrams
    BY <1>0, <1>3 DEF TypeOK
  <2>2. InPlace(i) /\ collections[i[1]] # NoCollection
    BY <1>3 DEF ItemInv
  <2> QED BY <1>1, <1>2, <2>1, <2>2 DEF InPlace, Awaited, Local
<1>4. ASSUME NEW i \in Collections \X Engrams, ToInsert(i)' PROVE Awaited(i)' /\ collections'[i[1]] # NoCollection
  <2>1. CASE ToInsert(i)
    BY <1>1, <1>4, <2>1 DEF ItemInv, Awaited, Local
  <2>2. CASE ~ ToInsert(i)
    <3>1. req'[r].pc = "add" /\ i[1] = req'[r].collection /\ i[2] \in req'[r].engrams
      BY <1>1, <1>4, <2>2 DEF ToInsert
    <3>2. i[1] = c /\ i[2] \in Joinable(c, es)
      BY <1>1, <3>1
    <3>3. Local(i[1], i[2])
      BY <3>2 DEF Joinable
    <3> QED BY <1>1, <3>2, <3>3 DEF Awaited, Local
  <2> QED BY <2>1, <2>2
<1> QED BY <1>1, <1>3, <1>4 DEF ItemInv

LEMMA MoveItems ==
    ASSUME Base, ItemInv, NEW r \in Requests, MoveRow(r), ~ Finish(r)
    PROVE  ItemInv'
<1>0. TypeOK
  BY DEF Base
<1>e. PICK e \in Engrams : e = req[r].engram
  BY <1>0, RequestShape DEF MoveRow, Moving
<1>1. /\ req[r] \in Moving /\ req[r].pc = "move"
      /\ engrams' = [engrams EXCEPT ![e].project = req[r].target]
      /\ excused' = excused \cup BeingAdded(e) /\ UNCHANGED <<collections, items>>
      /\ Goto(r, "cleanup")
  BY <1>0, <1>e, RequestShape DEF MoveRow
<1>2. req'[r].pc = "cleanup" /\ req'[r].engram = e
  <2>1. req' = [req EXCEPT ![r] = [req[r] EXCEPT !.pc = "cleanup"]]
    BY <1>0, <1>1, RequestGoto
  <2>2. [req[r] EXCEPT !.pc = "cleanup"].pc = "cleanup" /\ [req[r] EXCEPT !.pc = "cleanup"].engram = e
    BY <1>1, <1>e DEF Moving
  <2> QED BY <1>0, <2>1, <2>2 DEF TypeOK
<1>3. r \in Cleaning(e)'
  BY <1>2 DEF Cleaning
<1>4. /\ \A x \in Engrams : Cleaning(x) \subseteq Cleaning(x)'
      /\ \A i \in Collections \X Engrams : ToInsert(i)' => ToInsert(i)
  <2>1. \A x \in Engrams : Cleaning(x) \ {r} \subseteq Cleaning(x)'
    BY OthersStand DEF Continue
  <2>2. \A x \in Engrams : r \notin Cleaning(x)
    BY <1>1 DEF Cleaning
  <2>3. \A i \in Collections \X Engrams : ToInsert(i)' => ToInsert(i)
    BY <1>2, OthersStand DEF Continue
  <2> QED BY <2>1, <2>2, <2>3
<1>5. \A x \in Engrams \ {e} : engrams'[x] = engrams[x]
  BY <1>0, <1>1 DEF TypeOK
<1>6. ASSUME NEW i \in items PROVE InPlace(i)' /\ collections'[i[1]] # NoCollection
  <2>1. i[2] \in Engrams
    BY <1>0, <1>6 DEF TypeOK
  <2>2. InPlace(i) /\ collections[i[1]] # NoCollection
    BY <1>6 DEF ItemInv
  <2>3. CASE i[2] = e
    <3>1. Cleaning(i[2])' # {}
      BY <1>3, <2>3
    <3> QED BY <1>1, <2>2, <3>1 DEF InPlace
  <2>4. CASE i[2] # e
    BY <1>1, <1>4, <1>5, <2>1, <2>2, <2>4 DEF InPlace, Awaited, Local
  <2> QED BY <2>3, <2>4
<1>7. ASSUME NEW i \in Collections \X Engrams, ToInsert(i)' PROVE Awaited(i)' /\ collections'[i[1]] # NoCollection
  <2>1. ToInsert(i) /\ Awaited(i) /\ collections[i[1]] # NoCollection
    BY <1>4, <1>7 DEF ItemInv
  <2>2. CASE i[2] = e
    <3>1. i \in BeingAdded(e)
      BY <2>1, <2>2, PendingExcused
    <3> QED BY <1>1, <2>1, <3>1 DEF Awaited
  <2>3. CASE i[2] # e
    BY <1>1, <1>5, <2>1, <2>3 DEF Awaited, Local
  <2> QED BY <2>2, <2>3
<1> QED BY <1>1, <1>6, <1>7 DEF ItemInv

\* A cleanup that is over has removed its strays or excuses them.
LEMMA CleanedItems ==
    ASSUME Base, ItemInv, NEW r \in Requests, req[r].pc = "cleanup", Cleanup(r) \/ Fail(r)
    PROVE  ItemInv'
<1> USE DEF Rows
<1>0. TypeOK
  BY DEF Base
<1> DEFINE e == req[r].engram
<1>1. e \in Engrams /\ UNCHANGED <<engrams, collections>> /\ items' \subseteq items
  BY <1>0, RequestShape DEF Cleanup, Fail, Moving
<1>2. \/ items' = items \ Strays(e) /\ excused' = (excused \ Strays(e)) \cup BeingAdded(e)
      \/ items' = items /\ excused' = excused \cup Strays(e)
  BY DEF Cleanup, Fail
<1>3. req'[r].pc # "add"
  <2>1. ~ \E c \in Collections, es \in SUBSET Engrams : AddCollectionItems(r, c, es)
    BY DEF AddCollectionItems, Idle
  <2> QED BY <2>1, OneRequest DEF Continue
<1>4. /\ \A x \in Engrams : Cleaning(x) \ {r} \subseteq Cleaning(x)'
      /\ \A i \in Collections \X Engrams : ToInsert(i)' => ToInsert(i)
  BY <1>3, OthersStand DEF Continue
<1>5. \A x \in Engrams : x # e => r \notin Cleaning(x)
  BY DEF Cleaning
<1> HIDE DEF e
<1>6. ASSUME NEW i \in items', Cleaning(i[2]) # {} PROVE InPlace(i)'
  <2>1. i \in items /\ i[2] \in Engrams
    BY <1>0, <1>1, <1>6 DEF TypeOK
  <2>2. CASE i[2] = e
    <3>1. Local(i[1], e) \/ i \in excused'
      BY <1>2, <1>6, <2>1, <2>2 DEF Strays
    <3> QED BY <1>1, <2>2, <3>1 DEF InPlace, Awaited, Local
  <2>3. CASE i[2] # e
    BY <1>4, <1>5, <1>6, <2>1, <2>3 DEF InPlace
  <2> QED BY <2>2, <2>3
<1>7. ASSUME NEW i \in excused, i \in items' \/ ToInsert(i)' PROVE i \in excused'
  <2>1. i \in Collections \X Engrams
    BY <1>0 DEF TypeOK
  <2>2. CASE i \in Strays(e)
    <3>1. i[2] = e
      BY <2>2 DEF Strays
    <3>2. ToInsert(i)' => i \in BeingAdded(e)
      BY <1>4, <2>1, <3>1, PendingExcused
    <3> QED BY <1>2, <1>7, <2>2, <3>2
  <2>3. CASE i \notin Strays(e)
    BY <1>2, <1>7, <2>3
  <2> QED BY <2>2, <2>3
<1>8. items' \subseteq Collections \X Engrams
  BY <1>0, <1>1 DEF TypeOK
<1> QED BY <1>0, <1>1, <1>4, <1>6, <1>7, <1>8, ItemsKept

\* The other steps of a request.
LEMMA QuietItems ==
    ASSUME Base, Base', ItemInv, NEW r \in Requests, Arrive(r) \/ Continue(r) \/ Fail(r),
           ~ \E c \in Collections, es \in SUBSET Engrams : AddCollectionItems(r, c, es),
           MoveRow(r) => Finish(r), req[r].pc # "cleanup"
    PROVE  ItemInv'
<1> USE DEF Rows
<1>0. TypeOK
  BY DEF Base
<1>1. req'[r].pc # "add"
  BY OneRequest
<1>2. /\ \A x \in Engrams : Cleaning(x) \ {r} \subseteq Cleaning(x)'
      /\ \A i \in Collections \X Engrams : ToInsert(i)' => ToInsert(i)
  BY <1>1, OthersStand
<1>3. \A x \in Engrams : Cleaning(x) \subseteq Cleaning(x)'
  BY <1>2 DEF Cleaning
<1>4. CASE Arrive(r)
  <2>1. UNCHANGED <<engrams, collections, items, excused>>
    BY <1>4 DEF Arrive, UpdateEngram, MoveEngram, SetEngramVisibility
  <2> QED BY <1>0, <1>2, <1>3, <2>1, ItemsKept DEF TypeOK, InPlace
<1>5. CASE Continue(r) \/ Fail(r)
  <2>1. MoveRow(r) => UNCHANGED <<engrams, excused>>
    <3>1. SUFFICES ASSUME MoveRow(r), Goto(r, "cleanup") PROVE FALSE
      BY DEF MoveRow
    <3>2. req'[r].pc = "idle"
      BY <1>0, <3>1 DEF Finish, Idle, TypeOK
    <3>3. req[r] \in Moving
      BY <1>0, <3>1, RequestShape DEF MoveRow
    <3>4. [req[r] EXCEPT !.pc = "cleanup"].pc = "cleanup"
      BY <3>3 DEF Moving
    <3>5. req' = [req EXCEPT ![r] = [req[r] EXCEPT !.pc = "cleanup"]]
      BY <1>0, <3>1, RequestGoto
    <3> QED BY <1>0, <3>2, <3>4, <3>5 DEF TypeOK
  <2>2. UNCHANGED <<collections, excused>>
    BY <1>5, <2>1 DEF Continue, Fail, ReadForUpdate, WriteUpdate, DeleteSources, InsertSources, Resolve, MoveRow,
         Cleanup, Reread, CanShareEngram, ShareRow, CommitItems
  <2>3. ASSUME NEW e \in Engrams PROVE engrams'[e].project = engrams[e].project
    <3>1. \/ UNCHANGED engrams
          \/ engrams' = [engrams EXCEPT ![req[r].engram].scope = req[r].scope]
      BY <1>5, <2>1 DEF Continue, Fail, ReadForUpdate, WriteUpdate, DeleteSources, InsertSources, Resolve, MoveRow,
           Cleanup, Reread, CanShareEngram, ShareRow, CommitItems
    <3> QED BY <1>0, <3>1 DEF TypeOK, EngramRecords
  <2>4. ASSUME NEW i \in items' PROVE i \in items \/ ToInsert(i)
    <3>1. CASE CommitItems(r)
      BY <2>4, <3>1 DEF CommitItems, ToInsert
    <3>2. CASE ~ CommitItems(r)
      BY <1>5, <2>4, <3>2 DEF Continue, Fail, ReadForUpdate, WriteUpdate, DeleteSources, InsertSources, Resolve,
           MoveRow, Cleanup, Reread, CanShareEngram, ShareRow
    <3> QED BY <3>1, <3>2
  <2>5. items' \subseteq Collections \X Engrams
    BY DEF Base, TypeOK
  <2>6. \A i \in items' : Cleaning(i[2]) # {} => InPlace(i)'
    BY <1>3, <2>5 DEF InPlace
  <2> QED BY <1>0, <1>2, <2>2, <2>3, <2>4, <2>5, <2>6, ItemsKept
<1> QED BY <1>4, <1>5

\* The operations of one statement.
LEMMA OtherItems ==
    ASSUME Base, ItemInv, Next, ~ \E r \in Requests : Arrive(r) \/ Continue(r) \/ Fail(r)
    PROVE  ItemInv'
<1>0. TypeOK /\ req' = req
  BY OtherBase DEF Base
<1>1. /\ \A e \in Engrams : Cleaning(e)' = Cleaning(e) /\ BeingAdded(e)' = BeingAdded(e)
      /\ \A i \in Collections \X Engrams : ToInsert(i)' = ToInsert(i)
  BY <1>0 DEF Cleaning, ToInsert, BeingAdded
<1>2. items' \subseteq items
  BY DEF Next, DeleteEngram, RestoreEngram, CreateCollection, DeleteCollection, RemoveCollectionItem
<1>3. \A e \in Engrams : engrams'[e].project = engrams[e].project
  <2>1. ASSUME NEW x \in Engrams, DeleteEngram(x) \/ RestoreEngram(x)
        PROVE  \A e \in Engrams : engrams'[e].project = engrams[e].project
    BY <1>0, <2>1 DEF DeleteEngram, RestoreEngram, TypeOK, EngramRecords
  <2>2. CASE UNCHANGED engrams
    BY <2>2
  <2> QED BY <2>1, <2>2 DEF Next, CreateCollection, DeleteCollection, RemoveCollectionItem
<1>4. ASSUME NEW c \in Collections, collections[c] # NoCollection
      PROVE  collections'[c] # NoCollection /\ collections'[c].project = collections[c].project
  <2>1. CASE UNCHANGED collections
    BY <1>4, <2>1
  <2>2. ASSUME NEW x \in Collections, NEW p \in Projects, CreateCollection(x, p)
        PROVE  UNCHANGED collections[c]
    BY <1>0, <1>4, <2>2 DEF CreateCollection, TypeOK
  <2>3. ASSUME NEW x \in Collections, DeleteCollection(x)
        PROVE  collections'[c] # NoCollection /\ collections'[c].project = collections[c].project
    <3>1. PICK q \in CollectionRecords : q = collections[c]
      BY <1>0, <1>4 DEF TypeOK
    <3>2. collections'[c] = q \/ collections'[c] = [q EXCEPT !.deleted = TRUE]
      BY <1>0, <2>3, <3>1 DEF DeleteCollection, TypeOK
    <3>3. [q EXCEPT !.deleted = TRUE].project = q.project /\ [q EXCEPT !.deleted = TRUE].exists
      BY DEF CollectionRecords
    <3>4. [q EXCEPT !.deleted = TRUE] # NoCollection
      BY <3>3 DEF NoCollection
    <3> QED BY <1>4, <3>1, <3>2, <3>3, <3>4
  <2> QED BY <1>4, <2>1, <2>2, <2>3 DEF Next, DeleteEngram, RestoreEngram, RemoveCollectionItem
<1>5. ASSUME NEW i \in excused, i \in items' \/ ToInsert(i)' PROVE i \in excused'
  <2>1. CASE UNCHANGED excused
    BY <1>5, <2>1
  <2>2. ASSUME NEW c \in Collections, NEW e \in Engrams, RemoveCollectionItem(c, e) PROVE i \in excused'
    <3>1. items' = items \ {<<c, e>>} /\ excused' = excused \ ({<<c, e>>} \ BeingAdded(e))
      BY <2>2 DEF RemoveCollectionItem
    <3>2. CASE i = <<c, e>>
      <4>1. i[2] = e /\ i \in Collections \X Engrams
        BY <3>2
      <4>2. ToInsert(i)
        BY <1>1, <1>5, <3>1, <3>2, <4>1
      <4>3. i \in BeingAdded(e)
        BY <4>1, <4>2, PendingExcused
      <4> QED BY <1>5, <3>1, <4>3
    <3>3. CASE i # <<c, e>>
      BY <1>5, <3>1, <3>3
    <3> QED BY <3>2, <3>3
  <2> QED BY <2>1, <2>2 DEF Next, DeleteEngram, RestoreEngram, CreateCollection, DeleteCollection
<1>6. \A i \in items' : Cleaning(i[2]) # {} => InPlace(i)'
  BY <1>0, <1>1, <1>2 DEF InPlace, TypeOK
<1> QED BY <1>0, <1>1, <1>2, <1>3, <1>4, <1>5, <1>6, ItemsKept DEF TypeOK

LEMMA ItemStep == Base /\ ItemInv /\ [Next]_vars => ItemInv'
<1> SUFFICES ASSUME Base, ItemInv, [Next]_vars PROVE ItemInv'
  OBVIOUS
<1>0. Base'
  BY BaseStep
<1>1. CASE UNCHANGED vars
  BY <1>1 DEF vars, ItemInv, InPlace, Awaited, Local, Cleaning, ToInsert
<1>2. ASSUME NEW r \in Requests, Arrive(r) \/ Continue(r) \/ Fail(r) PROVE ItemInv'
  <2>1. CASE req[r].pc = "cleanup"
    <3>1. Cleanup(r) \/ Fail(r)
      BY <1>2, <2>1 DEF Arrive, Continue, UpdateEngram, MoveEngram, SetEngramVisibility, AddCollectionItems, Idle,
           ReadForUpdate, WriteUpdate, DeleteSources, InsertSources, Resolve, MoveRow, Reread, CanShareEngram,
           ShareRow, CommitItems
    <3> QED BY <2>1, <3>1, CleanedItems
  <2>2. CASE MoveRow(r) /\ ~ Finish(r)
    BY <2>2, MoveItems
  <2>3. CASE \E c \in Collections, es \in SUBSET Engrams : AddCollectionItems(r, c, es)
    BY <1>0, <2>3, AddItems
  <2> QED BY <1>0, <1>2, <2>1, <2>2, <2>3, QuietItems
<1> QED BY <1>1, <1>2, OtherItems DEF Next

\* A collection holds engrams of its own project, but for the excuses that
\* ItemsLocal lists, whatever moves, inserts and failures overlap.
THEOREM ItemsAreLocal == Spec => []ItemsLocal
<1>1. Init => ItemInv
  BY DEF Init, ItemInv, ToInsert, Idle
<1>2. ItemInv => ItemsLocal
  BY DEF ItemInv, ItemsLocal, InPlace, Awaited, Cleaning
<1> QED BY <1>1, <1>2, ItemStep, BaseAlways, PTL DEF Spec
==============================================================================
