----------------------------- MODULE EngramAdmin -----------------------------
(***************************************************************************)
(* Memory administration: the engram and collection operations of          *)
(* internal/admin/service.go and internal/projects/service_visibility.go   *)
(* over internal/repository (admin_engram.go, admin_engram_update.go,      *)
(* engram_share.go, collection.go).                                        *)
(*                                                                         *)
(* A request is a sequence of SQL statements without a transaction, one    *)
(* step each, and each takes a connection of the pool for itself.          *)
(* MoveAdminEngramProject is the exception: it keeps the connection of its *)
(* cleanup while its last statement takes another one.                     *)
(*                                                                         *)
(* The comparison with expected_updated_at belongs to the first statement  *)
(* of an update or a move and is not repeated by the UPDATE.  A request    *)
(* that fails it changes nothing and is left out, so no timestamp is part  *)
(* of the state.  Titles, abstracts, tags, embeddings, collection names    *)
(* and who did it are left out: no guard of these operations reads them.   *)
(***************************************************************************)
EXTENDS Naturals, FiniteSets

CONSTANTS
    Engrams, Collections, Projects,
    Requests,       \* requests in flight at the same time
    PoolSize        \* connections of the pgx pool

ASSUME PoolAssumption == PoolSize \in Nat /\ IsFiniteSet(Requests)

VARIABLES
    engrams,        \* engrams: project_id, visibility_scope, deleted_at
    sources,        \* sources: how many submitted lists an engram has rows of
    collections,    \* engram_collections: project_id, deleted_at
    items,          \* engram_collection_items
    req,            \* the requests
    held,           \* connections kept from one statement to the next
    excused         \* history: items that an interrupted or overtaken
                    \* statement may leave outside their collection's project

vars == <<engrams, sources, collections, items, req, held, excused>>

Scopes == {"private", "project"}
Keep == "keep"
NoCollection == [exists |-> FALSE]
Idle == [pc |-> "idle"]

EngramRecords == [project : Projects, scope : Scopes, deleted : BOOLEAN]
CollectionRecords == [exists : {TRUE}, project : Projects, deleted : BOOLEAN]
RequestRecords ==
         [pc : {"read", "write", "clear", "insert"}, engram : Engrams,
          scope : Scopes \cup {Keep}, sources : BOOLEAN]
    \cup [pc : {"resolve", "move", "cleanup", "reread"}, engram : Engrams, target : Projects]
    \cup [pc : {"role", "share"}, engram : Engrams, scope : Scopes]
    \cup [pc : {"add"}, collection : Collections, engrams : SUBSET Engrams]

------------------------------------------------------------------------------

\* A statement gets a connection of the pool.
Connected == Cardinality(held) < PoolSize

Goto(r, pc) == req' = [req EXCEPT ![r].pc = pc]
Release(r) == held' = {h \in held : h[1] # r}
\* The request ends; deferred Close calls give its connections back.
Finish(r) == req' = [req EXCEPT ![r] = Idle] /\ Release(r)

Local(c, e) == engrams[e].project = collections[c].project

\* The row of a request's engram, for an UPDATE that asks for deleted_at IS NULL.
Present(r) == ~engrams[req[r].engram].deleted

\* The items of an engram that statements under way are about to insert.
BeingAdded(e) ==
    {<<req[r].collection, e>> : r \in {r \in Requests : req[r].pc = "add" /\ e \in req[r].engrams}}

Rows == <<engrams, sources, collections, items>>

Init ==
    /\ engrams \in [Engrams -> [project : Projects, scope : Scopes, deleted : {FALSE}]]
    /\ sources = [e \in Engrams |-> 0]
    /\ collections = [c \in Collections |-> NoCollection]
    /\ items = {}
    /\ req = [r \in Requests |-> Idle]
    /\ held = {}
    /\ excused = {}

------------------------------------------------------------------------------
(* UpdateEngram.                                                           *)

\* GetEngram and the comparison with expected_updated_at.
UpdateEngram(r, e, scope, withSources) ==
    /\ req[r] = Idle /\ Connected
    /\ ~engrams[e].deleted
    /\ req' = [req EXCEPT ![r] =
         [pc |-> "read", engram |-> e, scope |-> scope, sources |-> withSources]]
    /\ UNCHANGED <<Rows, held, excused>>

\* UpdateAdminEngram reads the row again and fills in what the payload leaves
\* out (buildAdminEngramUpdateFields), the visibility scope among it.
ReadForUpdate(r) ==
    /\ req[r].pc = "read" /\ Connected
    /\ \/ Present(r)
          /\ req' = [req EXCEPT ![r].pc = "write",
                                ![r].scope = IF @ = Keep THEN engrams[req[r].engram].scope ELSE @]
          /\ UNCHANGED held
       \/ ~Present(r) /\ Finish(r)
    /\ UNCHANGED <<Rows, excused>>

\* Mutant of WriteUpdate: the UPDATE trusts the read.
WriteUpdateAsRead(r) ==
    /\ req[r].pc = "write" /\ Connected
    /\ engrams' = [engrams EXCEPT ![req[r].engram].scope = req[r].scope]
    /\ IF req[r].sources THEN Goto(r, "clear") /\ UNCHANGED held ELSE Finish(r)
    /\ UNCHANGED <<sources, collections, items, excused>>

\* updateAdminEngramRecord writes every field, as read or as given.
WriteUpdate(r) ==
    /\ req[r].pc = "write" /\ Connected
    /\ \/ /\ Present(r)
          /\ engrams' = [engrams EXCEPT ![req[r].engram].scope = req[r].scope]
          /\ IF req[r].sources THEN Goto(r, "clear") /\ UNCHANGED held ELSE Finish(r)
       \/ ~Present(r) /\ Finish(r) /\ UNCHANGED engrams
    /\ UNCHANGED <<sources, collections, items, excused>>

\* Mutant of DeleteSources: the old rows stay.
DeleteNoSources(r) ==
    /\ req[r].pc = "clear" /\ Connected
    /\ Goto(r, "insert")
    /\ UNCHANGED <<Rows, held, excused>>

\* deleteAdminEngramSources
DeleteSources(r) ==
    /\ req[r].pc = "clear" /\ Connected
    /\ sources' = [sources EXCEPT ![req[r].engram] = 0]
    /\ Goto(r, "insert")
    /\ UNCHANGED <<engrams, collections, items, held, excused>>

\* insertAdminEngramSources: one INSERT for each source of the list, up to the
\* last one or the first that fails; a list of which any row is there counts.
\* A DELETE that comes between them takes the rows before it and leaves those
\* after it: the list counts as inserted after the DELETE.
InsertSources(r) ==
    /\ req[r].pc = "insert" /\ Connected
    /\ sources' = [sources EXCEPT ![req[r].engram] = @ + 1]
    /\ Finish(r)
    /\ UNCHANGED <<engrams, collections, items, excused>>

------------------------------------------------------------------------------
(* MoveEngram.                                                             *)

\* GetEngram and the comparison with expected_updated_at.
MoveEngram(r, e, p) ==
    /\ req[r] = Idle /\ Connected
    /\ ~engrams[e].deleted
    /\ req' = [req EXCEPT ![r] = [pc |-> "resolve", engram |-> e, target |-> p]]
    /\ UNCHANGED <<Rows, held, excused>>

\* resolveProjectIDForWrite (ProjectAccess): the target is granted or not.
Resolve(r) ==
    /\ req[r].pc = "resolve" /\ Connected
    /\ \/ Goto(r, "move") /\ UNCHANGED held
       \/ Finish(r)
    /\ UNCHANGED <<Rows, excused>>

\* Mutant of MoveRow: the UPDATE's connection is kept as well.
MoveRowKeepsConnection(r) ==
    /\ req[r].pc = "move" /\ Connected
    /\ \/ /\ Present(r)
          /\ engrams' = [engrams EXCEPT ![req[r].engram].project = req[r].target]
          /\ Goto(r, "cleanup")
          /\ held' = held \cup {<<r, "move">>}
          /\ excused' = excused \cup BeingAdded(req[r].engram)
       \/ ~Present(r) /\ Finish(r) /\ UNCHANGED <<engrams, excused>>
    /\ UNCHANGED <<sources, collections, items>>

\* MoveAdminEngramProject: the UPDATE.
MoveRow(r) ==
    /\ req[r].pc = "move" /\ Connected
    /\ \/ /\ Present(r)
          /\ engrams' = [engrams EXCEPT ![req[r].engram].project = req[r].target]
          /\ Goto(r, "cleanup")
          /\ excused' = excused \cup BeingAdded(req[r].engram)
          /\ UNCHANGED held
       \/ ~Present(r) /\ Finish(r) /\ UNCHANGED <<engrams, excused>>
    /\ UNCHANGED <<sources, collections, items>>

Strays(e) == {i \in items : i[2] = e /\ ~Local(i[1], e)}

\* Its DELETE of the items in other projects' collections.  The rows are not
\* read before Err is asked, so an error of the DELETE goes unnoticed, and
\* they are closed only when the function returns.
Cleanup(r) ==
    /\ req[r].pc = "cleanup" /\ Connected
    /\ held' = held \cup {<<r, "cleanup">>}
    /\ Goto(r, "reread")
    /\ \/ /\ items' = items \ Strays(req[r].engram)
          /\ excused' = (excused \ Strays(req[r].engram)) \cup BeingAdded(req[r].engram)
       \/ excused' = excused \cup Strays(req[r].engram) /\ UNCHANGED items
    /\ UNCHANGED <<engrams, sources, collections>>

\* Its last statement, GetAdminEngram, on a second connection.
Reread(r) ==
    /\ req[r].pc = "reread" /\ Connected
    /\ Finish(r)
    /\ UNCHANGED <<Rows, excused>>

------------------------------------------------------------------------------
(* ShareEngram and UnshareEngram.                                          *)

\* getEngramShareRecord
SetEngramVisibility(r, e, scope) ==
    /\ req[r] = Idle /\ Connected
    /\ ~engrams[e].deleted
    /\ req' = [req EXCEPT ![r] = [pc |-> "role", engram |-> e, scope |-> scope]]
    /\ UNCHANGED <<Rows, held, excused>>

\* canShareEngram: allowed or refused by the actor's role in the project.
CanShareEngram(r) ==
    /\ req[r].pc = "role" /\ Connected
    /\ \/ Goto(r, "share") /\ UNCHANGED held
       \/ Finish(r)
    /\ UNCHANGED <<Rows, excused>>

\* updateEngramVisibility; the audit row that follows is left out.
ShareRow(r) ==
    /\ req[r].pc = "share" /\ Connected
    /\ IF Present(r)
         THEN engrams' = [engrams EXCEPT ![req[r].engram].scope = req[r].scope]
         ELSE UNCHANGED engrams
    /\ Finish(r)
    /\ UNCHANGED <<sources, collections, items, excused>>

------------------------------------------------------------------------------
(* Operations of one statement.                                            *)

\* SoftDeleteEngram
DeleteEngram(e) ==
    /\ Connected
    /\ engrams' = [engrams EXCEPT ![e].deleted = TRUE]
    /\ UNCHANGED <<sources, collections, items, req, held, excused>>

\* RestoreEngram
RestoreEngram(e) ==
    /\ Connected
    /\ engrams' = [engrams EXCEPT ![e].deleted = FALSE]
    /\ UNCHANGED <<sources, collections, items, req, held, excused>>

\* CreateCollection, in the project that was resolved.
CreateCollection(c, p) ==
    /\ Connected
    /\ collections[c] = NoCollection
    /\ collections' = [collections EXCEPT ![c] = [exists |-> TRUE, project |-> p, deleted |-> FALSE]]
    /\ UNCHANGED <<engrams, sources, items, req, held, excused>>

\* SoftDeleteCollection keeps the items.
DeleteCollection(c) ==
    /\ Connected
    /\ collections[c] # NoCollection /\ ~collections[c].deleted
    /\ collections' = [collections EXCEPT ![c].deleted = TRUE]
    /\ UNCHANGED <<engrams, sources, items, req, held, excused>>

\* RemoveCollectionItem
RemoveCollectionItem(c, e) ==
    /\ Connected
    /\ <<c, e>> \in items
    /\ items' = items \ {<<c, e>>}
    /\ excused' = excused \ ({<<c, e>>} \ BeingAdded(e))
    /\ UNCHANGED <<engrams, sources, collections, req, held>>

\* Mutant of Joinable: the projects are not compared.
JoinableAnywhere(c, es) == {e \in es : ~engrams[e].deleted}

\* The rows the SELECT of AddCollectionItems joins.
Joinable(c, es) == {e \in es : ~engrams[e].deleted /\ Local(c, e)}

\* AddCollectionItems is one INSERT ... SELECT: it takes its snapshot, and
\* what it inserts is seen when it commits.
AddCollectionItems(r, c, es) ==
    /\ req[r] = Idle /\ Connected
    /\ collections[c] # NoCollection /\ ~collections[c].deleted
    /\ req' = [req EXCEPT ![r] = [pc |-> "add", collection |-> c, engrams |-> Joinable(c, es)]]
    /\ held' = held \cup {<<r, "add">>}
    /\ UNCHANGED <<Rows, excused>>

CommitItems(r) ==
    /\ req[r].pc = "add"
    /\ items' = items \cup {<<req[r].collection, e>> : e \in req[r].engrams}
    /\ Finish(r)
    /\ UNCHANGED <<engrams, sources, collections, excused>>

------------------------------------------------------------------------------

\* A statement fails, the client leaves or the process goes down.
Fail(r) ==
    /\ req[r] # Idle
    /\ excused' = IF req[r].pc = "cleanup" THEN excused \cup Strays(req[r].engram) ELSE excused
    /\ Finish(r)
    /\ UNCHANGED Rows

Continue(r) ==
    \/ ReadForUpdate(r) \/ WriteUpdate(r) \/ DeleteSources(r) \/ InsertSources(r)
    \/ Resolve(r) \/ MoveRow(r) \/ Cleanup(r) \/ Reread(r)
    \/ CanShareEngram(r) \/ ShareRow(r) \/ CommitItems(r)

Arrive(r) ==
    \/ \E e \in Engrams, scope \in Scopes \cup {Keep}, s \in BOOLEAN : UpdateEngram(r, e, scope, s)
    \/ \E e \in Engrams, p \in Projects : MoveEngram(r, e, p)
    \/ \E e \in Engrams, scope \in Scopes : SetEngramVisibility(r, e, scope)
    \/ \E c \in Collections, es \in SUBSET Engrams \ {{}} : AddCollectionItems(r, c, es)

Next ==
    \/ \E r \in Requests : Arrive(r) \/ Continue(r) \/ Fail(r)
    \/ \E e \in Engrams : DeleteEngram(e) \/ RestoreEngram(e)
    \/ \E c \in Collections, p \in Projects : CreateCollection(c, p)
    \/ \E c \in Collections : DeleteCollection(c)
    \/ \E c \in Collections, e \in Engrams : RemoveCollectionItem(c, e)

Spec == Init /\ [][Next]_vars

\* A request under way goes on to its next statement.  It may have to wait for a
\* connection, which others take and give back meanwhile; the pool serves those
\* who wait in the order in which they came, so it gets one in the end.
FairSpec == Spec /\ \A r \in Requests : SF_vars(Continue(r))

------------------------------------------------------------------------------
(* Properties.                                                             *)

\* Rows, requests and kept connections are well formed, and the pool is never
\* overdrawn.
TypeOK ==
    /\ engrams \in [Engrams -> EngramRecords]
    /\ sources \in [Engrams -> Nat]
    /\ collections \in [Collections -> CollectionRecords \cup {NoCollection}]
    /\ items \subseteq Collections \X Engrams
    /\ excused \subseteq Collections \X Engrams
    /\ req \in [Requests -> RequestRecords \cup {Idle}]
    /\ held \subseteq Requests \X {"cleanup", "add"}
    /\ Cardinality(held) <= PoolSize

\* A collection holds engrams of its own project only, except between the two
\* statements of a move, after a cleanup that failed or never ran, and for an
\* insert that a move overtook.
ItemsLocal ==
    \A i \in items :
        \/ Local(i[1], i[2])
        \/ i \in excused
        \/ \E r \in Requests : req[r].pc = "cleanup" /\ req[r].engram = i[2]

\* A deleted engram keeps its project and visibility, whatever updates, moves
\* and shares were under way when it was deleted.
DeletedEngramFrozen ==
    [][\A e \in Engrams :
          engrams[e].deleted =>
             engrams'[e].project = engrams[e].project /\ engrams'[e].scope = engrams[e].scope]_vars

\* Overlapping updates may leave the source lists of several of them, but
\* never more lists than there are requests at a time.
SourceListsBounded ==
    \A e \in Engrams :
        sources[e] + Cardinality({r \in Requests : req[r].pc = "insert" /\ req[r].engram = e})
            <= Cardinality(Requests)

\* Every connection of the pool is kept by a move that waits for a second one.
PoolExhausted == Cardinality({r \in Requests : req[r].pc = "reread"}) >= PoolSize

\* Every request ends, however many of them wait for connections, unless so many
\* moves reach their last statement at the same time that they keep the whole
\* pool and wait for each other: nothing else makes a request wait for good.
RequestsEnd == \A r \in Requests : req[r] # Idle ~> req[r] = Idle \/ PoolExhausted
==============================================================================
