---------------------------- MODULE CurationProofs ----------------------------
(***************************************************************************)
(* Proofs about Curation and LinkHygiene, for any pairs, titles and links  *)
(* in any order, any number of requests at a time and of suggestions, any  *)
(* page size and any bound on how often a record is opened.                *)
(***************************************************************************)
EXTENDS Curation, FiniteSetTheorems, TLAPS

------------------------------------------------------------------------------
(* Shapes.                                                                 *)

Getting == [pc : {"get"}, pending : SUBSET Links]
Reinforcing == [pc : {"update"}, pending : SUBSET Links, link : Links, activates : BOOLEAN]
Recommending == [pc : {"recommend"}]
Archiving == [pc : {"archive"}, stale : SUBSET Links, pending : SUBSET Links]
Suggesting == [pc : {"keys", "create"}, pending : SUBSET Links, scheduled : BOOLEAN]
Refreshing == [pc : {"upsert", "page"}, kind : {"contradiction", "consolidate"},
               pending : SUBSET Detected, offset : Nat, more : BOOLEAN]
Applying == [pc : {"effect", "mark"}, row : Ids, subject : Subjects]

AnyRequest == RequestRecords \cup LinkRequests \cup {Idle}


\* The record of a request, by where it is.
LEMMA RequestShape ==
    ASSUME TypeOK, NEW r \in Requests
    PROVE  /\ req[r].pc = "get" => req[r] \in Getting
           /\ req[r].pc = "update" => req[r] \in Reinforcing
           /\ req[r].pc = "recommend" => req[r] \in Recommending
           /\ req[r].pc = "archive" => req[r] \in Archiving
           /\ req[r].pc \in {"keys", "create"} => req[r] \in Suggesting
           /\ req[r].pc \in {"upsert", "page"} => req[r] \in Refreshing
           /\ req[r].pc \in {"effect", "mark"} => req[r] \in Applying
           /\ req[r].pc = "idle" => req[r] = Idle
<1>1. PICK q \in Getting \cup Reinforcing \cup Recommending \cup Archiving \cup Suggesting
                 \cup Refreshing \cup Applying \cup {Idle} : q = req[r]
  BY DEF TypeOK, RequestRecords, LinkRequests, Getting, Reinforcing, Recommending, Archiving, Suggesting,
         Refreshing, Applying
<1>2. CASE q \in Getting
  BY <1>1, <1>2 DEF Getting
<1>3. CASE q \in Reinforcing
  BY <1>1, <1>3 DEF Reinforcing
<1>4. CASE q \in Recommending
  BY <1>1, <1>4 DEF Recommending
<1>5. CASE q \in Archiving
  BY <1>1, <1>5 DEF Archiving
<1>6. CASE q \in Suggesting
  BY <1>1, <1>6 DEF Suggesting
<1>7. CASE q \in Refreshing
  BY <1>1, <1>7 DEF Refreshing
<1>8. CASE q \in Applying
  BY <1>1, <1>8 DEF Applying
<1>9. CASE q = Idle
  BY <1>1, <1>9 DEF Idle
<1> QED BY <1>1, <1>2, <1>3, <1>4, <1>5, <1>6, <1>7, <1>8, <1>9

LEMMA ShapesAreRequests ==
    Getting \cup Reinforcing \cup Recommending \cup Archiving \cup Suggesting \cup Refreshing \cup Applying
      \cup {Idle} = AnyRequest
BY DEF AnyRequest, RequestRecords, LinkRequests, Getting, Reinforcing, Recommending, Archiving, Suggesting,
       Refreshing, Applying

\* The step gives request r the record n and leaves the others alone.
Becomes(r, n) ==
    /\ n \in AnyRequest /\ req'[r] = n
    /\ \A x \in Requests \ {r} : req'[x] = req[x]
    /\ req' \in [Requests -> AnyRequest]

LEMMA RequestSet ==
    ASSUME TypeOK, NEW r \in Requests, NEW n \in AnyRequest, req' = [req EXCEPT ![r] = n]
    PROVE  Becomes(r, n)
BY DEF Becomes, TypeOK, AnyRequest

------------------------------------------------------------------------------
(* The records requests get.                                               *)

LEMMA Starts ==
    ASSUME TypeOK, NEW r \in Requests, NEW n \in AnyRequest, Begin(r, n)
    PROVE  req[r] = Idle /\ Becomes(r, n)
BY RequestSet DEF Begin

LEMMA Ends ==
    ASSUME TypeOK, NEW r \in Requests, End(r)
    PROVE  Becomes(r, Idle)
BY RequestSet, ShapesAreRequests DEF End

LEMMA GetLinkRequest ==
    ASSUME TypeOK, NEW r \in Requests, NEW l \in Links, GetLink(r, l)
    PROVE  /\ req[r].pc = "get"
           /\ \/ \E n \in Getting : Becomes(r, n)
              \/ \E n \in Reinforcing : /\ Becomes(r, n) /\ n.link = l
                                        /\ n.activates => links[l] = "suggested"
<1>1. req[r] \in Getting /\ req[r].pc = "get"
  BY RequestShape DEF GetLink
<1> DEFINE rest == req[r].pending \ {l}
           acts == links[l] = "suggested"
<1>2. rest \in SUBSET Links
  BY <1>1 DEF Getting
<1>3. CASE LinkIsReinforceable(links[l])
  <2> DEFINE n == [pc |-> "update", pending |-> rest, link |-> l, activates |-> acts]
  <2>1. n \in Reinforcing /\ n.link = l /\ (n.activates => acts)
    <3>1. acts \in BOOLEAN
      OBVIOUS
    <3> HIDE DEF acts, rest
    <3> QED BY <1>2, <3>1 DEF Reinforcing
  <2>2. req' = [req EXCEPT ![r] = n]
    BY <1>3 DEF GetLink, StatusForReinforcedLink
  <2> HIDE DEF n
  <2>3. Becomes(r, n)
    BY <2>1, <2>2, RequestSet, ShapesAreRequests
  <2> QED BY <1>1, <2>1, <2>3
<1>4. CASE ~ LinkIsReinforceable(links[l])
  <2> DEFINE n == [pc |-> "get", pending |-> rest]
  <2>1. n \in Getting
    BY <1>2 DEF Getting
  <2>2. req' = [req EXCEPT ![r] = n]
    BY <1>4 DEF GetLink
  <2> HIDE DEF n
  <2> QED BY <1>1, <2>1, <2>2, RequestSet, ShapesAreRequests
<1> QED BY <1>3, <1>4

LEMMA UpdateLinkRequest ==
    ASSUME TypeOK, NEW r \in Requests, NEW found \in BOOLEAN, UpdateLink(r, found)
    PROVE  req[r] \in Reinforcing /\ \E n \in Getting : Becomes(r, n)
<1>1. req[r] \in Reinforcing
  BY RequestShape DEF UpdateLink
<1> DEFINE n == [pc |-> "get", pending |-> req[r].pending]
<1>2. n \in Getting
  BY <1>1 DEF Reinforcing, Getting
<1>3. req' = [req EXCEPT ![r] = n]
  BY DEF UpdateLink
<1> HIDE DEF n
<1> QED BY <1>1, <1>2, <1>3, RequestSet, ShapesAreRequests

LEMMA HygieneRequest ==
    ASSUME TypeOK, NEW r \in Requests
    PROVE  /\ StartHygiene(r) => \/ Becomes(r, Idle)
                                 \/ ~marked /\ \E n \in Recommending : Becomes(r, n)
           /\ \A stale, review \in SUBSET Links : Recommend(r, stale, review) =>
                req[r].pc = "recommend" /\ \E n \in Archiving : Becomes(r, n)
           /\ \A l \in Links, found \in BOOLEAN : ArchiveStale(r, l, found) =>
                req[r].pc = "archive" /\ \E n \in Archiving : Becomes(r, n)
           /\ Persist(r) => req[r].pc = "archive" /\ \E n \in Suggesting : n.pc = "keys" /\ Becomes(r, n)
<1>1. ASSUME StartHygiene(r) PROVE Becomes(r, Idle) \/ (~marked /\ \E n \in Recommending : Becomes(r, n))
  <2>1. [pc |-> "recommend"] \in Recommending
    BY DEF Recommending
  <2> QED BY <1>1, <2>1, Ends, RequestSet, ShapesAreRequests DEF StartHygiene, ShouldRun
<1>2. ASSUME NEW stale \in SUBSET Links, NEW review \in SUBSET Links, Recommend(r, stale, review)
      PROVE  req[r].pc = "recommend" /\ \E n \in Archiving : Becomes(r, n)
  <2>1. [pc |-> "archive", stale |-> stale, pending |-> review] \in Archiving
    BY DEF Archiving
  <2> QED BY <1>2, <2>1, RequestSet, ShapesAreRequests DEF Recommend
<1>3. ASSUME NEW l \in Links, NEW found \in BOOLEAN, ArchiveStale(r, l, found)
      PROVE  req[r].pc = "archive" /\ \E n \in Archiving : Becomes(r, n)
  <2>1. req[r] \in Archiving /\ req[r].pc = "archive"
    BY <1>3, RequestShape DEF ArchiveStale
  <2> DEFINE n == [req[r] EXCEPT !.stale = @ \ {l}]
  <2>2. n \in Archiving
    BY <2>1 DEF Archiving
  <2>3. req' = [req EXCEPT ![r] = n]
    BY <1>3 DEF ArchiveStale, TypeOK
  <2> HIDE DEF n
  <2> QED BY <2>1, <2>2, <2>3, RequestSet, ShapesAreRequests
<1>4. ASSUME Persist(r)
      PROVE  req[r].pc = "archive" /\ \E n \in Suggesting : n.pc = "keys" /\ Becomes(r, n)
  <2>1. req[r] \in Archiving /\ req[r].pc = "archive"
    BY <1>4, RequestShape DEF Persist
  <2> DEFINE n == [pc |-> "keys", pending |-> req[r].pending, scheduled |-> TRUE]
  <2>2. n \in Suggesting /\ n.pc = "keys"
    BY <2>1 DEF Archiving, Suggesting
  <2>3. req' = [req EXCEPT ![r] = n]
    BY <1>4 DEF Persist
  <2> HIDE DEF n
  <2> QED BY <2>1, <2>2, <2>3, RequestSet, ShapesAreRequests
<1> QED BY <1>1, <1>2, <1>3, <1>4

LEMMA ListKeysRequest ==
    ASSUME TypeOK, NEW r \in Requests, NEW listed, ListKeys(r, listed)
    PROVE  /\ req[r] \in Suggesting /\ req[r].pc = "keys"
           /\ \E n \in Suggesting : /\ Becomes(r, n) /\ n.pc = "create" /\ n.scheduled = req[r].scheduled
                                    /\ n.pending = {l \in req[r].pending : Suggested(l) \cap listed = {}}
<1>1. req[r] \in Suggesting /\ req[r].pc = "keys"
  BY RequestShape DEF ListKeys
<1> DEFINE kept == {l \in req[r].pending : Suggested(l) \cap listed = {}}
           n == [[req[r] EXCEPT !.pc = "create"] EXCEPT !.pending = kept]
<1>2. req' = [req EXCEPT ![r] = n]
  BY <1>1 DEF ListKeys, TypeOK, Suggesting
<1>3. kept \in SUBSET Links
  BY <1>1 DEF Suggesting
<1> HIDE DEF kept
<1>4. n \in Suggesting /\ n.pc = "create" /\ n.scheduled = req[r].scheduled /\ n.pending = kept
  BY <1>1, <1>3 DEF Suggesting
<1> HIDE DEF n
<1>5. Becomes(r, n)
  BY <1>2, <1>4, RequestSet, ShapesAreRequests
<1> QED BY <1>1, <1>4, <1>5 DEF kept

LEMMA CreateLinkRequest ==
    ASSUME TypeOK, NEW r \in Requests, NEW i \in Ids, NEW l \in Links, CreateLink(r, i, l)
    PROVE  /\ req[r] \in Suggesting /\ req[r].pc = "create" /\ l \in req[r].pending
           /\ \E n \in Suggesting : /\ Becomes(r, n) /\ n.pc = "create" /\ n.scheduled = req[r].scheduled
                                    /\ n.pending = req[r].pending \ {l}
<1>1. req[r] \in Suggesting /\ req[r].pc = "create" /\ l \in req[r].pending
  BY RequestShape DEF CreateLink
<1> DEFINE n == [req[r] EXCEPT !.pending = @ \ {l}]
<1>2. req' = [req EXCEPT ![r] = n]
  BY DEF CreateLink, TypeOK
<1>3. n \in Suggesting /\ n.pc = "create" /\ n.scheduled = req[r].scheduled /\ n.pending = req[r].pending \ {l}
  BY <1>1 DEF Suggesting
<1> HIDE DEF n
<1>4. Becomes(r, n)
  BY <1>2, <1>3, RequestSet, ShapesAreRequests
<1> QED BY <1>1, <1>3, <1>4

LEMMA EffectRequest ==
    ASSUME TypeOK, NEW r \in Requests, Effect(r) \/ EffectOnLink(r)
    PROVE  /\ req[r] \in Applying /\ req[r].pc = "effect"
           /\ \E n \in Applying : /\ Becomes(r, n) /\ n.pc = "mark" /\ n.row = req[r].row
                                  /\ n.subject = req[r].subject
<1>1. req[r] \in Applying /\ req[r].pc = "effect"
  BY RequestShape DEF Effect, EffectOnLink
<1> DEFINE n == [req[r] EXCEPT !.pc = "mark"]
<1>2. req' = [req EXCEPT ![r] = n]
  BY DEF Effect, EffectOnLink, Goto, TypeOK
<1>3. n \in Applying /\ n.pc = "mark" /\ n.row = req[r].row /\ n.subject = req[r].subject
  BY <1>1 DEF Applying
<1> HIDE DEF n
<1>4. Becomes(r, n)
  BY <1>2, <1>3, RequestSet, ShapesAreRequests
<1> QED BY <1>1, <1>3, <1>4

LEMMA LoadRequest ==
    ASSUME TypeOK, NEW r \in Requests, NEW i \in Ids, LoadForApply(r, i)
    PROVE  \E n \in Applying : Becomes(r, n) /\ n.pc = "effect" /\ n.row = i /\ n.subject = rows[i].subject
<1>1. rows[i] \in RowRecords
  BY DEF LoadForApply, Exists, TypeOK
<1>2. rows[i].subject \in Subjects
  BY <1>1 DEF RowRecords
<1> DEFINE n == [pc |-> "effect", row |-> i, subject |-> rows[i].subject]
<1>3. n \in Applying /\ n.pc = "effect" /\ n.row = i /\ n.subject = rows[i].subject
  BY <1>2 DEF Applying
<1>4. Begin(r, n)
  BY DEF LoadForApply
<1> HIDE DEF n
<1>5. Becomes(r, n)
  BY <1>3, <1>4, Starts, ShapesAreRequests
<1> QED BY <1>3, <1>5

LEMMA PageSubset ==
    ASSUME NEW k, NEW offset
    PROVE  /\ Page(k, offset) \in SUBSET Open(k) /\ Open(k) \in SUBSET Detected
           /\ IsFiniteSet(Open(k)) /\ Cardinality(Open(k)) \in Nat
           /\ IsFiniteSet(Page(k, offset)) /\ Cardinality(Page(k, offset)) \in Nat
<1>1. Page(k, offset) \in SUBSET Open(k) /\ Open(k) \in SUBSET Detected
  BY DEF Page, Open, OfKind
<1> QED BY <1>1, PositionAssumption, FS_Subset, FS_CardinalityType

LEMMA RefreshRequest ==
    ASSUME TypeOK, NEW r \in Requests, NEW k \in {"contradiction", "consolidate"}, NEW g \in SUBSET Detected,
           Refresh(r, k, g)
    PROVE  /\ req[r] = Idle
           /\ \E n \in Refreshing : Becomes(r, n) /\ n.pc = "upsert" /\ n.offset = 0 /\ n.more
<1> DEFINE n == [pc |-> "upsert", kind |-> k, pending |-> g, offset |-> 0, more |-> TRUE]
<1>1. n \in Refreshing /\ n.pc = "upsert" /\ n.offset = 0 /\ n.more
  BY DEF Refreshing
<1>2. Begin(r, n)
  BY DEF Refresh
<1> HIDE DEF n
<1>3. req[r] = Idle /\ Becomes(r, n)
  BY <1>1, <1>2, Starts, ShapesAreRequests
<1> QED BY <1>1, <1>3

LEMMA TakeRequest ==
    ASSUME TypeOK, NEW r \in Requests, NEW s \in Detected, req[r].pc \in {"upsert", "page"},
           req' = [req EXCEPT ![r].pending = @ \ {s}]
    PROVE  /\ req[r] \in Refreshing
           /\ \E n \in Refreshing : /\ Becomes(r, n) /\ n.pc = req[r].pc /\ n.kind = req[r].kind
                                    /\ n.pending = req[r].pending \ {s}
                                    /\ n.offset = req[r].offset /\ n.more = req[r].more
<1>1. req[r] \in Refreshing
  BY RequestShape
<1> DEFINE n == [req[r] EXCEPT !.pending = @ \ {s}]
<1>2. req' = [req EXCEPT ![r] = n]
  BY DEF TypeOK
<1>3. /\ n \in Refreshing /\ n.pc = req[r].pc /\ n.kind = req[r].kind
      /\ n.pending = req[r].pending \ {s} /\ n.offset = req[r].offset /\ n.more = req[r].more
  BY <1>1 DEF Refreshing
<1> HIDE DEF n
<1>4. Becomes(r, n)
  BY <1>2, <1>3, RequestSet, ShapesAreRequests
<1> QED BY <1>1, <1>3, <1>4

LEMMA ResetRequest ==
    ASSUME TypeOK, NEW r \in Requests, Reset(r)
    PROVE  /\ req[r] \in Refreshing /\ req[r].pc = "upsert" /\ req[r].pending = {}
           /\ \E n \in Refreshing : /\ Becomes(r, n) /\ n.pc = "page" /\ n.kind = req[r].kind
                                    /\ n.pending = {} /\ n.offset = req[r].offset /\ n.more = req[r].more
<1>1. req[r] \in Refreshing /\ req[r].pc = "upsert" /\ req[r].pending = {}
  BY RequestShape DEF Reset
<1> DEFINE n == [req[r] EXCEPT !.pc = "page"]
<1>2. req' = [req EXCEPT ![r] = n]
  BY DEF Reset, Goto, TypeOK
<1>3. /\ n \in Refreshing /\ n.pc = "page" /\ n.kind = req[r].kind
      /\ n.pending = {} /\ n.offset = req[r].offset /\ n.more = req[r].more
  BY <1>1 DEF Refreshing
<1> HIDE DEF n
<1>4. Becomes(r, n)
  BY <1>2, <1>3, RequestSet, ShapesAreRequests
<1> QED BY <1>1, <1>3, <1>4

LEMMA ListPageRequest ==
    ASSUME TypeOK, NEW r \in Requests, ListPage(r)
    PROVE  /\ req[r] \in Refreshing /\ req[r].pc = "page" /\ req[r].pending = {} /\ req[r].more
           /\ \E n \in Refreshing :
                LET page == Page(req[r].kind, req[r].offset) IN
                /\ Becomes(r, n) /\ n.pc = "page" /\ n.kind = req[r].kind /\ n.pending = page
                /\ n.offset = req[r].offset + Cardinality(page)
                /\ n.more <=> Cardinality(page) = PageSize
<1>1. req[r] \in Refreshing /\ req[r].pc = "page" /\ req[r].pending = {} /\ req[r].more
  BY RequestShape DEF ListPage
<1>2. PICK page \in SUBSET Detected : page = Page(req[r].kind, req[r].offset)
  BY PageSubset
<1>3. PICK c \in Nat : c = Cardinality(page)
  BY <1>2, PageSubset
<1>4. PICK full \in BOOLEAN : full = (c = PageSize)
  OBVIOUS
<1> DEFINE n == [[[req[r] EXCEPT !.pending = page] EXCEPT !.more = full] EXCEPT !.offset = req[r].offset + c]
<1>5. req' = [req EXCEPT ![r] = n]
  <2>1. req' = [req EXCEPT ![r].pending = page, ![r].more = full, ![r].offset = @ + c]
    BY <1>2, <1>3, <1>4 DEF ListPage
  <2> QED BY <1>1, <2>1 DEF TypeOK, Refreshing
<1>6. /\ n \in Refreshing /\ n.pc = "page" /\ n.kind = req[r].kind
      /\ n.pending = page /\ n.offset = req[r].offset + c /\ n.more = full
  <2> DEFINE q == req[r]
             a == [q EXCEPT !.pending = page]
             b == [a EXCEPT !.more = full]
             e == [b EXCEPT !.offset = q.offset + c]
  <2>1. q.offset + c \in Nat
    BY <1>1, <1>3 DEF Refreshing
  <2>2. a \in Refreshing /\ a.pc = "page" /\ a.kind = q.kind /\ a.pending = page
    BY <1>1, <1>2 DEF Refreshing
  <2> HIDE DEF a
  <2>3. b \in Refreshing /\ b.pc = "page" /\ b.kind = q.kind /\ b.pending = page /\ b.more = full
    <3>1. full \in BOOLEAN
      BY <1>4
    <3> QED BY <2>2, <3>1 DEF Refreshing
  <2> HIDE DEF b
  <2>4. e \in Refreshing /\ e.pc = "page" /\ e.kind = q.kind /\ e.pending = page /\ e.more = full
        /\ e.offset = q.offset + c
    BY <2>1, <2>3 DEF Refreshing
  <2> QED BY <2>4 DEF a, b
<1> HIDE DEF n
<1>7. Becomes(r, n)
  BY <1>5, <1>6, RequestSet, ShapesAreRequests
<1>8. n.more <=> c = PageSize
  BY <1>4, <1>6
<1> QED BY <1>1, <1>2, <1>3, <1>6, <1>7, <1>8

LEMMA LinkStarts ==
    ASSUME TypeOK, NEW r \in Requests, NEW ls \in SUBSET Links
    PROVE  /\ ReinforceLinks(r, ls) => req[r] = Idle /\ \E n \in Getting : Becomes(r, n)
           /\ RefreshLinks(r, ls) =>
                req[r] = Idle /\ \E n \in Suggesting : Becomes(r, n) /\ n.pc = "keys" /\ ~n.scheduled
<1>1. [pc |-> "get", pending |-> ls] \in Getting
  BY DEF Getting
<1>2. PICK n \in Suggesting : n = [pc |-> "keys", pending |-> ls, scheduled |-> FALSE]
  BY DEF Suggesting
<1>3. n.pc = "keys" /\ ~n.scheduled
  BY <1>2
<1> QED BY <1>1, <1>2, <1>3, Starts, ShapesAreRequests DEF ReinforceLinks, RefreshLinks

------------------------------------------------------------------------------
(* A turn of a request, and what its new record may mean.                   *)

Hygienic(q) == q.pc \in {"recommend", "archive"} \/ (q.pc \in {"keys", "create"} /\ q.scheduled)
Activates(q, l) == q.pc = "update" /\ q.link = l /\ q.activates
Creates(q, l) == q.pc = "create" /\ l \in q.pending
Applies(q) == q.pc \in {"effect", "mark"}
Marks(q, s) == q.pc = "mark" /\ q.subject = s

QueueTurn(r) ==
    \/ \E k \in {"contradiction", "consolidate"}, g \in SUBSET Detected : Refresh(r, k, g)
    \/ \E s \in Detected : Upsert(r, s)
    \/ \E i \in Ids, s \in Detected : Create(r, i, s)
    \/ Reset(r) \/ ListPage(r) \/ EndRefresh(r)
    \/ \E i \in Ids : LoadForApply(r, i)
    \/ Effect(r) \/ Mark(r) \/ Fail(r)

LinkTurn(r) ==
    \/ \E ls \in SUBSET Links : ReinforceLinks(r, ls) \/ RefreshLinks(r, ls)
    \/ \E l \in Links : GetLink(r, l)
    \/ \E found \in BOOLEAN : UpdateLink(r, found)
    \/ \E l \in Links, found \in BOOLEAN : ArchiveStale(r, l, found)
    \/ StartHygiene(r) \/ Persist(r) \/ EndLinks(r)
    \/ \E listed \in SUBSET Ids : ListKeys(r, listed)
    \/ \E stale, review \in SUBSET Links : Recommend(r, stale, review)
    \/ \E i \in Ids, l \in Links : CreateLink(r, i, l)
    \/ EffectOnLink(r)

Turn(r) == \/ QueueTurn(r) /\ UNCHANGED linkVars
           \/ LinkTurn(r) /\ quiet' = NoRequest /\ UNCHANGED <<record, openings>>

\* The steps of Next by what they do to the requests.
LEMMA StepKinds ==
    ASSUME Next
    PROVE  /\ contents' = contents
           /\ \/ \E r \in Requests : Turn(r)
              \/ req' = req /\ UNCHANGED linkVars /\ \E i \in Ids : Decline(i)
              \/ req' = req /\ UNCHANGED linkVars /\ \E s \in Detected : SettleDirectly(s)
              \/ /\ req' = req /\ quiet' = NoRequest /\ UNCHANGED <<record, openings, rows>>
                 /\ IntervalOver \/ \E l \in Links, status \in Statuses : SetStatus(l, status)
<1>1. contents' = contents /\ Present \subseteq Links
  BY DEF Next, Present
<1>2. CASE QueueNext /\ UNCHANGED linkVars
  <2>1. (\E r \in Requests : QueueTurn(r)) \/ (\E i \in Ids : Decline(i)) \/ (\E s \in Detected : SettleDirectly(s))
    BY <1>2 DEF QueueNext, QueueTurn
  <2> QED BY <1>1, <1>2, <2>1 DEF Turn, Decline, SettleDirectly
<1>3. CASE (LinkNext \/ \E r \in Requests : EffectOnLink(r)) /\ quiet' = NoRequest /\ UNCHANGED <<record, openings>>
  <2>1. \/ \E r \in Requests : LinkTurn(r)
        \/ IntervalOver \/ \E l \in Links, status \in Statuses : SetStatus(l, status)
    BY <1>1, <1>3 DEF LinkNext, LinkTurn
  <2> QED BY <1>1, <1>3, <2>1 DEF Turn, IntervalOver, SetStatus
<1> QED BY <1>2, <1>3 DEF Next

\* What a request may become at its turn: it starts hygiene when it is due, is
\* about to activate a link it found suggested, suggests links after it has
\* listed the keys, applies the row it has loaded.
Follows(r, n) ==
    /\ Becomes(r, n)
    /\ Hygienic(n) => Hygienic(req[r]) \/ (StartHygiene(r) /\ ~marked)
    /\ \A l \in Links : Activates(n, l) => GetLink(r, l) /\ links[l] = "suggested"
    /\ \A l \in Links : Creates(n, l) => Creates(req[r], l) \/ \E listed \in SUBSET Ids : ListKeys(r, listed)
    /\ \A s \in Subjects : Marks(n, s) => (Effect(r) \/ EffectOnLink(r)) /\ req[r].subject = s
    /\ Applies(n) => \/ Applies(req[r]) /\ n.row = req[r].row /\ n.subject = req[r].subject /\ UNCHANGED rows
                     \/ n.row \in Ids /\ rows[n.row].subject = n.subject /\ UNCHANGED rows

LEMMA NothingClaimed ==
    ASSUME NEW n \in Getting \cup Refreshing \cup {Idle}
    PROVE  ~Hygienic(n) /\ ~Applies(n) /\ \A x : ~Activates(n, x) /\ ~Creates(n, x) /\ ~Marks(n, x)
<1> USE DEF Hygienic, Applies, Activates, Creates, Marks
<1>1. n.pc \in {"get", "upsert", "page", "idle"}
  BY DEF Getting, Refreshing, Idle
<1> QED BY <1>1

LEMMA FollowsNothing ==
    ASSUME NEW r, NEW n \in Getting \cup Refreshing \cup {Idle}, Becomes(r, n)
    PROVE  Follows(r, n)
BY NothingClaimed DEF Follows

LEMMA LinkFollows ==
    ASSUME TypeOK, NEW r \in Requests, LinkTurn(r)
    PROVE  \E n : Follows(r, n)
<1> USE DEF Hygienic, Applies, Activates, Creates, Marks
<1>1. ASSUME NEW ls \in SUBSET Links, ReinforceLinks(r, ls) PROVE \E n : Follows(r, n)
  BY <1>1, LinkStarts, FollowsNothing
<1>2. ASSUME NEW ls \in SUBSET Links, RefreshLinks(r, ls) PROVE \E n : Follows(r, n)
  <2>1. PICK n \in Suggesting : Becomes(r, n) /\ n.pc = "keys" /\ ~n.scheduled
    BY <1>2, LinkStarts
  <2>2. Follows(r, n)
    BY <2>1 DEF Follows
  <2> QED BY <2>2
<1>3. ASSUME NEW l \in Links, GetLink(r, l) PROVE \E n : Follows(r, n)
  <2>1. CASE \E n \in Getting : Becomes(r, n)
    BY <2>1, FollowsNothing
  <2>2. ASSUME NEW n \in Reinforcing, Becomes(r, n), n.link = l, n.activates => links[l] = "suggested"
        PROVE  Follows(r, n)
    <3>1. n.pc = "update"
      BY <2>2 DEF Reinforcing
    <3> QED BY <1>3, <2>2, <3>1 DEF Follows
  <2> QED BY <1>3, <2>1, <2>2, GetLinkRequest
<1>4. ASSUME NEW found \in BOOLEAN, UpdateLink(r, found) PROVE \E n : Follows(r, n)
  BY <1>4, UpdateLinkRequest, FollowsNothing
<1>5. ASSUME NEW n \in Archiving, Becomes(r, n), req[r].pc \in {"recommend", "archive"} PROVE Follows(r, n)
  <2>1. n.pc = "archive"
    BY <1>5 DEF Archiving
  <2> QED BY <1>5, <2>1 DEF Follows
<1>6. ASSUME NEW l \in Links, NEW found \in BOOLEAN, ArchiveStale(r, l, found) PROVE \E n : Follows(r, n)
  BY <1>5, <1>6, HygieneRequest
<1>7. ASSUME NEW stale \in SUBSET Links, NEW review \in SUBSET Links, Recommend(r, stale, review)
      PROVE  \E n : Follows(r, n)
  BY <1>5, <1>7, HygieneRequest
<1>8. CASE StartHygiene(r)
  <2>1. CASE Becomes(r, Idle)
    BY <2>1, FollowsNothing
  <2>2. ASSUME ~marked, NEW n \in Recommending, Becomes(r, n) PROVE Follows(r, n)
    <3>1. n.pc = "recommend"
      BY <2>2 DEF Recommending
    <3> QED BY <1>8, <2>2, <3>1 DEF Follows
  <2> QED BY <1>8, <2>1, <2>2, HygieneRequest
<1>9. CASE Persist(r)
  <2>1. PICK n \in Suggesting : n.pc = "keys" /\ Becomes(r, n)
    BY <1>9, HygieneRequest
  <2>2. req[r].pc = "archive"
    BY <1>9, HygieneRequest
  <2>3. Follows(r, n)
    BY <2>1, <2>2 DEF Follows
  <2> QED BY <2>3
<1>10. ASSUME NEW listed \in SUBSET Ids, ListKeys(r, listed) PROVE \E n : Follows(r, n)
  <2>1. PICK n \in Suggesting : Becomes(r, n) /\ n.pc = "create" /\ n.scheduled = req[r].scheduled
    BY <1>10, ListKeysRequest
  <2>2. req[r].pc = "keys"
    BY <1>10 DEF ListKeys
  <2>3. Follows(r, n)
    BY <1>10, <2>1, <2>2 DEF Follows
  <2> QED BY <2>3
<1>11. CASE EndLinks(r)
  BY <1>11, Ends, FollowsNothing DEF EndLinks
<1>12. ASSUME NEW i \in Ids, NEW l \in Links, CreateLink(r, i, l) PROVE \E n : Follows(r, n)
  <2>1. PICK n \in Suggesting : /\ Becomes(r, n) /\ n.pc = "create" /\ n.scheduled = req[r].scheduled
                                /\ n.pending = req[r].pending \ {l}
    BY <1>12, CreateLinkRequest
  <2>2. req[r].pc = "create"
    BY <1>12 DEF CreateLink
  <2>3. Follows(r, n)
    BY <2>1, <2>2 DEF Follows
  <2> QED BY <2>3
<1>13. CASE EffectOnLink(r)
  <2>1. PICK n \in Applying : /\ Becomes(r, n) /\ n.pc = "mark" /\ n.row = req[r].row
                              /\ n.subject = req[r].subject
    BY <1>13, EffectRequest
  <2>2. req[r].pc = "effect" /\ UNCHANGED rows
    BY <1>13 DEF EffectOnLink
  <2>3. Follows(r, n)
    BY <1>13, <2>1, <2>2 DEF Follows
  <2> QED BY <2>3
<1> QED BY <1>1, <1>2, <1>3, <1>4, <1>6, <1>7, <1>8, <1>9, <1>10, <1>11, <1>12, <1>13 DEF LinkTurn

LEMMA QueueFollows ==
    ASSUME TypeOK, NEW r \in Requests, QueueTurn(r)
    PROVE  \E n : Follows(r, n)
<1> USE DEF Hygienic, Applies, Activates, Creates, Marks
<1>1. ASSUME NEW k \in {"contradiction", "consolidate"}, NEW g \in SUBSET Detected, Refresh(r, k, g)
      PROVE  \E n : Follows(r, n)
  BY <1>1, RefreshRequest, FollowsNothing
<1>2. ASSUME NEW s \in Detected, Upsert(r, s) PROVE \E n : Follows(r, n)
  BY <1>2, TakeRequest, FollowsNothing DEF Upsert
<1>3. ASSUME NEW i \in Ids, NEW s \in Detected, Create(r, i, s) PROVE \E n : Follows(r, n)
  BY <1>3, TakeRequest, FollowsNothing DEF Create
<1>4. CASE Reset(r)
  BY <1>4, ResetRequest, FollowsNothing
<1>5. CASE ListPage(r)
  BY <1>5, ListPageRequest, FollowsNothing
<1>6. CASE EndRefresh(r) \/ Mark(r) \/ Fail(r)
  BY <1>6, Ends, FollowsNothing DEF EndRefresh, Mark, Fail, Finish
<1>7. ASSUME NEW i \in Ids, LoadForApply(r, i) PROVE \E n : Follows(r, n)
  <2>1. PICK n \in Applying : Becomes(r, n) /\ n.pc = "effect" /\ n.row = i /\ n.subject = rows[i].subject
    BY <1>7, LoadRequest
  <2>2. Follows(r, n)
    BY <1>7, <2>1 DEF Follows, LoadForApply
  <2> QED BY <2>2
<1>8. CASE Effect(r)
  <2>1. PICK n \in Applying : /\ Becomes(r, n) /\ n.pc = "mark" /\ n.row = req[r].row
                              /\ n.subject = req[r].subject
    BY <1>8, EffectRequest
  <2>2. req[r].pc = "effect" /\ UNCHANGED rows
    BY <1>8 DEF Effect
  <2>3. Follows(r, n)
    BY <1>8, <2>1, <2>2 DEF Follows
  <2> QED BY <2>3
<1> QED BY <1>1, <1>2, <1>3, <1>4, <1>5, <1>6, <1>7, <1>8 DEF QueueTurn

LEMMA TurnFollows ==
    ASSUME TypeOK, NEW r \in Requests, Turn(r)
    PROVE  \E n : Follows(r, n)
BY LinkFollows, QueueFollows DEF Turn

------------------------------------------------------------------------------
(* Types.                                                                  *)

\* The steps that write suggestions.
LEMMA RowWriters ==
    ASSUME Next
    PROVE  \/ UNCHANGED rows
           \/ \E r \in Requests, i \in Ids, s \in Detected : Create(r, i, s)
           \/ \E r \in Requests, i \in Ids, l \in Links : CreateLink(r, i, l)
           \/ \E r \in Requests : Reset(r) \/ Mark(r)
           \/ \E i \in Ids : Decline(i)
<1>1. ASSUME NEW r \in Requests, QueueTurn(r), ~ Reset(r), ~ Mark(r),
             ~ \E i \in Ids, s \in Detected : Create(r, i, s)
      PROVE  UNCHANGED rows
  BY <1>1 DEF QueueTurn, Refresh, Upsert, ListPage, EndRefresh, LoadForApply, Effect, Fail
<1>2. ASSUME NEW r \in Requests, LinkTurn(r), ~ \E i \in Ids, l \in Links : CreateLink(r, i, l)
      PROVE  UNCHANGED rows
  BY <1>2 DEF LinkTurn, ReinforceLinks, RefreshLinks, GetLink, UpdateLink, ArchiveStale, StartHygiene, Persist,
       ListKeys, EndLinks, Recommend, EffectOnLink
<1>3. ASSUME NEW s \in Detected, SettleDirectly(s) PROVE UNCHANGED rows
  BY <1>3 DEF SettleDirectly
<1> QED BY <1>1, <1>2, <1>3, StepKinds DEF Turn

\* One suggestion is stored.
LEMMA InsertRow ==
    ASSUME TypeOK, NEW i \in Ids, NEW s \in Subjects, Insert(i, s)
    PROVE  /\ rows' \in [Ids -> RowRecords \cup {NoRow}]
           /\ rows[i] = NoRow /\ rows'[i] = [subject |-> s, status |-> "suggested"]
           /\ \A x \in Ids \ {i} : rows'[x] = rows[x]
<1>1. [subject |-> s, status |-> "suggested"] \in RowRecords
  BY DEF RowRecords
<1> QED BY <1>1 DEF Insert, TypeOK

\* One suggestion, if it is there, gets a decision.
LEMMA MarkedRow ==
    ASSUME TypeOK, NEW i \in Ids, NEW d \in Decisions, MarkRow(i, d)
    PROVE  /\ rows' \in [Ids -> RowRecords \cup {NoRow}]
           /\ rows[i] = NoRow => rows' = rows
           /\ rows[i] # NoRow => rows'[i] = [subject |-> rows[i].subject, status |-> d] /\ rows[i] \in RowRecords
           /\ \A x \in Ids \ {i} : rows'[x] = rows[x]
<1>1. CASE rows[i] = NoRow
  BY <1>1 DEF MarkRow, Exists, TypeOK
<1>2. CASE rows[i] # NoRow
  <2>1. rows[i] \in RowRecords
    BY <1>2 DEF TypeOK
  <2>2. [rows[i] EXCEPT !.status = d] = [subject |-> rows[i].subject, status |-> d]
    BY <2>1 DEF RowRecords
  <2>3. [rows[i] EXCEPT !.status = d] \in RowRecords
    BY <2>1 DEF RowRecords
  <2>4. rows' = [rows EXCEPT ![i] = [rows[i] EXCEPT !.status = d]]
    BY <1>2 DEF MarkRow, Exists, TypeOK
  <2>5. PICK n \in RowRecords : n = [subject |-> rows[i].subject, status |-> d] /\ rows' = [rows EXCEPT ![i] = n]
    BY <2>2, <2>3, <2>4
  <2> QED BY <1>2, <2>1, <2>5 DEF TypeOK
<1> QED BY <1>1, <1>2

LEMMA ResetRows ==
    ASSUME TypeOK, NEW r \in Requests, Reset(r)
    PROVE  /\ rows' \in [Ids -> RowRecords \cup {NoRow}]
           /\ \A i \in Ids : \/ rows'[i] = rows[i]
                             \/ rows'[i] = NoRow /\ rows[i].status = "suggested" /\ rows[i].subject \in Detected
           /\ \A i \in Ids : rows[i].status = "suggested" /\ IsOfKind(i, req[r].kind) => rows'[i] = NoRow
BY DEF Reset, TypeOK, IsOfKind, OfKind

LEMMA MarkFacts ==
    ASSUME TypeOK, NEW r \in Requests, Mark(r)
    PROVE  /\ req[r].row \in Ids /\ req[r].subject \in Subjects /\ MarkRow(req[r].row, "applied")
           /\ req[r].pc = "mark" /\ Becomes(r, Idle)
<1>1. req[r] \in Applying
  BY RequestShape DEF Mark
<1>2. End(r)
  BY DEF Mark, Finish
<1> QED BY <1>1, <1>2, Ends DEF Applying, Mark

LEMMA RowsType ==
    ASSUME TypeOK, Next
    PROVE  rows' \in [Ids -> RowRecords \cup {NoRow}]
<1>1. CASE UNCHANGED rows
  BY <1>1 DEF TypeOK
<1>2. ASSUME NEW r \in Requests, NEW i \in Ids, NEW s \in Detected, Create(r, i, s)
      PROVE  rows' \in [Ids -> RowRecords \cup {NoRow}]
  BY <1>2, InsertRow DEF Create, Subjects
<1>3. ASSUME NEW r \in Requests, NEW i \in Ids, NEW l \in Links, CreateLink(r, i, l)
      PROVE  rows' \in [Ids -> RowRecords \cup {NoRow}]
  BY <1>3, InsertRow DEF CreateLink, Subjects
<1>4. ASSUME NEW r \in Requests, Reset(r) PROVE rows' \in [Ids -> RowRecords \cup {NoRow}]
  BY <1>4, ResetRows
<1>5. ASSUME NEW r \in Requests, Mark(r) PROVE rows' \in [Ids -> RowRecords \cup {NoRow}]
  BY <1>5, MarkFacts, MarkedRow DEF Decisions
<1>6. ASSUME NEW i \in Ids, Decline(i) PROVE rows' \in [Ids -> RowRecords \cup {NoRow}]
  BY <1>6, MarkedRow DEF Decline, Decisions
<1> QED BY <1>1, <1>2, <1>3, <1>4, <1>5, <1>6, RowWriters

\* The steps that write links.
LEMMA LinkWriters ==
    ASSUME Next
    PROVE  \/ UNCHANGED <<links, revivals>>
           \/ \E r \in Requests, found \in BOOLEAN : UpdateLink(r, found)
           \/ \E r \in Requests, l \in Links, found \in BOOLEAN : ArchiveStale(r, l, found)
           \/ \E r \in Requests : EffectOnLink(r)
           \/ \E l \in Links, status \in Statuses : SetStatus(l, status) /\ req' = req
<1> USE DEF linkVars
<1>1. ASSUME NEW r \in Requests, LinkTurn(r), ~ EffectOnLink(r),
             ~ \E found \in BOOLEAN : UpdateLink(r, found),
             ~ \E l \in Links, found \in BOOLEAN : ArchiveStale(r, l, found)
      PROVE  UNCHANGED <<links, revivals>>
  BY <1>1 DEF LinkTurn, ReinforceLinks, RefreshLinks, GetLink, StartHygiene, Persist,
       ListKeys, EndLinks, Recommend, CreateLink
<1> QED BY <1>1, StepKinds DEF Turn, IntervalOver

\* The steps that count hygiene runs.
LEMMA RunWriters ==
    ASSUME Next
    PROVE  \/ UNCHANGED <<marked, runs>>
           \/ \E r \in Requests : EndLinks(r)
           \/ IntervalOver /\ req' = req
<1> USE DEF linkVars
<1>1. ASSUME NEW r \in Requests, LinkTurn(r), ~ EndLinks(r) PROVE UNCHANGED <<marked, runs>>
  BY <1>1 DEF LinkTurn, ReinforceLinks, RefreshLinks, GetLink, StartHygiene, Persist, UpdateLink, ArchiveStale,
       ListKeys, Recommend, CreateLink, EffectOnLink
<1> QED BY <1>1, StepKinds DEF Turn, SetStatus

\* The step that lists keys, and may miss some.
LEMMA MissedWriters ==
    ASSUME Next
    PROVE  \/ UNCHANGED missed
           \/ \E r \in Requests, listed \in SUBSET Ids : ListKeys(r, listed)
<1> USE DEF linkVars
<1>1. ASSUME NEW r \in Requests, LinkTurn(r), ~ \E listed \in SUBSET Ids : ListKeys(r, listed)
      PROVE  UNCHANGED missed
  BY <1>1 DEF LinkTurn, ReinforceLinks, RefreshLinks, GetLink, StartHygiene, Persist, UpdateLink, ArchiveStale,
       EndLinks, Recommend, CreateLink, EffectOnLink
<1> QED BY <1>1, StepKinds DEF Turn, SetStatus, IntervalOver

LEMMA MissedType ==
    ASSUME TypeOK, Next
    PROVE  missed' \in [Links -> Nat]
<1>1. CASE UNCHANGED missed
  BY <1>1 DEF TypeOK
<1>2. ASSUME NEW r \in Requests, NEW listed \in SUBSET Ids, ListKeys(r, listed)
      PROVE  missed' \in [Links -> Nat]
  BY <1>2 DEF ListKeys, TypeOK
<1> QED BY <1>1, <1>2, MissedWriters

\* The steps that write alerts and candidates.
LEMMA RecordWriters ==
    ASSUME Next
    PROVE  \/ UNCHANGED <<record, openings>>
           \/ \E r \in Requests, s \in Detected : Upsert(r, s)
           \/ \E r \in Requests : Effect(r)
           \/ \E s \in Detected : SettleDirectly(s)
<1>1. ASSUME NEW r \in Requests, QueueTurn(r), ~ Effect(r), ~ \E s \in Detected : Upsert(r, s)
      PROVE  UNCHANGED <<record, openings>>
  BY <1>1 DEF QueueTurn, Refresh, Create, Reset, ListPage, EndRefresh, LoadForApply, Mark, Fail
<1> QED BY <1>1, StepKinds DEF Turn, Decline

LEMMA LinkFacts ==
    ASSUME TypeOK, NEW r \in Requests
    PROVE  /\ \A found \in BOOLEAN : UpdateLink(r, found) => req[r].link \in Links /\ req[r].activates \in BOOLEAN
           /\ EndLinks(r) => req[r].scheduled \in BOOLEAN
           /\ Effect(r) \/ EffectOnLink(r) => req[r].subject \in Subjects
<1>1. req[r] \in Reinforcing => req[r].link \in Links /\ req[r].activates \in BOOLEAN
  BY DEF Reinforcing
<1>2. req[r] \in Suggesting => req[r].scheduled \in BOOLEAN
  BY DEF Suggesting
<1>3. req[r] \in Applying => req[r].subject \in Subjects
  BY DEF Applying
<1> QED BY <1>1, <1>2, <1>3, RequestShape DEF UpdateLink, EndLinks, Effect, EffectOnLink

\* What the UPDATE of a reinforced link does.
LEMMA UpdateLinkEffect ==
    ASSUME TypeOK, NEW r \in Requests, NEW found \in BOOLEAN, UpdateLink(r, found)
    PROVE  \/ UNCHANGED <<links, revivals>>
           \/ /\ req[r].activates /\ links' = [links EXCEPT ![req[r].link] = "active"]
              /\ \/ UNCHANGED revivals
                 \/ revivals' = [revivals EXCEPT ![req[r].link] = @ + 1]
<1> DEFINE activates == found /\ req[r].activates
           revives == activates /\ links[req[r].link] = "closed"
<1>1. /\ links' = IF activates THEN [links EXCEPT ![req[r].link] = "active"] ELSE links
      /\ revivals' = IF revives THEN [revivals EXCEPT ![req[r].link] = @ + 1] ELSE revivals
  BY DEF UpdateLink
<1>2. CASE activates
  BY <1>1, <1>2
<1>3. CASE ~activates
  BY <1>1, <1>3
<1> QED BY <1>2, <1>3

LEMMA LinksType ==
    ASSUME TypeOK, Next
    PROVE  links' \in [Links -> Statuses] /\ revivals' \in [Links -> Nat]
<1> USE DEF Statuses
<1>1. CASE UNCHANGED <<links, revivals>>
  BY <1>1 DEF TypeOK
<1>2. ASSUME NEW r \in Requests, NEW found \in BOOLEAN, UpdateLink(r, found)
      PROVE  links' \in [Links -> Statuses] /\ revivals' \in [Links -> Nat]
  <2>1. PICK l \in Links : l = req[r].link
    BY <1>2, LinkFacts
  <2>2. links' = links \/ links' = [links EXCEPT ![l] = "active"]
    BY <1>2, <2>1, UpdateLinkEffect
  <2>3. revivals' = revivals \/ revivals' = [revivals EXCEPT ![l] = @ + 1]
    BY <1>2, <2>1, UpdateLinkEffect
  <2> QED BY <2>2, <2>3 DEF TypeOK
<1>3. ASSUME NEW r \in Requests, NEW l \in Links, NEW found \in BOOLEAN, ArchiveStale(r, l, found)
      PROVE  links' \in [Links -> Statuses] /\ revivals' \in [Links -> Nat]
  BY <1>3 DEF ArchiveStale, TypeOK
<1>4. ASSUME NEW r \in Requests, EffectOnLink(r) PROVE links' \in [Links -> Statuses] /\ revivals' \in [Links -> Nat]
  BY <1>4 DEF EffectOnLink, TypeOK
<1>5. ASSUME NEW l \in Links, NEW status \in Statuses, SetStatus(l, status)
      PROVE  links' \in [Links -> Statuses] /\ revivals' \in [Links -> Nat]
  BY <1>5 DEF SetStatus, TypeOK
<1> QED BY <1>1, <1>2, <1>3, <1>4, <1>5, LinkWriters

LEMMA RunsType ==
    ASSUME TypeOK, Next
    PROVE  marked' \in BOOLEAN /\ runs' \in Nat
<1>1. CASE UNCHANGED <<marked, runs>>
  BY <1>1 DEF TypeOK
<1>2. ASSUME NEW r \in Requests, EndLinks(r) PROVE marked' \in BOOLEAN /\ runs' \in Nat
  BY <1>2, LinkFacts DEF EndLinks, TypeOK
<1>3. CASE IntervalOver
  BY <1>3 DEF IntervalOver
<1> QED BY <1>1, <1>2, <1>3, RunWriters

LEMMA RecordType ==
    ASSUME TypeOK, Next
    PROVE  record' \in [Detected -> RecordStates] /\ openings' \in [Detected -> Nat]
<1> USE DEF RecordStates
<1>1. CASE UNCHANGED <<record, openings>>
  BY <1>1 DEF TypeOK
<1>2. ASSUME NEW r \in Requests, NEW s \in Detected, Upsert(r, s)
      PROVE  record' \in [Detected -> RecordStates] /\ openings' \in [Detected -> Nat]
  BY <1>2 DEF Upsert, TypeOK
<1>3. ASSUME NEW r \in Requests, Effect(r)
      PROVE  record' \in [Detected -> RecordStates] /\ openings' \in [Detected -> Nat]
  BY <1>3 DEF Effect, Settle, TypeOK
<1>4. ASSUME NEW s \in Detected, SettleDirectly(s)
      PROVE  record' \in [Detected -> RecordStates] /\ openings' \in [Detected -> Nat]
  BY <1>4 DEF SettleDirectly, Settle, TypeOK
<1> QED BY <1>1, <1>2, <1>3, <1>4, RecordWriters

LEMMA QuietType ==
    ASSUME TypeOK, Next
    PROVE  quiet' \in Requests \cup {NoRequest}
<1>1. ASSUME NEW r \in Requests, QueueTurn(r) PROVE quiet' \in {quiet, r, NoRequest}
  BY <1>1 DEF QueueTurn, Refresh, Upsert, Create, Reset, ListPage, EndRefresh, LoadForApply, Effect, Mark, Fail, Finish
<1> QED BY <1>1, StepKinds DEF Turn, Decline, SettleDirectly, TypeOK

LEMMA TypeStep == TypeOK /\ [Next]_vars => TypeOK'
<1> SUFFICES ASSUME TypeOK, [Next]_vars PROVE TypeOK'
  OBVIOUS
<1>1. CASE UNCHANGED vars
  BY <1>1 DEF vars, linkVars, TypeOK
<1>2. CASE Next
  <2>1. req' \in [Requests -> AnyRequest]
    BY <1>2, StepKinds, TurnFollows DEF Follows, Becomes, TypeOK, AnyRequest
  <2>2. contents' = contents
    BY <1>2, StepKinds
  <2> QED BY <1>2, <2>1, <2>2, RowsType, LinksType, RunsType, MissedType, RecordType, QuietType DEF TypeOK, AnyRequest
<1> QED BY <1>1, <1>2

\* The type invariant of the queues and of the links of LinkHygiene.
THEOREM TypeCorrect == Spec => []TypeOK
<1>1. Init => TypeOK
  <2> SUFFICES ASSUME Init PROVE TypeOK
    OBVIOUS
  <2>1. marked \in BOOLEAN
    BY DEF Init, LinkInit
  <2>2. /\ contents \in Contents /\ links \in [Links -> Statuses]
        /\ revivals \in [Links -> Nat] /\ runs \in Nat /\ missed \in [Links -> Nat]
    BY DEF Init, LinkInit
  <2>3. /\ record \in [Detected -> RecordStates] /\ rows \in [Ids -> RowRecords \cup {NoRow}]
        /\ openings \in [Detected -> Nat] /\ quiet \in Requests \cup {NoRequest}
        /\ req \in [Requests -> RequestRecords \cup LinkRequests \cup {Idle}]
    BY DEF Init, RecordStates
  <2> QED BY <2>1, <2>2, <2>3 DEF TypeOK
<1> QED BY <1>1, TypeStep, PTL DEF Spec

------------------------------------------------------------------------------
(* Counting.                                                               *)

LEMMA Counted ==
    ASSUME NEW S, NEW T, S \subseteq T, T = Requests \/ T = Ids
    PROVE  IsFiniteSet(S) /\ Cardinality(S) \in Nat /\ Cardinality(S) <= Cardinality(T) /\ Cardinality(T) \in Nat
<1>1. IsFiniteSet(T)
  BY HygieneAssumption, BoundsAssumption
<1> QED BY <1>1, FS_Subset, FS_CardinalityType

LEMMA Fewer ==
    ASSUME NEW S, IsFiniteSet(S), NEW T, T \subseteq S
    PROVE  Cardinality(T) <= Cardinality(S)
BY FS_Subset

LEMMA OneFewer ==
    ASSUME NEW S, IsFiniteSet(S), NEW x \in S, NEW T, T \subseteq S \ {x}
    PROVE  Cardinality(T) + 1 <= Cardinality(S)
<1>1. IsFiniteSet(S \ {x}) /\ Cardinality(S \ {x}) = Cardinality(S) - 1
  BY FS_RemoveElement
<1>2. Cardinality(T) <= Cardinality(S \ {x}) /\ IsFiniteSet(T)
  BY <1>1, FS_Subset
<1>3. Cardinality(T) \in Nat /\ Cardinality(S) \in Nat
  BY <1>2, FS_CardinalityType
<1> QED BY <1>1, <1>2, <1>3

LEMMA OneMore ==
    ASSUME NEW S, IsFiniteSet(S), NEW x, NEW T, T \subseteq S \cup {x}
    PROVE  Cardinality(T) <= Cardinality(S) + 1
<1>1. IsFiniteSet(S \cup {x}) /\ Cardinality(S \cup {x}) \in {Cardinality(S), Cardinality(S) + 1}
  BY FS_AddElement
<1>2. Cardinality(T) <= Cardinality(S \cup {x}) /\ IsFiniteSet(T)
  BY <1>1, FS_Subset
<1>3. Cardinality(T) \in Nat /\ Cardinality(S) \in Nat
  BY <1>2, FS_CardinalityType
<1> QED BY <1>1, <1>2, <1>3

------------------------------------------------------------------------------
(* Hygiene runs.                                                           *)

Tidying == {r \in Requests : Hygienic(req[r])}

\* Hygiene that is due has not run in this interval.
RunsInv == HygieneRunsBounded /\ (~marked => runs = 0)

LEMMA TidyingCounted ==
    HygieneRunsBounded <=> runs + Cardinality(Tidying) <= Cardinality(Requests)
BY DEF HygieneRunsBounded, Tidying, InHygiene, Hygienic

LEMMA RunsStep == TypeOK /\ RunsInv /\ [Next]_vars => RunsInv'
<1> SUFFICES ASSUME TypeOK, RunsInv, [Next]_vars PROVE RunsInv'
  OBVIOUS
<1>0. runs \in Nat
  BY DEF TypeOK
<1>1. Tidying \subseteq Requests /\ Tidying' \subseteq Requests
  BY DEF Tidying
<1>2. /\ IsFiniteSet(Tidying) /\ Cardinality(Tidying) \in Nat /\ Cardinality(Requests) \in Nat
      /\ Cardinality(Tidying') \in Nat /\ Cardinality(Tidying') <= Cardinality(Requests)
  BY <1>1, Counted
<1>3. runs + Cardinality(Tidying) <= Cardinality(Requests) /\ (~marked => runs = 0)
  BY TidyingCounted DEF RunsInv
<1>4. ASSUME runs' + Cardinality(Tidying') <= Cardinality(Requests), ~marked' => runs' = 0
      PROVE  RunsInv'
  BY <1>4 DEF RunsInv, HygieneRunsBounded, Tidying, InHygiene, Hygienic
<1>5. ASSUME Tidying' \subseteq Tidying, UNCHANGED <<marked, runs>> PROVE RunsInv'
  <2>1. Cardinality(Tidying') <= Cardinality(Tidying)
    BY <1>2, <1>5, Fewer
  <2> QED BY <1>0, <1>2, <1>3, <1>4, <1>5, <2>1
<1>6. CASE UNCHANGED vars
  BY <1>5, <1>6 DEF vars, linkVars, Tidying
<1>7. ASSUME NEW r \in Requests, EndLinks(r) PROVE RunsInv'
  <2>1. Becomes(r, Idle) /\ req[r].pc = "create"
    BY <1>7, Ends DEF EndLinks
  <2>2. ~Hygienic(Idle)
    BY NothingClaimed
  <2>3. Tidying' \subseteq Tidying \ {r}
    BY <2>1, <2>2 DEF Tidying, Becomes
  <2>4. req[r].scheduled \in BOOLEAN
    BY <1>7, LinkFacts
  <2>5. CASE req[r].scheduled
    <3>1. runs' = runs + 1 /\ marked'
      BY <1>7, <2>5 DEF EndLinks
    <3>2. r \in Tidying
      BY <2>1, <2>5 DEF Tidying, Hygienic
    <3>3. Cardinality(Tidying') + 1 <= Cardinality(Tidying)
      BY <1>2, <2>3, <3>2, OneFewer
    <3> QED BY <1>0, <1>2, <1>3, <1>4, <3>1, <3>3
  <2>6. CASE ~req[r].scheduled
    <3>1. runs' = runs /\ marked' = (marked \/ FALSE)
      BY <1>7, <2>6 DEF EndLinks
    <3>2. marked' <=> marked
      BY <3>1
    <3>3. Cardinality(Tidying') <= Cardinality(Tidying)
      BY <1>2, <2>3, Fewer
    <3> QED BY <1>0, <1>2, <1>3, <1>4, <3>1, <3>2, <3>3
  <2> QED BY <2>5, <2>6
<1>8. CASE IntervalOver
  <2>1. runs' = 0
    BY <1>8 DEF IntervalOver
  <2> QED BY <1>2, <1>4, <2>1
<1>9. CASE Next /\ UNCHANGED <<marked, runs>>
  <2>1. ASSUME NEW r \in Requests, Turn(r) PROVE RunsInv'
    <3>1. PICK n : Follows(r, n)
      BY <2>1, TurnFollows
    <3>2. CASE Hygienic(n) => Hygienic(req[r])
      <4>1. Tidying' \subseteq Tidying
        BY <3>1, <3>2 DEF Follows, Becomes, Tidying
      <4> QED BY <1>5, <1>9, <4>1
    <3>3. CASE ~marked
      BY <1>2, <1>3, <1>4, <1>9, <3>3
    <3> QED BY <3>1, <3>2, <3>3 DEF Follows
  <2>2. CASE req' = req
    BY <1>5, <1>9, <2>2 DEF Tidying
  <2> QED BY <1>9, <2>1, <2>2, StepKinds
<1> QED BY <1>6, <1>7, <1>8, <1>9, RunWriters

\* However many turns end at the same time, no interval sees more hygiene runs
\* than there are requests at a time.
THEOREM HygieneRunsAreBounded == Spec => []HygieneRunsBounded
<1>1. Init => RunsInv
  <2> SUFFICES ASSUME Init PROVE RunsInv
    OBVIOUS
  <2>1. Tidying = {} /\ runs = 0
    <3>1. ~Hygienic(Idle)
      BY NothingClaimed
    <3> QED BY <3>1 DEF Init, LinkInit, Tidying
  <2>2. Cardinality(Tidying) = 0 /\ Cardinality(Requests) \in Nat
    BY <2>1, FS_EmptySet, Counted
  <2> QED BY <2>1, <2>2, TidyingCounted DEF RunsInv
<1>2. RunsInv => HygieneRunsBounded
  BY DEF RunsInv
<1> QED BY <1>1, <1>2, RunsStep, TypeCorrect, PTL DEF Spec

------------------------------------------------------------------------------
(* Revived links.                                                          *)

Activating(l) == {r \in Requests : Activates(req[r], l)}

\* A suggested link was not revived since its status was set.
RevivalInv == RevivalsBounded /\ \A l \in Links : links[l] = "suggested" => revivals[l] = 0

LEMMA RevivalStep == TypeOK /\ RevivalInv /\ [Next]_vars => RevivalInv'
<1> DEFINE Bound(l) == revivals[l] + Cardinality(Activating(l)) <= Cardinality(Requests)
           Fresh(l) == links[l] = "suggested" => revivals[l] = 0
<1> SUFFICES ASSUME TypeOK, RevivalInv, [Next]_vars, NEW l \in Links PROVE Bound(l)' /\ Fresh(l)'
  BY DEF RevivalInv, RevivalsBounded, Activating, Activates
<1>0. revivals[l] \in Nat /\ Bound(l) /\ Fresh(l)
  BY DEF TypeOK, RevivalInv, RevivalsBounded, Activating, Activates
<1>1. Activating(l) \subseteq Requests /\ Activating(l)' \subseteq Requests
  BY DEF Activating
<1>2. /\ IsFiniteSet(Activating(l)) /\ Cardinality(Activating(l)) \in Nat /\ Cardinality(Requests) \in Nat
      /\ Cardinality(Activating(l)') \in Nat /\ Cardinality(Activating(l)') <= Cardinality(Requests)
  BY <1>1, Counted
<1>3. ASSUME Activating(l)' \subseteq Activating(l), revivals'[l] = revivals[l],
             links'[l] \in {links[l], "active", "closed"}
      PROVE  Bound(l)' /\ Fresh(l)'
  <2>1. Cardinality(Activating(l)') <= Cardinality(Activating(l))
    BY <1>2, <1>3, Fewer
  <2> QED BY <1>0, <1>2, <1>3, <2>1
<1>4. CASE UNCHANGED vars
  BY <1>3, <1>4 DEF vars, linkVars, Activating
<1>5. ASSUME NEW r \in Requests, NEW found \in BOOLEAN, UpdateLink(r, found) PROVE Bound(l)' /\ Fresh(l)'
  <2>1. PICK n \in Getting : Becomes(r, n)
    BY <1>5, UpdateLinkRequest
  <2>2. ~Activates(n, l)
    BY NothingClaimed
  <2>3. Activating(l)' \subseteq Activating(l) \ {r}
    BY <2>1, <2>2 DEF Activating, Becomes
  <2>4. PICK x \in Links : x = req[r].link
    BY <1>5, LinkFacts
  <2>5. CASE UNCHANGED <<links, revivals>>
    BY <1>3, <2>3, <2>5
  <2>6. CASE /\ req[r].activates /\ links' = [links EXCEPT ![x] = "active"]
             /\ UNCHANGED revivals \/ revivals' = [revivals EXCEPT ![x] = @ + 1]
    <3>1. CASE l = x
      <4>1. r \in Activating(l)
        BY <1>5, <2>4, <2>6, <3>1 DEF Activating, Activates, UpdateLink
      <4>2. Cardinality(Activating(l)') + 1 <= Cardinality(Activating(l))
        BY <1>2, <2>3, <4>1, OneFewer
      <4>3. links'[l] = "active" /\ (revivals'[l] = revivals[l] \/ revivals'[l] = revivals[l] + 1)
        BY <2>6, <3>1 DEF TypeOK
      <4> QED BY <1>0, <1>2, <4>2, <4>3
    <3>2. CASE l # x
      <4>1. links'[l] = links[l] /\ revivals'[l] = revivals[l]
        BY <2>6, <3>2 DEF TypeOK
      <4> QED BY <1>3, <2>3, <4>1
    <3> QED BY <3>1, <3>2
  <2> QED BY <1>5, <2>4, <2>5, <2>6, UpdateLinkEffect
<1>6. ASSUME NEW r \in Requests, NEW n, Follows(r, n), ~GetLink(r, l) PROVE Activating(l)' \subseteq Activating(l)
  BY <1>6 DEF Follows, Becomes, Activating
<1>7. ASSUME NEW r \in Requests, NEW x \in Links, NEW found \in BOOLEAN, ArchiveStale(r, x, found)
      PROVE  Bound(l)' /\ Fresh(l)'
  <2>1. Activating(l)' \subseteq Activating(l)
    BY <1>6, <1>7, LinkFollows DEF LinkTurn, ArchiveStale, GetLink
  <2>2. revivals'[l] = revivals[l] /\ links'[l] \in {links[l], "closed"}
    BY <1>7 DEF ArchiveStale, TypeOK
  <2> QED BY <1>3, <2>1, <2>2
<1>8. ASSUME NEW r \in Requests, EffectOnLink(r) PROVE Bound(l)' /\ Fresh(l)'
  <2>1. Activating(l)' \subseteq Activating(l)
    BY <1>6, <1>8, LinkFollows DEF LinkTurn, EffectOnLink, GetLink
  <2>2. revivals'[l] = revivals[l] /\ links'[l] \in {links[l], "closed"}
    BY <1>8 DEF EffectOnLink, TypeOK
  <2> QED BY <1>3, <2>1, <2>2
<1>9. ASSUME NEW x \in Links, NEW status \in Statuses, SetStatus(x, status), req' = req PROVE Bound(l)' /\ Fresh(l)'
  <2>1. Activating(l)' = Activating(l)
    BY <1>9 DEF Activating
  <2>2. CASE l = x
    <3>1. revivals'[l] = 0
      BY <1>9, <2>2 DEF SetStatus, TypeOK
    <3> QED BY <1>2, <3>1
  <2>3. CASE l # x
    <3>1. links'[l] = links[l] /\ revivals'[l] = revivals[l]
      BY <1>9, <2>3 DEF SetStatus, TypeOK
    <3> QED BY <1>3, <2>1, <3>1
  <2> QED BY <2>2, <2>3
<1>10. CASE Next /\ UNCHANGED <<links, revivals>>
  <2>1. ASSUME NEW r \in Requests, Turn(r) PROVE Bound(l)' /\ Fresh(l)'
    <3>1. PICK n : Follows(r, n)
      BY <2>1, TurnFollows
    <3>2. CASE links[l] = "suggested"
      <4>1. revivals'[l] = 0
        BY <1>0, <1>10, <3>2
      <4> QED BY <1>2, <4>1
    <3>3. CASE links[l] # "suggested"
      <4>1. Activating(l)' \subseteq Activating(l)
        BY <3>1, <3>3 DEF Follows, Becomes, Activating
      <4> QED BY <1>3, <1>10, <4>1
    <3> QED BY <3>2, <3>3
  <2>2. CASE req' = req
    BY <1>3, <1>10, <2>2 DEF Activating
  <2> QED BY <1>10, <2>1, <2>2, StepKinds
<1> QED BY <1>4, <1>5, <1>7, <1>8, <1>9, <1>10, LinkWriters

\* An archived link becomes active again at most once for each turn that was
\* reinforcing it when it was a suggestion still.
THEOREM RevivalsAreBounded == Spec => []RevivalsBounded
<1>1. Init => RevivalInv
  <2> SUFFICES ASSUME Init, NEW l \in Links
               PROVE  revivals[l] = 0 /\ revivals[l] + Cardinality(Activating(l)) <= Cardinality(Requests)
    BY DEF RevivalInv, RevivalsBounded, Activating, Activates
  <2>1. Activating(l) = {} /\ revivals[l] = 0
    <3>1. ~Activates(Idle, l)
      BY NothingClaimed
    <3> QED BY <3>1 DEF Init, LinkInit, Activating
  <2>2. Cardinality(Activating(l)) = 0 /\ Cardinality(Requests) \in Nat
    BY <2>1, FS_EmptySet, Counted
  <2> QED BY <2>1, <2>2
<1>2. RevivalInv => RevivalsBounded
  BY DEF RevivalInv
<1> QED BY <1>1, <1>2, RevivalStep, TypeCorrect, PTL DEF Spec

------------------------------------------------------------------------------
(* Suggestions for links.                                                  *)

Creating(l) == {r \in Requests : Creates(req[r], l)}

\* A row that stays as it was, is removed or gets a decision.
LEMMA FewerSuggested ==
    ASSUME NEW s, \A i \in Ids : rows'[i] = rows[i] \/ rows'[i] = NoRow \/ rows'[i].status # "suggested"
    PROVE  Suggested(s)' \subseteq Suggested(s)
<1>1. [subject |-> s, status |-> "suggested"].status = "suggested" /\ NoRow.status = "none"
  BY DEF NoRow
<1>2. [subject |-> s, status |-> "suggested"] # NoRow
  BY <1>1
<1> QED BY <1>1, <1>2 DEF Suggested

\* The steps that store no suggestion.
LEMMA NothingSuggested ==
    ASSUME TypeOK, Next, NEW s,
           ~ \E r \in Requests, i \in Ids, t \in Detected : Create(r, i, t),
           ~ \E r \in Requests, i \in Ids, t \in Links : CreateLink(r, i, t)
    PROVE  Suggested(s)' \subseteq Suggested(s)
<1>1. CASE UNCHANGED rows
  BY <1>1 DEF Suggested
<1>2. ASSUME NEW i \in Ids, NEW d \in Decisions, MarkRow(i, d) PROVE Suggested(s)' \subseteq Suggested(s)
  <2>1. [subject |-> rows[i].subject, status |-> d].status # "suggested"
    BY DEF Decisions
  <2>2. \A x \in Ids : rows'[x] = rows[x] \/ rows'[x].status # "suggested"
    BY <1>2, <2>1, MarkedRow
  <2> QED BY <2>2, FewerSuggested
<1>3. ASSUME NEW r \in Requests, Reset(r) PROVE Suggested(s)' \subseteq Suggested(s)
  BY <1>3, ResetRows, FewerSuggested
<1>4. ASSUME NEW r \in Requests, Mark(r) PROVE Suggested(s)' \subseteq Suggested(s)
  BY <1>2, <1>4, MarkFacts DEF Decisions
<1>5. ASSUME NEW i \in Ids, Decline(i) PROVE Suggested(s)' \subseteq Suggested(s)
  BY <1>2, <1>5 DEF Decline, Decisions
<1> QED BY <1>1, <1>3, <1>4, <1>5, RowWriters

LEMMA OneSuggested ==
    ASSUME TypeOK, NEW i \in Ids, NEW t \in Subjects, Insert(i, t), NEW s
    PROVE  /\ s # t => Suggested(s)' = Suggested(s)
           /\ s = t => Suggested(s)' = Suggested(s) \cup {i}
<1>1. /\ rows[i] = NoRow /\ rows'[i] = [subject |-> t, status |-> "suggested"]
      /\ \A x \in Ids \ {i} : rows'[x] = rows[x]
  BY InsertRow
<1>2. [subject |-> s, status |-> "suggested"] # NoRow
  BY DEF NoRow
<1>3. s # t => [subject |-> s, status |-> "suggested"] # [subject |-> t, status |-> "suggested"]
  OBVIOUS
<1> QED BY <1>1, <1>2, <1>3 DEF Suggested

LEMMA LinkSuggestionsStep == TypeOK /\ LinkSuggestionsBounded /\ [Next]_vars => LinkSuggestionsBounded'
<1> DEFINE Bound(l) == Cardinality(Suggested(l)) + Cardinality(Creating(l)) <= Cardinality(Requests) + missed[l]
<1> SUFFICES ASSUME TypeOK, LinkSuggestionsBounded, [Next]_vars, NEW l \in Links PROVE Bound(l)'
  BY DEF LinkSuggestionsBounded, Creating, Creates
<1>0. Bound(l) /\ missed[l] \in Nat
  BY DEF LinkSuggestionsBounded, Creating, Creates, TypeOK
<1>1. /\ Creating(l) \subseteq Requests /\ Creating(l)' \subseteq Requests
      /\ Suggested(l) \subseteq Ids /\ Suggested(l)' \subseteq Ids
  BY DEF Creating, Suggested
<1>2. /\ IsFiniteSet(Creating(l)) /\ Cardinality(Creating(l)) \in Nat /\ Cardinality(Requests) \in Nat
      /\ Cardinality(Creating(l)') \in Nat /\ Cardinality(Creating(l)') <= Cardinality(Requests)
      /\ IsFiniteSet(Suggested(l)) /\ Cardinality(Suggested(l)) \in Nat /\ Cardinality(Suggested(l)') \in Nat
  BY <1>1, Counted
<1>3. ASSUME Creating(l)' \subseteq Creating(l), Suggested(l)' \subseteq Suggested(l), missed'[l] = missed[l]
      PROVE  Bound(l)'
  <2>1. Cardinality(Creating(l)') <= Cardinality(Creating(l)) /\ Cardinality(Suggested(l)') <= Cardinality(Suggested(l))
    BY <1>2, <1>3, Fewer
  <2> QED BY <1>0, <1>2, <1>3, <2>1
<1>4. CASE UNCHANGED vars
  BY <1>3, <1>4 DEF vars, linkVars, Creating, Suggested
<1>9. ASSUME NEW r \in Requests, NEW listed \in SUBSET Ids, ListKeys(r, listed) PROVE Bound(l)'
  <2>1. PICK n \in Suggesting :
          /\ Becomes(r, n) /\ n.pc = "create"
          /\ n.pending = {x \in req[r].pending : Suggested(x) \cap listed = {}}
    BY <1>9, ListKeysRequest
  <2>2. Suggested(l)' = Suggested(l) /\ req[r].pc = "keys"
    BY <1>9 DEF ListKeys, Suggested
  <2> DEFINE Misses == l \in req[r].pending /\ Suggested(l) # {} /\ Suggested(l) \cap listed = {}
  <2>3. missed'[l] = IF Suggested(l) = {} THEN 0 ELSE IF Misses THEN missed[l] + 1 ELSE missed[l]
    BY <1>9 DEF ListKeys
  <2>4. CASE Suggested(l) = {}
    <3>1. Cardinality(Suggested(l)') = 0
      BY <2>2, <2>4, FS_EmptySet
    <3>2. missed'[l] = 0
      BY <2>3, <2>4
    <3> QED BY <1>2, <3>1, <3>2
  <2>5. CASE Misses
    <3>1. Creating(l)' \subseteq Creating(l) \cup {r}
      BY <2>1 DEF Creating, Creates, Becomes
    <3>2. Cardinality(Creating(l)') <= Cardinality(Creating(l)) + 1
      BY <1>2, <3>1, OneMore
    <3>3. missed'[l] = missed[l] + 1
      BY <2>3, <2>5
    <3> QED BY <1>0, <1>2, <2>2, <3>2, <3>3
  <2>6. CASE Suggested(l) # {} /\ ~Misses
    <3>1. ~ Creates(n, l)
      BY <2>1, <2>6 DEF Creates
    <3>2. Creating(l)' \subseteq Creating(l)
      BY <2>1, <3>1 DEF Creating, Becomes
    <3>3. missed'[l] = missed[l]
      BY <2>3, <2>6
    <3> QED BY <1>3, <2>2, <3>2, <3>3
  <2> QED BY <2>4, <2>5, <2>6
<1>5. ASSUME NEW r \in Requests, NEW i \in Ids, NEW x \in Links, CreateLink(r, i, x) PROVE Bound(l)'
  <2>1. PICK n \in Suggesting : Becomes(r, n) /\ n.pc = "create" /\ n.pending = req[r].pending \ {x}
    BY <1>5, CreateLinkRequest
  <2>2. req[r].pc = "create" /\ x \in req[r].pending /\ Insert(i, x) /\ x \in Subjects /\ missed' = missed
    BY <1>5 DEF CreateLink, Subjects, linkVars
  <2>3. CASE l = x
    <3>1. r \in Creating(l) /\ Creating(l)' \subseteq Creating(l) \ {r}
      BY <2>1, <2>2, <2>3 DEF Creating, Creates, Becomes
    <3>2. Suggested(l)' \subseteq Suggested(l) \cup {i}
      BY <2>2, <2>3, OneSuggested
    <3>3. Cardinality(Creating(l)') + 1 <= Cardinality(Creating(l))
      BY <1>2, <3>1, OneFewer
    <3>4. Cardinality(Suggested(l)') <= Cardinality(Suggested(l)) + 1
      BY <1>2, <3>2, OneMore
    <3> QED BY <1>0, <1>2, <2>2, <3>3, <3>4
  <2>4. CASE l # x
    <3>1. Creating(l)' \subseteq Creating(l)
      BY <2>1, <2>2 DEF Creating, Creates, Becomes
    <3>2. Suggested(l)' = Suggested(l)
      BY <2>2, <2>4, OneSuggested
    <3> QED BY <1>3, <2>2, <3>1, <3>2
  <2> QED BY <2>3, <2>4
<1>6. ASSUME NEW r \in Requests, NEW i \in Ids, NEW s \in Detected, Create(r, i, s) PROVE Bound(l)'
  <2>1. PICK n \in Refreshing : Becomes(r, n)
    BY <1>6, TakeRequest DEF Create
  <2>2. Creating(l)' \subseteq Creating(l)
    BY <2>1, NothingClaimed DEF Creating, Becomes
  <2>3. l # s /\ s \in Subjects
    BY BoundsAssumption DEF Subjects
  <2>4. Suggested(l)' = Suggested(l)
    BY <1>6, <2>3, OneSuggested DEF Create
  <2>5. CASE UNCHANGED missed
    BY <1>3, <2>2, <2>4, <2>5
  <2> QED BY <1>4, <1>9, <2>5, MissedWriters
<1>7. CASE /\ Next
           /\ ~ \E r \in Requests, i \in Ids, t \in Detected : Create(r, i, t)
           /\ ~ \E r \in Requests, i \in Ids, t \in Links : CreateLink(r, i, t)
           /\ ~ \E r \in Requests, listed \in SUBSET Ids : ListKeys(r, listed)
  <2>1. Suggested(l)' \subseteq Suggested(l)
    BY <1>7, NothingSuggested
  <2>2. UNCHANGED missed
    BY <1>7, MissedWriters
  <2>3. ASSUME NEW r \in Requests, Turn(r) PROVE Bound(l)'
    <3>1. PICK n : Follows(r, n)
      BY <2>3, TurnFollows
    <3>2. Creating(l)' \subseteq Creating(l)
      BY <1>7, <3>1 DEF Follows, Becomes, Creating
    <3> QED BY <1>3, <2>1, <2>2, <3>2
  <2>4. CASE req' = req
    BY <1>3, <2>1, <2>2, <2>4 DEF Creating
  <2> QED BY <1>7, <2>3, <2>4, StepKinds
<1> QED BY <1>4, <1>5, <1>6, <1>7, <1>9

\* There are no more suggestions for a link at a time than requests, and one more
\* for every listing of the keys whose limit cut off all that the link had.
THEOREM LinkSuggestionsAreBounded == Spec => []LinkSuggestionsBounded
<1>1. Init => LinkSuggestionsBounded
  <2> SUFFICES ASSUME Init, NEW l \in Links
               PROVE  Cardinality(Suggested(l)) + Cardinality(Creating(l)) <= Cardinality(Requests) + missed[l]
    BY DEF LinkSuggestionsBounded, Creating, Creates
  <2>1. Creating(l) = {}
    BY NothingClaimed DEF Init, Creating
  <2>2. Suggested(l) = {}
    BY DEF Init, Suggested, NoRow
  <2>3. Cardinality({}) = 0 /\ Cardinality(Requests) \in Nat /\ missed[l] = 0
    BY FS_EmptySet, Counted DEF Init, LinkInit
  <2> QED BY <2>1, <2>2, <2>3
<1> QED BY <1>1, LinkSuggestionsStep, TypeCorrect, PTL DEF Spec

------------------------------------------------------------------------------
(* Applied suggestions.                                                    *)

\* A request that applies a suggestion has the subject of the row it loaded,
\* as long as that row is there.
RowInv == \A r \in Requests :
    Applies(req[r]) /\ rows[req[r].row] # NoRow => rows[req[r].row].subject = req[r].subject

\* A row never changes its subject, and no row appears under the id that a
\* request under way has loaded.
LEMMA RowSubjects ==
    ASSUME TypeOK, Next, NEW i \in Ids, rows'[i] # NoRow
    PROVE  \/ rows[i] # NoRow /\ rows'[i].subject = rows[i].subject
           \/ \A x \in Requests : Applies(req[x]) => req[x].row # i
<1>1. CASE UNCHANGED rows
  BY <1>1
<1>2. ASSUME NEW j \in Ids, NEW s \in Subjects, Insert(j, s)
      PROVE  \/ rows[i] # NoRow /\ rows'[i].subject = rows[i].subject
             \/ \A x \in Requests : Applies(req[x]) => req[x].row # i
  <2>1. CASE i = j
    BY <1>2, <2>1 DEF Insert, Applies
  <2>2. CASE i # j
    BY <1>2, <2>2, InsertRow
  <2> QED BY <2>1, <2>2
<1>3. ASSUME NEW j \in Ids, NEW d \in Decisions, MarkRow(j, d)
      PROVE  rows[i] # NoRow /\ rows'[i].subject = rows[i].subject
  <2>1. [subject |-> rows[j].subject, status |-> d].subject = rows[j].subject
    OBVIOUS
  <2> QED BY <1>3, <2>1, MarkedRow
<1>4. ASSUME NEW r \in Requests, Reset(r) PROVE rows[i] # NoRow /\ rows'[i].subject = rows[i].subject
  BY <1>4, ResetRows
<1>5. ASSUME NEW r \in Requests, Mark(r) PROVE rows[i] # NoRow /\ rows'[i].subject = rows[i].subject
  BY <1>3, <1>5, MarkFacts DEF Decisions
<1>6. ASSUME NEW j \in Ids, Decline(j) PROVE rows[i] # NoRow /\ rows'[i].subject = rows[i].subject
  BY <1>3, <1>6 DEF Decline, Decisions
<1> QED BY <1>1, <1>2, <1>4, <1>5, <1>6, RowWriters DEF Create, CreateLink, Subjects

LEMMA RowStep == TypeOK /\ RowInv /\ [Next]_vars => RowInv'
<1> SUFFICES ASSUME TypeOK, RowInv, [Next]_vars, NEW x \in Requests, Applies(req'[x]), rows'[req'[x].row] # NoRow
             PROVE  rows'[req'[x].row].subject = req'[x].subject
  BY DEF RowInv, Applies
<1>1. CASE UNCHANGED vars
  BY <1>1 DEF vars, RowInv, Applies
<1>2. ASSUME Next, req'[x] = req[x] PROVE rows'[req'[x].row].subject = req'[x].subject
  <2>1. req[x].row \in Ids
    BY <1>2, RequestShape DEF Applies, Applying
  <2>2. rows[req[x].row] # NoRow /\ rows'[req[x].row].subject = rows[req[x].row].subject
    BY <1>2, <2>1, RowSubjects
  <2> QED BY <1>2, <2>2 DEF RowInv
<1>3. ASSUME Next, NEW r \in Requests, Turn(r) PROVE rows'[req'[x].row].subject = req'[x].subject
  <2>1. PICK n : Follows(r, n)
    BY <1>3, TurnFollows
  <2>2. CASE x = r
    <3>1. req'[x] = n /\ Applies(n)
      BY <2>1, <2>2 DEF Follows, Becomes
    <3>2. UNCHANGED rows
      BY <2>1, <3>1 DEF Follows
    <3> QED BY <2>1, <2>2, <3>1, <3>2 DEF Follows, RowInv
  <2>3. CASE x # r
    BY <1>2, <1>3, <2>1, <2>3 DEF Follows, Becomes
  <2> QED BY <2>2, <2>3
<1> QED BY <1>1, <1>2, <1>3, StepKinds

LEMMA RowAlways == Spec => []RowInv
<1>1. Init => RowInv
  BY NothingClaimed DEF Init, RowInv
<1> QED BY <1>1, RowStep, TypeCorrect, PTL DEF Spec

\* Applications done or still to be marked, and the opening not used yet.
Applied(s) == {i \in Ids : rows[i] = [subject |-> s, status |-> "applied"]}
Marking(s) == {r \in Requests : Marks(req[r], s)}
Unused(s) == IF record[s] = "open" THEN 1 ELSE 0

AppliedInv == \A s \in OfKind("contradiction") :
    Cardinality(Applied(s)) + Cardinality(Marking(s)) + Unused(s) <= openings[s]

\* Rows that were not applied by this step.
LEMMA FewerApplied ==
    ASSUME NEW s, \A i \in Ids : rows'[i] = rows[i] \/ rows'[i] = NoRow \/ rows'[i].status # "applied"
    PROVE  Applied(s)' \subseteq Applied(s)
<1>1. [subject |-> s, status |-> "applied"].status = "applied" /\ NoRow.status = "none"
  BY DEF NoRow
<1>2. [subject |-> s, status |-> "applied"] # NoRow
  BY <1>1
<1> QED BY <1>1, <1>2 DEF Applied

LEMMA NothingApplied ==
    ASSUME TypeOK, Next, NEW s, ~ \E r \in Requests : Mark(r)
    PROVE  Applied(s)' \subseteq Applied(s)
<1>1. CASE UNCHANGED rows
  BY <1>1 DEF Applied
<1>2. ASSUME NEW i \in Ids, NEW t \in Subjects, Insert(i, t) PROVE Applied(s)' \subseteq Applied(s)
  <2>1. [subject |-> t, status |-> "suggested"].status # "applied"
    OBVIOUS
  <2>2. \A x \in Ids : rows'[x] = rows[x] \/ rows'[x].status # "applied"
    BY <1>2, <2>1, InsertRow
  <2> QED BY <2>2, FewerApplied
<1>3. ASSUME NEW i \in Ids, Decline(i) PROVE Applied(s)' \subseteq Applied(s)
  <2>1. [subject |-> rows[i].subject, status |-> "declined"].status # "applied"
    OBVIOUS
  <2>2. \A x \in Ids : rows'[x] = rows[x] \/ rows'[x].status # "applied"
    BY <1>3, <2>1, MarkedRow DEF Decline, Decisions
  <2> QED BY <2>2, FewerApplied
<1>4. ASSUME NEW r \in Requests, Reset(r) PROVE Applied(s)' \subseteq Applied(s)
  BY <1>4, ResetRows, FewerApplied
<1> QED BY <1>1, <1>2, <1>3, <1>4, RowWriters DEF Create, CreateLink, Subjects

LEMMA AppliedStep == TypeOK /\ RowInv /\ AppliedInv /\ [Next]_vars => AppliedInv'
<1> DEFINE Bound(s) == Cardinality(Applied(s)) + Cardinality(Marking(s)) + Unused(s) <= openings[s]
<1> SUFFICES ASSUME TypeOK, RowInv, AppliedInv, [Next]_vars, NEW s \in OfKind("contradiction") PROVE Bound(s)'
  BY DEF AppliedInv, OfKind
<1>0. s \in Detected /\ Kind[s] = "contradiction" /\ openings[s] \in Nat /\ Bound(s) /\ s \notin Links
  BY BoundsAssumption DEF OfKind, AppliedInv, TypeOK
<1>1. /\ Applied(s) \subseteq Ids /\ Applied(s)' \subseteq Ids
      /\ Marking(s) \subseteq Requests /\ Marking(s)' \subseteq Requests
  BY DEF Applied, Marking
<1>2. /\ IsFiniteSet(Applied(s)) /\ Cardinality(Applied(s)) \in Nat /\ Cardinality(Applied(s)') \in Nat
      /\ IsFiniteSet(Marking(s)) /\ Cardinality(Marking(s)) \in Nat /\ Cardinality(Marking(s)') \in Nat
  BY <1>1, Counted
<1>3. ASSUME Applied(s)' \subseteq Applied(s), Marking(s)' \subseteq Marking(s),
             \/ openings'[s] = openings[s] /\ (record'[s] = record[s] \/ record'[s] = "closed")
             \/ openings'[s] = openings[s] + 1 /\ record[s] # "open"
      PROVE  Bound(s)'
  <2>1. Cardinality(Applied(s)') <= Cardinality(Applied(s)) /\ Cardinality(Marking(s)') <= Cardinality(Marking(s))
    BY <1>2, <1>3, Fewer
  <2>2. Unused(s)' <= 1 /\ Unused(s) >= 0 /\ Unused(s) \in Nat /\ Unused(s)' \in Nat
    BY DEF Unused
  <2>3. CASE openings'[s] = openings[s] /\ (record'[s] = record[s] \/ record'[s] = "closed")
    <3>1. Unused(s)' <= Unused(s)
      BY <2>3 DEF Unused
    <3> QED BY <1>0, <1>2, <2>1, <2>2, <2>3, <3>1
  <2>4. CASE openings'[s] = openings[s] + 1 /\ record[s] # "open"
    <3>1. Unused(s) = 0
      BY <2>4 DEF Unused
    <3> QED BY <1>0, <1>2, <2>1, <2>2, <2>4, <3>1
  <2> QED BY <1>3, <2>3, <2>4
<1>4. CASE UNCHANGED vars
  BY <1>3, <1>4 DEF vars, Applied, Marking
<1>5. ASSUME NEW r \in Requests, Effect(r) PROVE Bound(s)'
  <2>1. PICK n \in Applying : Becomes(r, n) /\ n.pc = "mark" /\ n.subject = req[r].subject
    BY <1>5, EffectRequest
  <2>2. PICK t \in Detected : t = req[r].subject
    BY <1>5 DEF Effect
  <2>3. /\ UNCHANGED <<rows, openings>> /\ record' = [record EXCEPT ![t] = "closed"]
        /\ Kind[t] = "contradiction" => record[t] = "open"
    BY <1>5, <2>2 DEF Effect, Settle
  <2>4. Applied(s)' = Applied(s)
    BY <2>3 DEF Applied
  <2>5. CASE s = t
    <3>1. Unused(s) = 1 /\ Unused(s)' = 0 /\ openings'[s] = openings[s]
      BY <1>0, <2>3, <2>5 DEF Unused, TypeOK
    <3>2. Marking(s)' \subseteq Marking(s) \cup {r}
      BY <2>1 DEF Marking, Becomes
    <3>3. Cardinality(Marking(s)') <= Cardinality(Marking(s)) + 1
      BY <1>2, <3>2, OneMore
    <3> QED BY <1>0, <1>2, <2>4, <3>1, <3>3
  <2>6. CASE s # t
    <3>1. Marking(s)' \subseteq Marking(s)
      BY <2>1, <2>2, <2>6 DEF Marking, Marks, Becomes
    <3>2. record'[s] = record[s] /\ openings'[s] = openings[s]
      BY <1>0, <2>3, <2>6 DEF TypeOK
    <3> QED BY <1>3, <2>4, <3>1, <3>2
  <2> QED BY <2>5, <2>6
<1>6. ASSUME NEW r \in Requests, Mark(r) PROVE Bound(s)'
  <2>1. /\ Becomes(r, Idle) /\ req[r].pc = "mark" /\ req[r].row \in Ids /\ MarkRow(req[r].row, "applied")
        /\ UNCHANGED <<record, openings>>
    BY <1>6, MarkFacts DEF Mark
  <2>2. PICK i \in Ids : i = req[r].row /\ MarkRow(i, "applied")
    BY <2>1
  <2>3. Marking(s)' \subseteq Marking(s) \ {r}
    BY <2>1, NothingClaimed DEF Marking, Becomes
  <2>4. /\ rows[i] = NoRow => rows' = rows
        /\ rows[i] # NoRow => rows'[i] = [subject |-> rows[i].subject, status |-> "applied"]
        /\ \A x \in Ids \ {i} : rows'[x] = rows[x]
    BY <2>2, MarkedRow DEF Decisions
  <2>5. rows[i] # NoRow => rows[i].subject = req[r].subject
    BY <2>1, <2>2 DEF RowInv, Applies
  <2>6. CASE r \in Marking(s)
    <3>1. Applied(s)' \subseteq Applied(s) \cup {i}
      BY <2>4 DEF Applied
    <3>2. Cardinality(Applied(s)') <= Cardinality(Applied(s)) + 1
      BY <1>2, <3>1, OneMore
    <3>3. Cardinality(Marking(s)') + 1 <= Cardinality(Marking(s))
      BY <1>2, <2>3, <2>6, OneFewer
    <3>4. Unused(s)' = Unused(s) /\ Unused(s) \in Nat /\ openings'[s] = openings[s]
      BY <2>1 DEF Unused
    <3> QED BY <1>0, <1>2, <3>2, <3>3, <3>4
  <2>7. CASE r \notin Marking(s)
    <3>1. req[r].subject # s
      BY <2>1, <2>7 DEF Marking, Marks
    <3>2. Applied(s)' \subseteq Applied(s)
      <4>1. [subject |-> req[r].subject, status |-> "applied"] # [subject |-> s, status |-> "applied"]
        BY <3>1
      <4> QED BY <2>4, <2>5, <4>1 DEF Applied
    <3> QED BY <1>3, <2>1, <2>3, <3>2
  <2> QED BY <2>6, <2>7
<1>7. CASE Next /\ (~ \E r \in Requests : Mark(r)) /\ ~ \E r \in Requests : Effect(r)
  <2>1. Applied(s)' \subseteq Applied(s)
    BY <1>7, NothingApplied
  <2>2. Marking(s)' \subseteq Marking(s)
    <3>1. ASSUME NEW r \in Requests, Turn(r) PROVE Marking(s)' \subseteq Marking(s)
      <4>1. PICK n : Follows(r, n)
        BY <3>1, TurnFollows
      <4>2. ~ Marks(n, s)
        BY <1>0, <1>7, <4>1 DEF Follows, Subjects, EffectOnLink
      <4> QED BY <4>1, <4>2 DEF Follows, Becomes, Marking
    <3>2. CASE req' = req
      BY <3>2 DEF Marking
    <3> QED BY <1>7, <3>1, <3>2, StepKinds
  <2>3. ASSUME NEW r \in Requests, NEW t \in Detected, Upsert(r, t) PROVE Bound(s)'
    <3>1. \/ UNCHANGED <<record, openings>>
          \/ /\ record[t] # "open" /\ record' = [record EXCEPT ![t] = "open"]
             /\ openings' = [openings EXCEPT ![t] = @ + 1]
      BY <2>3 DEF Upsert
    <3>2. \/ openings'[s] = openings[s] /\ record'[s] = record[s]
          \/ openings'[s] = openings[s] + 1 /\ record[s] # "open"
      BY <1>0, <3>1 DEF TypeOK
    <3> QED BY <1>3, <2>1, <2>2, <3>2
  <2>4. ASSUME NEW t \in Detected, SettleDirectly(t) PROVE Bound(s)'
    <3>1. openings'[s] = openings[s] /\ (record'[s] = record[s] \/ record'[s] = "closed")
      BY <1>0, <2>4 DEF SettleDirectly, Settle, TypeOK
    <3> QED BY <1>3, <2>1, <2>2, <3>1
  <2>5. CASE UNCHANGED <<record, openings>>
    BY <1>3, <2>1, <2>2, <2>5
  <2> QED BY <1>7, <2>3, <2>4, <2>5, RecordWriters
<1> QED BY <1>4, <1>5, <1>6, <1>7

\* Suggestions applied to an alert never outnumber its openings, however many
\* administrators apply them at the same time.
THEOREM AppliedOnce == Spec => []AppliedOncePerOpening
<1>1. Init => AppliedInv
  <2> SUFFICES ASSUME Init, NEW s \in OfKind("contradiction")
               PROVE  Cardinality(Applied(s)) + Cardinality(Marking(s)) + Unused(s) <= openings[s]
    BY DEF AppliedInv
  <2>1. Marking(s) = {}
    BY NothingClaimed DEF Init, Marking
  <2>2. Applied(s) = {}
    BY DEF Init, Applied, NoRow
  <2>3. Unused(s) = 0 /\ openings[s] = 0
    BY DEF Init, Unused, OfKind
  <2> QED BY <2>1, <2>2, <2>3, FS_EmptySet
<1>2. TypeOK /\ AppliedInv => AppliedOncePerOpening
  <2> SUFFICES ASSUME TypeOK, AppliedInv, NEW s \in OfKind("contradiction")
               PROVE  Cardinality(Applied(s)) + Cardinality(Marking(s)) <= openings[s]
    BY DEF AppliedOncePerOpening, Applied, Marking, Marks
  <2>1. Cardinality(Applied(s)) \in Nat /\ Cardinality(Marking(s)) \in Nat
    BY Counted DEF Applied, Marking
  <2>2. openings[s] \in Nat /\ Unused(s) \in Nat
    BY DEF TypeOK, OfKind, Unused
  <2> QED BY <2>1, <2>2 DEF AppliedInv
<1> QED BY <1>1, <1>2, AppliedStep, RowAlways, TypeCorrect, PTL DEF Spec

------------------------------------------------------------------------------
(* Pages.                                                                  *)

Rank(k, s) == Cardinality(Before(k, s))
Listed(k, offset) == {s \in Open(k) : Rank(k, s) < offset}

LEMMA RankType ==
    ASSUME NEW k, NEW s \in Open(k)
    PROVE  Rank(k, s) \in 0..(Cardinality(Open(k)) - 1) /\ IsFiniteSet(Before(k, s))
<1>1. IsFiniteSet(Open(k)) /\ Cardinality(Open(k)) \in Nat /\ s \in Detected
  BY PageSubset
<1>2. Before(k, s) \subseteq Open(k) \ {s}
  BY <1>1, PositionAssumption DEF Before
<1>3. Cardinality(Before(k, s)) + 1 <= Cardinality(Open(k))
  BY <1>1, <1>2, OneFewer
<1>4. IsFiniteSet(Before(k, s)) /\ Cardinality(Before(k, s)) \in Nat
  BY <1>1, <1>2, FS_Subset, FS_CardinalityType
<1> QED BY <1>1, <1>3, <1>4 DEF Rank

LEMMA RankOrder ==
    ASSUME NEW k, NEW s \in Open(k), NEW t \in Open(k), Position[s] < Position[t]
    PROVE  Rank(k, s) < Rank(k, t)
<1>1. s \in Detected /\ t \in Detected /\ Open(k) \subseteq Detected
  BY PageSubset
<1>2. \A x \in Detected : Position[x] \in Nat
  BY PositionAssumption
<1>3. s \in Before(k, t) /\ Before(k, s) \subseteq Before(k, t) \ {s}
  BY <1>1, <1>2 DEF Before
<1>4. Cardinality(Before(k, s)) + 1 <= Cardinality(Before(k, t))
  BY <1>3, RankType, OneFewer
<1> QED BY <1>4, RankType DEF Rank

\* Every place below the number of open records is the rank of exactly one.
LEMMA RankBijective ==
    ASSUME NEW k
    PROVE  /\ \A s, t \in Open(k) : Rank(k, s) = Rank(k, t) => s = t
           /\ \A j \in 0..(Cardinality(Open(k)) - 1) : \E s \in Open(k) : Rank(k, s) = j
<1> DEFINE m == Cardinality(Open(k))
           f == [s \in Open(k) |-> Rank(k, s)]
<1>1. m \in Nat /\ IsFiniteSet(Open(k)) /\ Open(k) \subseteq Detected
  BY PageSubset
<1>2. \A s, t \in Open(k) : Rank(k, s) = Rank(k, t) => s = t
  <2> SUFFICES ASSUME NEW s \in Open(k), NEW t \in Open(k), s # t PROVE Rank(k, s) # Rank(k, t)
    OBVIOUS
  <2>1. Position[s] \in Nat /\ Position[t] \in Nat /\ Position[s] # Position[t]
    BY <1>1, PositionAssumption
  <2>2. Rank(k, s) \in Nat /\ Rank(k, t) \in Nat
    BY <1>1, RankType
  <2> QED BY <2>1, <2>2, RankOrder
<1>3. f \in Injection(Open(k), 0..(m - 1))
  <2>1. f \in [Open(k) -> 0..(m - 1)]
    BY RankType
  <2>2. \A s, t \in Open(k) : f[s] = f[t] => s = t
    BY <1>2
  <2> HIDE DEF f, m
  <2> QED BY <2>1, <2>2 DEF Injection, IsInjective
<1>4. IsFiniteSet(0..(m - 1)) /\ Cardinality(0..(m - 1)) = m
  BY <1>1, FS_Interval
<1>5. f \in Surjection(Open(k), 0..(m - 1))
  BY <1>3, <1>4, FS_Injection
<1>6. \A j \in 0..(m - 1) : \E s \in Open(k) : f[s] = j
  BY <1>5 DEF Surjection
<1> QED BY <1>2, <1>6

\* A page that is not full is the last one, and offsets count what was listed.
LEMMA PageLemma ==
    ASSUME NEW k, NEW offset \in Nat, offset <= Cardinality(Open(k))
    PROVE  LET page == Page(k, offset)
               next == offset + Cardinality(page)
           IN  /\ Listed(k, next) = Listed(k, offset) \cup page
               /\ Listed(k, offset) \cap page = {}
               /\ next <= Cardinality(Open(k))
               /\ Cardinality(page) # PageSize => Listed(k, next) = Open(k)
<1> DEFINE m == Cardinality(Open(k))
           last == IF offset + PageSize <= m THEN offset + PageSize - 1 ELSE m - 1
           page == Page(k, offset)
           g == [s \in page |-> Rank(k, s)]
<1>1. m \in Nat /\ PageSize \in Nat \ {0} /\ offset \in Nat /\ offset <= m
  BY PageSubset, BoundsAssumption
<1>2. page = {s \in Open(k) : Rank(k, s) \in offset..last}
  <2>1. ASSUME NEW s \in Open(k) PROVE Rank(k, s) \in offset..(offset + PageSize - 1) <=> Rank(k, s) \in offset..last
    BY <1>1, RankType
  <2> QED BY <2>1 DEF Page, Rank
<1>3. g \in Injection(page, offset..last)
  <2>1. g \in [page -> offset..last]
    BY <1>2
  <2>2. \A s, t \in page : g[s] = g[t] => s = t
    BY <1>2, RankBijective
  <2> HIDE DEF g, page, last
  <2> QED BY <2>1, <2>2 DEF Injection, IsInjective
<1>4. g \in Surjection(page, offset..last)
  <2>1. g \in [page -> offset..last]
    BY <1>2
  <2>2. ASSUME NEW j \in offset..last PROVE \E s \in page : g[s] = j
    <3>1. j \in 0..(m - 1)
      BY <1>1, <2>2
    <3>2. PICK s \in Open(k) : Rank(k, s) = j
      BY <3>1, RankBijective
    <3> QED BY <1>2, <2>2, <3>2
  <2> HIDE DEF g, page, last
  <2> QED BY <2>1, <2>2 DEF Surjection
<1>5. last \in Int /\ last - offset + 1 \in Nat
  BY <1>1
<1>6. IsFiniteSet(offset..last) /\ Cardinality(offset..last) = last - offset + 1
  <2> HIDE DEF last
  <2>1. IsFiniteSet(offset..last) /\ Cardinality(offset..last) = IF offset > last THEN 0 ELSE last - offset + 1
    <3>1. offset \in Int /\ last \in Int
      BY <1>1, <1>5
    <3> QED BY <3>1, FS_Interval
  <2> QED BY <1>1, <1>5, <2>1
<1>7. Cardinality(page) = last - offset + 1
  <2> HIDE DEF g, page, last
  <2> QED BY <1>3, <1>4, <1>6, FS_Injection
<1>8. offset + Cardinality(page) = last + 1
  BY <1>1, <1>5, <1>7
<1>9. Listed(k, last + 1) = Listed(k, offset) \cup page /\ Listed(k, offset) \cap page = {}
  <2>1. ASSUME NEW s \in Open(k)
        PROVE  /\ Rank(k, s) < last + 1 <=> Rank(k, s) < offset \/ Rank(k, s) \in offset..last
               /\ ~(Rank(k, s) < offset /\ Rank(k, s) \in offset..last)
    <3>1. Rank(k, s) \in Nat
      BY <1>1, RankType
    <3> QED BY <1>1, <1>5, <3>1
  <2> HIDE DEF page, last
  <2> QED BY <1>2, <2>1 DEF Listed
<1>10. last + 1 <= m
  BY <1>1
<1>11. Cardinality(page) # PageSize => last = m - 1
  BY <1>1, <1>7
<1>12. last = m - 1 => Listed(k, last + 1) = Open(k)
  BY <1>1, RankType DEF Listed
<1> QED BY <1>8, <1>9, <1>10, <1>11, <1>12

------------------------------------------------------------------------------
(* A refresh that runs alone.                                               *)

\* Exactly the records in "done" have a suggestion, and one each.
Suggestions(k, done) ==
    \A s \in OfKind(k) : IF s \in done THEN \E i \in Ids : Suggested(s) = {i} ELSE Suggested(s) = {}

\* What a refresh has suggested so far is every open record before its offset
\* but those still pending; after its last page that is every open record.
Paging(k, pending, offset, more) ==
    /\ pending \subseteq Listed(k, offset)
    /\ Suggestions(k, Listed(k, offset) \ pending)
    /\ offset <= Cardinality(Open(k))
    /\ ~more => Listed(k, offset) = Open(k)

\* The others are idle, and the request is where a refresh that began alone
\* may be.
Alone(r) ==
    /\ \A x \in Requests \ {r} : req[x] = Idle
    /\ req[r].pc \in {"upsert", "page"}
    /\ req[r].pc = "upsert" => req[r].offset = 0 /\ req[r].more
    /\ req[r].pc = "page" => Paging(req[r].kind, req[r].pending, req[r].offset, req[r].more)

QuietInv == \A r \in Requests : quiet = r => Alone(r)

LEMMA PagingSame ==
    ASSUME NEW k, NEW pending, NEW offset, NEW more, UNCHANGED <<record, rows>>
    PROVE  Paging(k, pending, offset, more)' <=> Paging(k, pending, offset, more)
BY DEF Paging, Suggestions, Suggested, Listed, Open, Rank, Before

LEMMA ResetPaging ==
    ASSUME TypeOK, NEW r \in Requests, Reset(r), NEW k, k = req[r].kind, NEW more, more
    PROVE  Paging(k, {}, 0, more)'
<1>1. Listed(k, 0)' = {}
  <2>1. ASSUME NEW s \in Open(k)' PROVE ~(Rank(k, s)' < 0)
    <3>1. record' = record
      BY DEF Reset
    <3>2. Rank(k, s)' = Rank(k, s) /\ s \in Open(k)
      BY <2>1, <3>1 DEF Rank, Before, Open
    <3>3. Rank(k, s) \in Nat /\ Cardinality(Open(k)) \in Nat
      BY <3>2, RankType, PageSubset
    <3> QED BY <3>2, <3>3
  <2> QED BY <2>1 DEF Listed
<1>2. Cardinality(Open(k)') \in Nat
  <2>1. Open(k)' = Open(k)
    BY DEF Open, Reset
  <2> QED BY <2>1, PageSubset
<1>3. ASSUME NEW s \in OfKind(k) PROVE Suggested(s)' = {}
  <2> SUFFICES ASSUME NEW i \in Ids, rows'[i] = [subject |-> s, status |-> "suggested"] PROVE FALSE
    BY DEF Suggested
  <2>1. rows'[i].status = "suggested" /\ rows'[i].subject = s /\ rows'[i] # NoRow
    BY DEF NoRow
  <2>2. rows'[i] = rows[i]
    BY <2>1, ResetRows
  <2>3. IsOfKind(i, req[r].kind)
    BY <1>3, <2>1, <2>2 DEF IsOfKind, Exists
  <2> QED BY <2>1, <2>2, <2>3, ResetRows
<1> QED BY <1>1, <1>2, <1>3 DEF Paging, Suggestions

\* Listing the next page.
LEMMA PagePaging ==
    ASSUME NEW k, NEW offset \in Nat, NEW more, NEW next, NEW page, NEW after,
           Paging(k, {}, offset, more), UNCHANGED <<record, rows>>,
           page = Page(k, offset), next = offset + Cardinality(page), ~after => Cardinality(page) # PageSize
    PROVE  Paging(k, page, next, after)'
<1>1. /\ Listed(k, next) = Listed(k, offset) \cup page /\ Listed(k, offset) \cap page = {}
      /\ next <= Cardinality(Open(k)) /\ (~after => Listed(k, next) = Open(k))
  BY PageLemma DEF Paging
<1>2. Listed(k, next) \ page = Listed(k, offset) /\ page \subseteq Listed(k, next)
  BY <1>1
<1>3. Suggestions(k, Listed(k, next) \ page)
  <2>1. Suggestions(k, Listed(k, offset) \ {})
    BY DEF Paging
  <2>2. Listed(k, offset) \ {} = Listed(k, next) \ page
    BY <1>2
  <2> QED BY <2>1, <2>2
<1>4. Paging(k, page, next, after)
  BY <1>1, <1>2, <1>3 DEF Paging
<1> QED BY <1>4 DEF Paging, Suggestions, Suggested, Listed, Open, Rank, Before

\* Suggesting one of the records that are pending.
LEMMA CreatePaging ==
    ASSUME TypeOK, NEW k, NEW pending, NEW offset, NEW more, NEW i \in Ids, NEW s \in pending,
           Paging(k, pending, offset, more), UNCHANGED record, Insert(i, s)
    PROVE  Paging(k, pending \ {s}, offset, more)'
<1>1. /\ Listed(k, offset)' = Listed(k, offset) /\ Open(k)' = Open(k)
  BY DEF Listed, Open, Rank, Before
<1>2. s \in Listed(k, offset) /\ s \in OfKind(k) /\ s \in Subjects
  BY DEF Paging, Listed, Open, OfKind, Subjects
<1>3. ASSUME NEW t \in OfKind(k)
      PROVE  IF t \in Listed(k, offset) \ (pending \ {s}) THEN \E j \in Ids : Suggested(t)' = {j} ELSE Suggested(t)' = {}
  <2>1. CASE t = s
    <3>1. Suggested(s) = {}
      BY <1>2 DEF Paging, Suggestions
    <3>2. Suggested(s)' = {i}
      BY <1>2, <3>1, OneSuggested
    <3> QED BY <1>2, <2>1, <3>2
  <2>2. CASE t # s
    <3>1. Suggested(t)' = Suggested(t)
      BY <1>2, <2>2, OneSuggested
    <3>2. IF t \in Listed(k, offset) \ pending THEN \E j \in Ids : Suggested(t) = {j} ELSE Suggested(t) = {}
      BY DEF Paging, Suggestions
    <3> QED BY <2>2, <3>1, <3>2
  <2> QED BY <2>1, <2>2
<1>4. Suggestions(k, Listed(k, offset) \ (pending \ {s}))'
  BY <1>1, <1>3 DEF Suggestions
<1> QED BY <1>1, <1>4 DEF Paging

LEMMA QuietStep == TypeOK /\ QuietInv /\ [Next]_vars => QuietInv'
<1> SUFFICES ASSUME TypeOK, QuietInv, [Next]_vars, NEW q \in Requests, quiet' = q PROVE Alone(q)'
  BY DEF QuietInv
<1>1. NoRequest # q
  BY BoundsAssumption
<1>2. quiet = q => Alone(q)
  BY DEF QuietInv
<1>3. ASSUME NEW n, req'[q] = n, \A x \in Requests \ {q} : req'[x] = Idle, n.pc \in {"upsert", "page"},
             n.pc = "upsert" => n.offset = 0 /\ n.more,
             n.pc = "page" => Paging(n.kind, n.pending, n.offset, n.more)'
      PROVE  Alone(q)'
  BY <1>3 DEF Alone
<1>4. CASE UNCHANGED vars
  <2>1. PICK n : n = req[q]
    OBVIOUS
  <2>2. Alone(q) /\ req' = req /\ UNCHANGED <<record, rows>>
    BY <1>4, <1>2 DEF vars
  <2>3. n.pc = "page" => Paging(n.kind, n.pending, n.offset, n.more)
    BY <2>1, <2>2 DEF Alone
  <2>4. n.pc = "page" => Paging(n.kind, n.pending, n.offset, n.more)'
    BY <2>2, <2>3, PagingSame
  <2> QED BY <1>3, <2>1, <2>2, <2>4 DEF Alone
<1>5. ASSUME NEW r \in Requests, req[r].pc \notin {"idle", "effect"}, quiet = q PROVE r = q
  BY <1>2, <1>5 DEF Alone, Idle
<1>6. ASSUME NEW r \in Requests, QueueTurn(r) PROVE Alone(q)'
  <2>1. ASSUME NEW k \in {"contradiction", "consolidate"}, NEW g \in SUBSET Detected, Refresh(r, k, g) PROVE Alone(q)'
    <3>1. r = q /\ \A x \in Requests : req[x] = Idle
      BY <1>1, <2>1 DEF Refresh
    <3>2. PICK n \in Refreshing : Becomes(r, n) /\ n.pc = "upsert" /\ n.offset = 0 /\ n.more
      BY <2>1, RefreshRequest
    <3> QED BY <1>3, <3>1, <3>2 DEF Becomes
  <2>2. ASSUME NEW s \in Detected, Upsert(r, s) PROVE Alone(q)'
    <3>1. quiet = q /\ req[r].pc = "upsert"
      BY <2>2 DEF Upsert
    <3>2. r = q
      BY <1>5, <3>1
    <3>3. PICK n \in Refreshing : /\ Becomes(r, n) /\ n.pc = req[r].pc
                                  /\ n.offset = req[r].offset /\ n.more = req[r].more
      BY <2>2, <3>1, TakeRequest DEF Upsert
    <3> QED BY <1>2, <1>3, <3>1, <3>2, <3>3 DEF Alone, Becomes
  <2>3. ASSUME NEW i \in Ids, NEW s \in Detected, Create(r, i, s) PROVE Alone(q)'
    <3>1. quiet = q /\ req[r].pc = "page" /\ s \in req[r].pending /\ Insert(i, s) /\ UNCHANGED record
      BY <2>3 DEF Create
    <3>2. r = q
      BY <1>5, <3>1
    <3>3. PICK n \in Refreshing : /\ Becomes(r, n) /\ n.pc = req[r].pc /\ n.kind = req[r].kind
                                  /\ n.pending = req[r].pending \ {s}
                                  /\ n.offset = req[r].offset /\ n.more = req[r].more
      BY <2>3, <3>1, TakeRequest DEF Create
    <3>4. PICK k, pending, offset, more :
            k = req[r].kind /\ pending = req[r].pending /\ offset = req[r].offset /\ more = req[r].more
      OBVIOUS
    <3>5. Paging(k, pending, offset, more) /\ s \in pending
      BY <1>2, <3>1, <3>2, <3>4 DEF Alone
    <3>6. Paging(k, pending \ {s}, offset, more)'
      BY <3>1, <3>5, CreatePaging
    <3>7. n.kind = k /\ n.pending = pending \ {s} /\ n.offset = offset /\ n.more = more
      BY <3>3, <3>4
    <3>8. Paging(n.kind, n.pending, n.offset, n.more)'
      BY <3>6, <3>7
    <3> QED BY <1>2, <1>3, <3>1, <3>2, <3>3, <3>8 DEF Alone, Becomes
  <2>4. CASE Reset(r)
    <3>1. quiet = q /\ req[r].pc = "upsert"
      BY <2>4 DEF Reset
    <3>2. r = q
      BY <1>5, <3>1
    <3>3. PICK n \in Refreshing : /\ Becomes(r, n) /\ n.pc = "page" /\ n.kind = req[r].kind
                                  /\ n.pending = {} /\ n.offset = req[r].offset /\ n.more = req[r].more
      BY <2>4, ResetRequest
    <3>4. n.offset = 0 /\ n.more
      BY <1>2, <3>1, <3>2, <3>3 DEF Alone
    <3>5. Paging(n.kind, {}, 0, n.more)'
      BY <2>4, <3>3, <3>4, ResetPaging
    <3>6. Paging(n.kind, n.pending, n.offset, n.more)'
      BY <3>3, <3>4, <3>5
    <3> QED BY <1>2, <1>3, <3>1, <3>2, <3>3, <3>6 DEF Alone, Becomes
  <2>5. CASE ListPage(r)
    <3>1. quiet = q /\ req[r].pc = "page" /\ UNCHANGED <<record, rows>>
      BY <2>5 DEF ListPage
    <3>2. r = q
      BY <1>5, <3>1
    <3>3. PICK k, offset, more : k = req[r].kind /\ offset = req[r].offset /\ more = req[r].more
      OBVIOUS
    <3>4. req[r].pending = {} /\ offset \in Nat
      BY <2>5, <3>3, ListPageRequest DEF Refreshing
    <3>5. PICK n \in Refreshing : /\ Becomes(r, n) /\ n.pc = "page" /\ n.kind = k /\ n.pending = Page(k, offset)
                                  /\ n.offset = offset + Cardinality(Page(k, offset))
                                  /\ n.more <=> Cardinality(Page(k, offset)) = PageSize
      BY <2>5, <3>3, ListPageRequest
    <3>6. Paging(k, {}, offset, more)
      BY <1>2, <3>1, <3>2, <3>3, <3>4 DEF Alone
    <3>7. PICK page, next, after : page = n.pending /\ next = n.offset /\ after = n.more
      OBVIOUS
    <3>8. page = Page(k, offset) /\ next = offset + Cardinality(page) /\ (~after => Cardinality(page) # PageSize)
      BY <3>5, <3>7
    <3>9. Paging(k, page, next, after)'
      BY <3>1, <3>4, <3>6, <3>8, PagePaging
    <3>10. Paging(n.kind, n.pending, n.offset, n.more)'
      BY <3>5, <3>7, <3>9
    <3> QED BY <1>2, <1>3, <3>1, <3>2, <3>5, <3>10 DEF Alone, Becomes
  <2>6. CASE EndRefresh(r) \/ Mark(r) \/ Fail(r)
    <3>1. req[r] # Idle /\ quiet' = IF quiet = r THEN NoRequest ELSE quiet
      BY <2>6 DEF EndRefresh, Refreshed, Mark, Fail, Finish, Idle
    <3> QED BY <1>1, <1>2, <3>1 DEF Alone
  <2>7. ASSUME NEW i \in Ids, LoadForApply(r, i) PROVE Alone(q)'
    BY <1>1, <2>7 DEF LoadForApply
  <2>8. CASE Effect(r)
    <3>1. quiet = q /\ req[r].pc = "effect"
      BY <2>8 DEF Effect
    <3> QED BY <1>2, <3>1 DEF Alone, Idle
  <2> QED BY <1>6, <2>1, <2>2, <2>3, <2>4, <2>5, <2>6, <2>7, <2>8 DEF QueueTurn
<1>7. CASE Next
  BY <1>1, <1>6, <1>7, StepKinds DEF Turn, Decline, SettleDirectly
<1> QED BY <1>4, <1>7

\* A refresh that ran alone leaves exactly one suggestion for every open record
\* of its kind and none for any other, over pages of any size.
THEOREM QuietRefreshExact == Spec => []QuietRefreshIsExact
<1>1. Init => QuietInv
  BY BoundsAssumption DEF Init, QuietInv
<1>2. QuietInv => QuietRefreshIsExact
  <2> SUFFICES ASSUME QuietInv, NEW r \in Requests, Refreshed(r), quiet = r, NEW s \in OfKind(req[r].kind)
               PROVE  Cardinality(Suggested(s)) = IF record[s] = "open" THEN 1 ELSE 0
    BY DEF QuietRefreshIsExact
  <2>1. PICK k : k = req[r].kind
    OBVIOUS
  <2>2. Paging(k, {}, req[r].offset, req[r].more) /\ ~req[r].more
    BY <2>1 DEF QuietInv, Alone, Refreshed
  <2>3. Listed(k, req[r].offset) = Open(k)
    BY <2>2 DEF Paging
  <2>4. IF s \in Open(k) THEN \E i \in Ids : Suggested(s) = {i} ELSE Suggested(s) = {}
    BY <2>1, <2>2, <2>3 DEF Paging, Suggestions
  <2>5. s \in Open(k) <=> record[s] = "open"
    BY <2>1 DEF Open
  <2> QED BY <2>4, <2>5, FS_EmptySet, FS_Singleton
<1> QED BY <1>1, <1>2, QuietStep, TypeCorrect, PTL DEF Spec
==============================================================================
