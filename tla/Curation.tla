------------------------------- MODULE Curation -------------------------------
(***************************************************************************)
(* The memory curation queues of internal/admin: contradiction alerts,     *)
(* consolidation candidates and link recommendations, the suggestions that *)
(* refreshes make of them, and the actions administrators take             *)
(* (service_contradiction.go, service_consolidation.go,                    *)
(* service_curation.go and                                                 *)
(* service_curation_generation.go, over internal/repository).              *)
(*                                                                         *)
(* A subject is what a suggestion is about: a pair of engrams, a title or  *)
(* a link of LinkHygiene, which this module composes with the other two.   *)
(* A pair or a title has a record, "open" (an open alert, a suggested      *)
(* candidate) or "closed" (resolved or dismissed, merged or rejected); a   *)
(* suggestion is "suggested", "declined" (accepted or rejected, which have *)
(* no effect) or "applied".  No guard tells more states apart.  What a     *)
(* refresh detects comes from engrams that change outside of this module:  *)
(* any set of subjects.                                                    *)
(*                                                                         *)
(* Every request is a sequence of SQL statements without a transaction,    *)
(* one step each.  A request may stop after any of them (Fail).            *)
(***************************************************************************)
EXTENDS LinkHygiene

CONSTANTS
    Detected,       \* pairs and titles
    Kind,           \* of each: "contradiction" or "consolidate"
    Position,       \* of each: its place in the order of the list queries
    NoRequest,
    PageSize,       \* memoryCurationSyncListLimit
    Contents,       \* what a project may contain: sets of subjects
    MaxOpenings     \* bound of the model: openings of a record

Subjects == Detected \cup Links

ASSUME PositionAssumption ==
    /\ IsFiniteSet(Detected) /\ Position \in [Detected -> Nat]
    /\ \A s, t \in Detected : Position[s] = Position[t] => s = t
ASSUME KindAssumption == Kind \in [Detected -> {"contradiction", "consolidate"}]
ASSUME BoundsAssumption ==
    /\ PageSize \in Nat \ {0} /\ IsFiniteSet(Ids) /\ MaxOpenings \in [Detected -> Nat]
    /\ NoRequest \notin Requests /\ Detected \cap Links = {} /\ Contents \subseteq SUBSET Subjects

VARIABLES
    record,         \* engram_contradiction_alerts, engram_consolidation_suggestions
    openings,       \* history: how often a record was opened
    quiet           \* history: the request that has been alone since it began

vars == <<contents, linkVars, rows, req, record, openings, quiet>>

RecordStates == {"absent", "open", "closed"}
Decisions == {"declined", "applied"}

RowRecords == [subject : Subjects, status : Decisions \cup {"suggested"}]
RequestRecords ==
         [pc : {"upsert", "page"}, kind : {"contradiction", "consolidate"},
          pending : SUBSET Detected, offset : Nat, more : BOOLEAN]
    \cup [pc : {"effect", "mark"}, row : Ids, subject : Subjects]

------------------------------------------------------------------------------

OfKind(k) == {s \in Detected : Kind[s] = k}

\* The suggestion in row i is of the kind; links have a kind of their own.
IsOfKind(i, k) == Exists(i) /\ rows[i].subject \in OfKind(k)

\* listContradictionAlerts and listConsolidationSuggestions: the open records
\* of the kind, and those that come before one of them.  (Another refresh may
\* reorder them while pages are read; nothing is claimed of pages read
\* meanwhile.)
Open(k) == {s \in OfKind(k) : record[s] = "open"}
Before(k, s) == {t \in Open(k) : Position[t] < Position[s]}

\* Mutant of Page: the offset is one too far after the first page.
PageTooFar(k, offset) ==
    LET first == IF offset = 0 THEN 0 ELSE offset + 1
    IN  {s \in Open(k) : Cardinality(Before(k, s)) \in first..(first + PageSize - 1)}

\* LIMIT PageSize OFFSET offset
Page(k, offset) ==
    {s \in Open(k) : Cardinality(Before(k, s)) \in offset..(offset + PageSize - 1)}

Finish(r) ==
    /\ End(r)
    /\ quiet' = IF quiet = r THEN NoRequest ELSE quiet

Init ==
    /\ contents \in Contents
    /\ LinkInit
    /\ record = [s \in Detected |-> "absent"]
    /\ rows = [i \in Ids |-> NoRow]
    /\ req = [r \in Requests |-> Idle]
    /\ openings = [s \in Detected |-> 0]
    /\ quiet = NoRequest

------------------------------------------------------------------------------
(* RefreshEngramContradictionAlerts, RefreshEngramConsolidationSuggestions. *)

\* listContradictionAlertGroups or listExactDuplicateTitleGroups.
Refresh(r, k, groups) ==
    /\ groups \subseteq OfKind(k) \cap contents
    /\ Begin(r, [pc |-> "upsert", kind |-> k, pending |-> groups, offset |-> 0, more |-> TRUE])
    /\ quiet' = IF \A x \in Requests : req[x] = Idle THEN r ELSE NoRequest
    /\ UNCHANGED <<record, rows, openings>>

\* One upsert.  An alert is open again whatever it was; a candidate that was
\* merged or rejected stays so.
Upsert(r, s) ==
    /\ req[r].pc = "upsert" /\ s \in req[r].pending
    /\ req' = [req EXCEPT ![r].pending = @ \ {s}]
    /\ IF record[s] = "open" \/ (Kind[s] = "consolidate" /\ record[s] # "absent")
         THEN UNCHANGED <<record, openings>>
         ELSE /\ openings[s] < MaxOpenings[s]
              /\ record' = [record EXCEPT ![s] = "open"]
              /\ openings' = [openings EXCEPT ![s] = @ + 1]
    /\ UNCHANGED <<rows, quiet>>

\* ResetSuggestedMemoryCurationSuggestions
Reset(r) ==
    /\ req[r].pc = "upsert" /\ req[r].pending = {}
    /\ rows' = [i \in Ids |->
         IF rows[i].status = "suggested" /\ IsOfKind(i, req[r].kind) THEN NoRow ELSE rows[i]]
    /\ Goto(r, "page")
    /\ UNCHANGED <<record, openings, quiet>>

\* One page of open records; a page that is not full is the last one.
ListPage(r) ==
    /\ req[r].pc = "page" /\ req[r].pending = {} /\ req[r].more
    /\ LET page == Page(req[r].kind, req[r].offset) IN
       req' = [req EXCEPT ![r].pending = page,
                          ![r].more = Cardinality(page) = PageSize,
                          ![r].offset = @ + Cardinality(page)]
    /\ UNCHANGED <<record, rows, openings, quiet>>

\* A suggestion for one record of the page.
Create(r, i, s) ==
    /\ req[r].pc = "page" /\ s \in req[r].pending
    /\ Insert(i, s)
    /\ req' = [req EXCEPT ![r].pending = @ \ {s}]
    /\ UNCHANGED <<record, openings, quiet>>

Refreshed(r) == req[r].pc = "page" /\ req[r].pending = {} /\ ~req[r].more

EndRefresh(r) ==
    /\ Refreshed(r)
    /\ Finish(r)
    /\ UNCHANGED <<record, rows, openings>>

------------------------------------------------------------------------------
(* ActionMemoryCurationSuggestion and the direct actions.                   *)

\* ApplyMemoryCurationSuggestionAction: any row that is still there, whatever
\* its status.
MarkRow(i, status) ==
    rows' = IF Exists(i) THEN [rows EXCEPT ![i].status = status] ELSE rows

\* "accepted" and "rejected" are one statement.
Decline(i) ==
    /\ Exists(i)
    /\ MarkRow(i, "declined")
    /\ quiet' = NoRequest
    /\ UNCHANGED <<record, req, openings>>

\* "applied" loads the suggestion first.
LoadForApply(r, i) ==
    /\ Exists(i)
    /\ Begin(r, [pc |-> "effect", row |-> i, subject |-> rows[i].subject])
    /\ quiet' = NoRequest
    /\ UNCHANGED <<record, rows, openings>>

\* Mutant of Settle: an alert need not be open.
SettleAny(s) == record' = [record EXCEPT ![s] = "closed"]

\* resolveContradictionAlert asks for status = 'open'; the merge or rejection
\* of a candidate does not.
Settle(s) ==
    /\ Kind[s] = "contradiction" => record[s] = "open"
    /\ record' = [record EXCEPT ![s] = "closed"]

\* applyTypedCurationSideEffect
Effect(r) ==
    /\ req[r].pc = "effect" /\ req[r].subject \in Detected
    /\ Settle(req[r].subject)
    /\ Goto(r, "mark")
    /\ UNCHANGED <<rows, openings, quiet>>

\* applyLinkCurationSuggestion: ArchiveEngramLink, whatever the status.
EffectOnLink(r) ==
    /\ req[r].pc = "effect" /\ req[r].subject \in Links
    /\ links' = [links EXCEPT ![req[r].subject] = "closed"]
    /\ Goto(r, "mark")
    /\ UNCHANGED <<rows, marked, revivals, runs, missed>>

Mark(r) ==
    /\ req[r].pc = "mark"
    /\ MarkRow(req[r].row, "applied")
    /\ Finish(r)
    /\ UNCHANGED <<record, openings>>

\* ResolveEngramContradictionAlert, ActionEngramConsolidationSuggestion.
SettleDirectly(s) ==
    /\ record[s] # "absent"
    /\ Settle(s)
    /\ quiet' = NoRequest
    /\ UNCHANGED <<rows, req, openings>>

------------------------------------------------------------------------------

\* A statement fails, finds no row, or the process goes down.
Fail(r) ==
    /\ req[r] # Idle
    /\ Finish(r)
    /\ UNCHANGED <<record, rows, openings>>

\* The queues; a link is touched by none of these.
QueueNext ==
    \/ \E r \in Requests :
         \/ \E k \in {"contradiction", "consolidate"}, g \in SUBSET Detected : Refresh(r, k, g)
         \/ \E s \in Detected : Upsert(r, s)
         \/ \E i \in Ids, s \in Detected : Create(r, i, s)
         \/ Reset(r) \/ ListPage(r) \/ EndRefresh(r)
         \/ \E i \in Ids : LoadForApply(r, i)
         \/ Effect(r) \/ Mark(r) \/ Fail(r)
    \/ \E i \in Ids : Decline(i)
    \/ \E s \in Detected : SettleDirectly(s)

Next ==
    /\ \/ QueueNext /\ UNCHANGED linkVars
       \/ /\ LinkNext \/ \E r \in Requests : EffectOnLink(r)
          /\ quiet' = NoRequest
          /\ UNCHANGED <<record, openings>>
    /\ UNCHANGED contents

Spec == Init /\ [][Next]_vars

------------------------------------------------------------------------------
(* Properties.                                                             *)

\* Links, records, suggestions and requests are well formed.
TypeOK ==
    /\ contents \in Contents
    /\ links \in [Links -> Statuses]
    /\ marked \in BOOLEAN
    /\ revivals \in [Links -> Nat]
    /\ runs \in Nat
    /\ missed \in [Links -> Nat]
    /\ record \in [Detected -> RecordStates]
    /\ rows \in [Ids -> RowRecords \cup {NoRow}]
    /\ req \in [Requests -> RequestRecords \cup LinkRequests \cup {Idle}]
    /\ openings \in [Detected -> Nat]
    /\ quiet \in Requests \cup {NoRequest}

\* A refresh that ran alone leaves exactly one suggestion for every open
\* record of its kind and none for any other, over any number of pages.
QuietRefreshIsExact ==
    \A r \in Requests :
        Refreshed(r) /\ quiet = r =>
           \A s \in OfKind(req[r].kind) :
               Cardinality(Suggested(s)) = IF record[s] = "open" THEN 1 ELSE 0

\* Suggestions that were applied to an alert never outnumber its openings:
\* two administrators who apply suggestions for one alert at the same time
\* do not both succeed.
AppliedOncePerOpening ==
    \A s \in OfKind("contradiction") :
        Cardinality({i \in Ids : rows[i] = [subject |-> s, status |-> "applied"]})
          + Cardinality({r \in Requests : req[r].pc = "mark" /\ req[r].subject = s})
            <= openings[s]

==============================================================================
