----------------------------- MODULE LinkHygiene -----------------------------
(***************************************************************************)
(* The links of one engram: their reinforcement after a chat turn, the     *)
(* hygiene that turn runs when a day has passed since the last one, what   *)
(* users do to links, and the suggestions to review a link                 *)
(* (cmd/api/chat_link_reinforcement.go, repository/engram_links.go,        *)
(* admin/service_link_curation.go, repository/memory_curation_             *)
(* suggestions.go).                                                        *)
(*                                                                         *)
(* A link is "suggested", "active" or "closed" (archived or rejected, which *)
(* no guard here tells apart).  Weights are left out; which links hygiene  *)
(* recommends to archive or to review depends on them and is any set.  A   *)
(* suggestion is about one link and one recommended action; a link stands  *)
(* for both.  An UPDATE finds no row when the actor may not write or an    *)
(* engram is deleted, which the turn passes over: "found" is either.       *)
(*                                                                         *)
(* Every request is a sequence of SQL statements without a transaction,    *)
(* one step each.  A request may stop after any of them (Fail).            *)
(***************************************************************************)
EXTENDS Naturals, FiniteSets

CONSTANTS
    Links,
    Requests,       \* requests in flight at the same time
    Ids,            \* ids of suggestions, as many as may exist at a time
    MaxAutoArchive, \* defaultScheduledLinkHygieneMaxAutoArchive
    KeysLoad,       \* memoryCurationSyncListLimit and
                    \* defaultLinkCurationSuggestionListLimit, 500 both
    MaxMissed       \* bound of the model: listings that miss a link

ASSUME HygieneAssumption ==
    IsFiniteSet(Requests) /\ MaxAutoArchive \in Nat /\ KeysLoad \in Nat /\ MaxMissed \in Nat

VARIABLES
    links,          \* engram_links: the status of every link
    rows,           \* memory_curation_suggestions, by id
    req,            \* the requests
    contents,       \* what there is in the project at hand; never changes
    marked,         \* linkHygieneRunTracker: it ran within the interval
    revivals,       \* history: closed links that reinforcement made active,
                    \* since a user last set the status
    runs,           \* history: hygiene runs since the interval began
    missed          \* history: listings that missed the suggestions of a link,
                    \* since one found that it had none

linkVars == <<links, marked, revivals, runs, missed>>

Statuses == {"suggested", "active", "closed"}
Idle == [pc |-> "idle"]
NoRow == [status |-> "none"]

LinkRequests ==
         [pc : {"get"}, pending : SUBSET Links]
    \cup [pc : {"update"}, pending : SUBSET Links, link : Links, activates : BOOLEAN]
    \cup [pc : {"recommend"}]
    \cup [pc : {"archive"}, stale : SUBSET Links, pending : SUBSET Links]
    \cup [pc : {"keys", "create"}, pending : SUBSET Links, scheduled : BOOLEAN]

LinkInit ==
    /\ links \in [Links -> Statuses]
    /\ \A l \in Links : links[l] = "closed" <=> l \notin contents
    /\ marked = FALSE
    /\ revivals = [l \in Links |-> 0]
    /\ runs = 0
    /\ missed = [l \in Links |-> 0]

Goto(r, pc) == req' = [req EXCEPT ![r].pc = pc]
Begin(r, state) == req[r] = Idle /\ req' = [req EXCEPT ![r] = state]
End(r) == req' = [req EXCEPT ![r] = Idle]

Present == Links \cap contents

Exists(i) == rows[i] # NoRow
Suggested(s) == {i \in Ids : rows[i] = [subject |-> s, status |-> "suggested"]}

\* CreateMemoryCurationSuggestion, under a fresh id: no row and no request
\* under way has it.
Insert(i, s) ==
    /\ rows[i] = NoRow
    /\ \A r \in Requests : req[r].pc \in {"effect", "mark"} => req[r].row # i
    /\ rows' = [rows EXCEPT ![i] = [subject |-> s, status |-> "suggested"]]

------------------------------------------------------------------------------
(* reinforceResolvedLinks, at the end of a turn that used links.            *)

ReinforceLinks(r, used) ==
    /\ used # {}
    /\ Begin(r, [pc |-> "get", pending |-> used])
    /\ UNCHANGED <<linkVars, rows>>

\* linkIsReinforceable
LinkIsReinforceable(status) == status # "closed"

\* Mutant of StatusForReinforcedLink: whatever is reinforced becomes active.
StatusAlwaysActive(status) == TRUE

\* statusForReinforcedLink: a suggested link becomes active; else the status is
\* not written.
StatusForReinforcedLink(status) == status = "suggested"

\* GetEngramLink and what follows of it.
GetLink(r, l) ==
    /\ req[r].pc = "get" /\ l \in req[r].pending
    /\ LET rest == req[r].pending \ {l} IN
       req' = [req EXCEPT ![r] =
         IF LinkIsReinforceable(links[l])
         THEN [pc |-> "update", pending |-> rest, link |-> l,
               activates |-> StatusForReinforcedLink(links[l])]
         ELSE [pc |-> "get", pending |-> rest]]
    /\ UNCHANGED <<linkVars, rows>>

\* UpdateEngramLink: the UPDATE does not ask for the status that was read.
UpdateLink(r, found) ==
    /\ req[r].pc = "update"
    /\ LET l == req[r].link
           activates == found /\ req[r].activates
           revives == activates /\ links[l] = "closed"
       IN  /\ links' = IF activates THEN [links EXCEPT ![l] = "active"] ELSE links
           /\ revivals' = IF revives THEN [revivals EXCEPT ![l] = @ + 1] ELSE revivals
    /\ req' = [req EXCEPT ![r] = [pc |-> "get", pending |-> req[r].pending]]
    /\ UNCHANGED <<rows, marked, runs, missed>>

------------------------------------------------------------------------------
(* scheduledLinkHygieneExecutor.executeForSource.                           *)

\* Mutant of ShouldRun: the tracker is not asked.
ShouldRunAlways == TRUE

\* linkHygieneRunTracker.shouldRun
ShouldRun == ~marked

StartHygiene(r) ==
    /\ req[r].pc = "get" /\ req[r].pending = {}
    /\ IF ShouldRun THEN req' = [req EXCEPT ![r] = [pc |-> "recommend"]] ELSE End(r)
    /\ UNCHANGED <<linkVars, rows>>

\* Recommend: links to archive, the first MaxAutoArchive of them, and links
\* to review.  (A rejected link is listed as well.)
Recommend(r, stale, review) ==
    /\ req[r].pc = "recommend"
    /\ Cardinality(stale) <= MaxAutoArchive
    /\ req' = [req EXCEPT ![r] = [pc |-> "archive", stale |-> stale, pending |-> review]]
    /\ UNCHANGED <<linkVars, rows>>

\* ArchiveEngramLink, whatever became of the link since it was listed.
ArchiveStale(r, l, found) ==
    /\ req[r].pc = "archive" /\ l \in req[r].stale
    /\ links' = IF found THEN [links EXCEPT ![l] = "closed"] ELSE links
    /\ req' = [req EXCEPT ![r].stale = @ \ {l}]
    /\ UNCHANGED <<rows, marked, revivals, runs, missed>>

\* persistLinkCurationSuggestions, for the project the engram is found in.
Persist(r) ==
    /\ req[r].pc = "archive" /\ req[r].stale = {}
    /\ req' = [req EXCEPT ![r] = [pc |-> "keys", pending |-> req[r].pending, scheduled |-> TRUE]]
    /\ UNCHANGED <<linkVars, rows>>

------------------------------------------------------------------------------
(* RefreshEngramLinkCurationSuggestions, and the end of a hygiene run, which *)
(* makes suggestions in the same way.                                        *)

\* recommendLinkHygiene: the links it recommends to review.
RefreshLinks(r, review) ==
    /\ Begin(r, [pc |-> "keys", pending |-> review, scheduled |-> FALSE])
    /\ UNCHANGED <<linkVars, rows>>

SuggestedLinks == {i \in Ids : Exists(i) /\ rows[i].subject \in Links /\ rows[i].status = "suggested"}

\* Mutant of ListKeys: nothing counts as suggested before.
ListNoKeys(r, listed) ==
    /\ req[r].pc = "keys" /\ listed \subseteq SuggestedLinks
    /\ Goto(r, "create")
    /\ UNCHANGED <<linkVars, rows>>

\* listSuggestedLinkCurationDedupKeys: what is suggested already is skipped, as
\* far as it is among the newest KeysLoad suggestions for links of the project.
\* The links of its other engrams have suggestions too, older and newer ones, so
\* of these it lists any, KeysLoad at most.
ListKeys(r, listed) ==
    /\ req[r].pc = "keys" /\ listed \subseteq SuggestedLinks /\ Cardinality(listed) <= KeysLoad
    /\ LET Misses(l) == l \in req[r].pending /\ Suggested(l) # {} /\ Suggested(l) \cap listed = {} IN
       /\ \A l \in Links : Misses(l) => missed[l] < MaxMissed
       /\ req' = [req EXCEPT ![r].pc = "create",
                             ![r].pending = {l \in @ : Suggested(l) \cap listed = {}}]
       /\ missed' = [l \in Links |-> IF Suggested(l) = {} THEN 0
                                     ELSE IF Misses(l) THEN missed[l] + 1 ELSE missed[l]]
    /\ UNCHANGED <<links, rows, marked, revivals, runs>>

CreateLink(r, i, l) ==
    /\ req[r].pc = "create" /\ l \in req[r].pending
    /\ Insert(i, l)
    /\ req' = [req EXCEPT ![r].pending = @ \ {l}]
    /\ UNCHANGED linkVars

\* markRun, when it was hygiene.
EndLinks(r) ==
    /\ req[r].pc = "create" /\ req[r].pending = {}
    /\ End(r)
    /\ marked' = (marked \/ req[r].scheduled)
    /\ runs' = IF req[r].scheduled THEN runs + 1 ELSE runs
    /\ UNCHANGED <<links, rows, revivals, missed>>

------------------------------------------------------------------------------

\* handleUpdateEngramLink, handleArchiveEngramLink and the MCP tools.
SetStatus(l, status) ==
    /\ links' = [links EXCEPT ![l] = status]
    /\ revivals' = [revivals EXCEPT ![l] = 0]
    /\ UNCHANGED <<rows, req, marked, runs, missed>>

\* Hygiene is due again: the interval is over, or the process was restarted.
IntervalOver ==
    /\ marked
    /\ marked' = FALSE
    /\ runs' = 0
    /\ UNCHANGED <<links, rows, req, revivals, missed>>

LinkNext ==
    \/ \E r \in Requests :
         \/ \E ls \in SUBSET Present : ReinforceLinks(r, ls) \/ RefreshLinks(r, ls)
         \/ \E l \in Present : GetLink(r, l)
         \/ \E found \in BOOLEAN : UpdateLink(r, found) \/ \E l \in Present : ArchiveStale(r, l, found)
         \/ StartHygiene(r) \/ Persist(r) \/ EndLinks(r)
         \/ \E listed \in SUBSET Ids : ListKeys(r, listed)
         \/ \E stale, review \in SUBSET Present : Recommend(r, stale, review)
         \/ \E i \in Ids, l \in Present : CreateLink(r, i, l)
    \/ \E l \in Present, status \in Statuses : SetStatus(l, status)
    \/ IntervalOver

------------------------------------------------------------------------------
(* Properties.                                                             *)

\* Suggestions for a link are deduped as far as they can be: there are no more
\* of them at a time than requests that list the keys at the same time, and one
\* more for every listing whose limit cut all of them off.  Nothing else brings
\* a second suggestion (createPendingLinkCurationSuggestions).
LinkSuggestionsBounded ==
    \A l \in Links :
        Cardinality(Suggested(l))
          + Cardinality({r \in Requests : req[r].pc = "create" /\ l \in req[r].pending})
            <= Cardinality(Requests) + missed[l]

\* A link that was archived becomes active again only by turns that were
\* reinforcing it when it was a suggestion still: at most once for each of
\* them, and never by turns that come later (updateReinforcedEngramLink).
RevivalsBounded ==
    \A l \in Links :
        revivals[l]
          + Cardinality({r \in Requests : req[r].pc = "update" /\ req[r].link = l /\ req[r].activates})
            <= Cardinality(Requests)

InHygiene(r) ==
    \/ req[r].pc \in {"recommend", "archive"}
    \/ req[r].pc \in {"keys", "create"} /\ req[r].scheduled

\* The tracker is asked before hygiene and marked after it, so turns that end
\* at the same time all run it; but no interval sees more runs of a process
\* than there are requests at a time, whichever of them fail.
HygieneRunsBounded ==
    runs + Cardinality({r \in Requests : InHygiene(r)}) <= Cardinality(Requests)
==============================================================================
