----------------------------- MODULE ChatSession -----------------------------
(***************************************************************************)
(* One chat session and the turns that run on it: the message path of      *)
(* SendMessage and StreamMessageEvents (internal/chat/service.go,          *)
(* message_runtime.go), the autosave maintenance that ends every           *)
(* successful turn (session_lifecycle.go), the owner's policy updates and  *)
(* the administrator's deletions (internal/admin/service.go).              *)
(*                                                                         *)
(* Nothing spans two SQL statements: there is no transaction and no lock,  *)
(* so each statement is one step and other turns run between any two.      *)
(* What a turn read stays in its own variables and may be stale when used. *)
(***************************************************************************)
EXTENDS LifecyclePolicy, Sequences

CONSTANTS
    Turns,          \* requests that may run on the session at the same time
    PromptTexts,    \* what users write
    ReplyTexts,     \* what providers answer
    Creations,      \* how the session may have been created
    Payloads,       \* the policy updates an owner sends
    HistoryLoad,    \* chatHistoryLoadLimit
    HistoryLimit,   \* defaultChatHistoryLimit
    AutosaveLoad,   \* the 500 messages createAutosaveSnapshot lists
    LinkedLoad,     \* the 500 linked engrams listAutosaveSnapshots lists
    MaxMessages, MaxStamps, MaxTime, MaxDeletes     \* bounds of the model

ASSUME SessionAssumption ==
    /\ Blank \notin PromptTexts     \* "Message content cannot be empty"
    /\ {HistoryLoad, HistoryLimit, AutosaveLoad, LinkedLoad, MaxMessages, MaxStamps, MaxTime,
          MaxDeletes} \subseteq Nat
    /\ Creations \subseteq CreatePayloads
    /\ Payloads \subseteq UpdatePayloads

\* A server handles finitely many requests at a time.
ASSUME TurnsAssumption == IsFiniteSet(Turns)

VARIABLES
    deleted,    \* chat_sessions.deleted_at is set
    policy,     \* autosave_*, retention_*
    messages,   \* chat_messages of the session, by created_at
    snapshots,  \* its autosave engrams that are not soft-deleted
    saved,      \* its other engrams that are not
    trash,      \* its engrams that are
    stamps,     \* creation stamps handed out
    now,        \* the clock
    deletes,    \* deletions so far
    purging,    \* DeleteSession has yet to delete the linked engrams
    pc,         \* where each turn is
    session,    \* the policy a turn read at its start
    prompt,     \* position of the turn's own prompt in messages
    request,    \* positions of the messages sent to the provider
    loaded,     \* run.autosaveSnapshots
    runNow,     \* run.now
    draft,      \* the snapshots (at most one) this turn stamped
    inserted,   \* history: ids ever inserted
    covers,     \* history: ids a maintenance run will have dealt with
    unsettled,  \* history: ids no complete maintenance run has dealt with
    purged,     \* history: deleted together with its engrams, not restored since
    residue,    \* history: ids on their way in when the purge ended
    late,       \* history: snapshots inserted since autosave was switched off
    crowded     \* history: a listing has left a snapshot out

engrams == <<snapshots, saved, trash>>
tables == <<deleted, policy, messages, snapshots, saved, trash>>
turnVars == <<pc, session, prompt, request, loaded, runNow, draft>>
history == <<inserted, covers, unsettled, purged, residue, late, crowded>>
vars == <<deleted, policy, messages, snapshots, saved, trash, stamps, now, deletes, purging,
          pc, session, prompt, request, loaded, runNow, draft,
          inserted, covers, unsettled, purged, residue, late, crowded>>

\* Rows of engrams with this session as their source: autosave snapshots, and
\* others, of which only the order matters.
Snapshots == [id : 1 .. MaxStamps, at : 0 .. MaxTime, text : (PromptTexts \cup ReplyTexts) \ {Blank, Short}]
Others == [id : 1 .. MaxStamps]

Ids(S) == {s.id : s \in S}

------------------------------------------------------------------------------
(* Statements of internal/repository.                                      *)

\* Mutant of ListChatMessages: messages of a deleted session are listed.
ListMessagesOfDeleted(limit) ==
    SubSeq(messages, 1, IF Len(messages) < limit THEN Len(messages) ELSE limit)

\* ListChatMessages(limit, 0): the oldest messages, none of a deleted session.
ListChatMessages(limit) ==
    IF deleted THEN <<>>
    ELSE SubSeq(messages, 1, IF Len(messages) < limit THEN Len(messages) ELSE limit)

\* Mutant of CreateChatMessage: the session's deleted_at is not consulted.
CreateMessageAlways(role, text) ==
    messages' = Append(messages, [role |-> role, text |-> text])

\* CreateChatMessage: INSERT ... SELECT from the session when it is not deleted.
CreateChatMessage(role, text) ==
    /\ ~deleted
    /\ messages' = Append(messages, [role |-> role, text |-> text])

\* ListSessionLinkedEngrams, the newest LinkedLoad engrams of the session, and
\* of these the ones that isAutosaveSnapshot picks.
ListAutosaveSnapshots ==
    IF deleted THEN {}
    ELSE {s \in snapshots : Cardinality({i \in Ids(snapshots \cup saved) : i > s.id}) < LinkedLoad}

\* CountSessionMessagesByRole("assistant")
CountReplies ==
    IF deleted THEN 0
    ELSE Cardinality({i \in 1 .. Len(messages) : messages[i].role = "assistant"})

------------------------------------------------------------------------------
(* What the service makes of what it reads.                                *)

\* HistoryAsProviderMessages: the last HistoryLimit of the loaded history.
ProviderMessages ==
    LET n == Len(ListChatMessages(HistoryLoad))
    IN  {i \in 1 .. n : i > n - HistoryLimit}

Speaking(list, role) ==
    {i \in 1 .. Len(list) : list[i].role = role /\ list[i].text # Blank}

Latest(list, positions) == list[CHOOSE i \in positions : \A j \in positions : j <= i].text

\* DeriveChatSnapshotAbstract
DeriveChatSnapshotAbstract(list) ==
    IF Speaking(list, "assistant") # {} THEN Latest(list, Speaking(list, "assistant"))
    ELSE IF Speaking(list, "user") # {} THEN Latest(list, Speaking(list, "user"))
    ELSE Blank

------------------------------------------------------------------------------

\* The policy of a turn that has not read one.
NoPolicy ==
    [enabled |-> FALSE, strategy |-> "off", interval |-> 1, minMessages |-> 1, days |-> 1, max |-> 1]

Init ==
    /\ deleted = FALSE
    /\ \E payload \in Creations : policy = CreatedPolicy(payload)
    /\ messages = <<>>
    /\ snapshots = {} /\ saved = {} /\ trash = {}
    /\ stamps = 0 /\ now = 0 /\ deletes = 0
    /\ purging = FALSE
    /\ pc = [t \in Turns |-> "idle"]
    /\ session = [t \in Turns |-> NoPolicy]
    /\ prompt = [t \in Turns |-> 0]
    /\ request = [t \in Turns |-> {}]
    /\ loaded = [t \in Turns |-> {}]
    /\ runNow = [t \in Turns |-> 0]
    /\ draft = [t \in Turns |-> {}]
    /\ inserted = {} /\ covers = [t \in Turns |-> {}] /\ unsettled = {} /\ purged = FALSE /\ residue = {}
    /\ late = 0 /\ crowded = FALSE

Goto(t, where) == pc' = [pc EXCEPT ![t] = where]

\* The request is over: its variables are gone.
Finish(t) ==
    /\ Goto(t, "idle")
    /\ session' = [session EXCEPT ![t] = NoPolicy]
    /\ prompt' = [prompt EXCEPT ![t] = 0]
    /\ request' = [request EXCEPT ![t] = {}]
    /\ loaded' = [loaded EXCEPT ![t] = {}]
    /\ runNow' = [runNow EXCEPT ![t] = 0]
    /\ draft' = [draft EXCEPT ![t] = {}]

------------------------------------------------------------------------------
(* The message path.                                                       *)

\* prepareSessionAndUserMessage, first statement.
GetSession(t) ==
    /\ pc[t] = "idle" /\ ~deleted /\ Len(messages) < MaxMessages
    /\ session' = [session EXCEPT ![t] = policy]
    /\ Goto(t, "post")
    /\ UNCHANGED <<tables, stamps, now, deletes, purging, prompt, request, loaded, runNow, draft, history>>

\* Its second: the prompt is stored before anything else is tried.
PostPrompt(t, text) ==
    /\ pc[t] = "post" /\ Len(messages) < MaxMessages
    /\ CreateChatMessage("user", text)
    /\ prompt' = [prompt EXCEPT ![t] = Len(messages) + 1]
    /\ Goto(t, "prepare")
    /\ UNCHANGED <<deleted, policy, engrams, stamps, now, deletes, purging, session,
                   request, loaded, runNow, draft, history>>

\* loadMessageHistory and buildPreparedProviderRequest.
PrepareRequest(t) ==
    /\ pc[t] = "prepare"
    /\ request' = [request EXCEPT ![t] = ProviderMessages]
    /\ Goto(t, "reply")
    /\ UNCHANGED <<tables, stamps, now, deletes, purging, session, prompt, loaded, runNow, draft, history>>

\* Mutant of PersistReply: the turn stores its answer again.
PersistReplyAgain(t, text) ==
    /\ pc[t] = "reply" /\ Len(messages) < MaxMessages
    /\ CreateChatMessage("assistant", text)
    /\ UNCHANGED <<deleted, policy, engrams, stamps, now, deletes, purging, turnVars, history>>

\* The provider answers, PersistAssistantReply stores the answer and
\* RunSessionLifecycleMaintenance starts with the policy read by GetSession.
PersistReply(t, text) ==
    /\ pc[t] = "reply" /\ Len(messages) < MaxMessages
    /\ CreateChatMessage("assistant", text)
    /\ IF AutosaveOn(session[t])
       THEN /\ Goto(t, "load")
            /\ runNow' = [runNow EXCEPT ![t] = now]
            /\ prompt' = [prompt EXCEPT ![t] = 0]
            /\ request' = [request EXCEPT ![t] = {}]
            /\ UNCHANGED <<session, loaded, draft>>
       ELSE Finish(t)
    /\ UNCHANGED <<deleted, policy, engrams, stamps, now, deletes, purging, history>>

------------------------------------------------------------------------------
(* RunSessionLifecycleMaintenance.                                         *)

\* History: what the run's pruning is answerable for, which is nothing when
\* its list leaves snapshots out.
Cover(t, list) ==
    /\ covers' = [covers EXCEPT ![t] = IF list = snapshots THEN @ \cup Ids(list) ELSE {}]
    /\ crowded' = (crowded \/ (~deleted /\ list # snapshots))
    /\ UNCHANGED <<inserted, unsettled, purged, residue, late>>

\* loadAutosaveSnapshots and, for the interval strategy, the plan.
LoadSnapshots(t) ==
    /\ pc[t] = "load"
    /\ loaded' = [loaded EXCEPT ![t] = ListAutosaveSnapshots]
    /\ CASE session[t].strategy = "message_count" -> Goto(t, "count")
         [] OTHER -> IF ShouldTakeIntervalSnapshot(runNow[t], ListAutosaveSnapshots, session[t].interval)
                     THEN Goto(t, "draft") ELSE Goto(t, "prune")
    /\ Cover(t, ListAutosaveSnapshots)
    /\ UNCHANGED <<tables, stamps, now, deletes, purging, session, prompt, request, runNow, draft>>

\* resolveMessageCountSnapshotCreationPlan
PlanByMessageCount(t) ==
    /\ pc[t] = "count"
    /\ IF ShouldTakeMessageCountSnapshot(CountReplies, session[t].minMessages)
       THEN Goto(t, "draft") ELSE Goto(t, "prune")
    /\ UNCHANGED <<tables, stamps, now, deletes, purging, session, prompt, request, loaded, runNow, draft, history>>

\* createAutosaveSnapshot up to the insert: the messages are listed, the
\* abstract is derived and judged against the list loaded before, and
\* CreateEngram stamps the new engram.
DraftSnapshot(t) ==
    LET list == ListChatMessages(AutosaveLoad)
        text == DeriveChatSnapshotAbstract(list)
        skip == \/ list = <<>>
                \/ IsLowValueSnapshotAbstract(text)
                \/ DuplicateSnapshotExists(text, loaded[t])
    IN  /\ pc[t] = "draft"
        /\ \/ /\ skip
              /\ Goto(t, "prune")
              /\ UNCHANGED <<stamps, draft>>
           \/ /\ ~skip /\ stamps < MaxStamps
              /\ stamps' = stamps + 1
              /\ draft' = [draft EXCEPT ![t] = {[id |-> stamps + 1, at |-> now, text |-> text]}]
              /\ Goto(t, "insert")
        /\ UNCHANGED <<tables, now, deletes, purging, session, prompt, request, loaded, runNow, history>>

\* insertEngramRow: the row refers to the session, deleted or not.
InsertSnapshot(t) ==
    /\ pc[t] = "insert"
    /\ snapshots' = snapshots \cup draft[t]
    /\ inserted' = inserted \cup Ids(draft[t])
    /\ unsettled' = unsettled \cup Ids(draft[t])
    /\ covers' = [covers EXCEPT ![t] = IF deleted THEN @ ELSE @ \cup Ids(draft[t])]
    /\ late' = IF policy.enabled THEN late ELSE late + 1
    /\ Goto(t, "reload")
    /\ UNCHANGED <<deleted, policy, messages, saved, trash, stamps, now, deletes, purging, session,
                   prompt, request, loaded, runNow, draft, purged, residue, crowded>>

\* Mutant of ReloadSnapshots: the list from before the insert is pruned.
KeepLoadedSnapshots(t) ==
    /\ pc[t] = "reload"
    /\ Goto(t, "prune")
    /\ UNCHANGED <<tables, stamps, now, deletes, purging, session, prompt, request, loaded, runNow, draft, history>>

\* loadAutosaveSnapshots once more, so that the new snapshot counts.
ReloadSnapshots(t) ==
    /\ pc[t] = "reload"
    /\ loaded' = [loaded EXCEPT ![t] = ListAutosaveSnapshots]
    /\ Goto(t, "prune")
    /\ Cover(t, ListAutosaveSnapshots)
    /\ UNCHANGED <<tables, stamps, now, deletes, purging, session, prompt, request, runNow, draft>>

\* pruneSnapshots: DeleteSessionAutosaveEngrams of what retention selects from
\* the list in hand, by the settings the turn read at its start; it deletes
\* rows for good, but finds the live ones of a live session only.  Then the
\* turn is over.
PruneSnapshots(t) ==
    /\ pc[t] = "prune"
    /\ IF deleted
       THEN UNCHANGED <<snapshots, unsettled>>
       ELSE /\ snapshots' = {s \in snapshots :
                  s.id \notin Ids(SelectRetentionPruneIDs(loaded[t], session[t], runNow[t]))}
            /\ unsettled' = IF session[t].max <= policy.max THEN unsettled \ covers[t] ELSE unsettled
    /\ Finish(t)
    /\ covers' = [covers EXCEPT ![t] = {}]
    /\ UNCHANGED <<deleted, policy, messages, saved, trash, stamps, now, deletes, purging,
                   inserted, purged, residue, late, crowded>>

\* Any statement or the provider call fails, the session is not found, or the
\* client leaves: the handler returns and nothing is undone.
Fail(t) ==
    /\ pc[t] # "idle"
    /\ Finish(t)
    /\ covers' = [covers EXCEPT ![t] = {}]
    /\ UNCHANGED <<tables, stamps, now, deletes, purging, inserted, unsettled, purged, residue, late, crowded>>

------------------------------------------------------------------------------
(* The owner and the administrator.                                        *)

\* UpdateSession and UpdateLifecyclePolicy.  History: a lower retention_max
\* unsettles what runs have dealt with so far.
UpdatePolicy(payload) ==
    /\ ~deleted
    /\ policy' = UpdatedPolicy(policy, payload)
    /\ late' = IF policy'.enabled THEN 0 ELSE late
    /\ unsettled' = IF policy'.max < policy.max THEN inserted ELSE unsettled
    /\ UNCHANGED <<deleted, messages, engrams, stamps, now, deletes, purging, turnVars,
                   inserted, covers, purged, residue, crowded>>

\* SaveSessionAsEngram: another engram that is linked to the session.  It reads
\* a live session that has messages and inserts later, when the session may
\* have been deleted.
SaveSessionAsEngram ==
    /\ messages # <<>> /\ stamps < MaxStamps
    /\ stamps' = stamps + 1
    /\ saved' = saved \cup {[id |-> stamps + 1]}
    /\ UNCHANGED <<deleted, policy, messages, snapshots, trash, now, deletes, purging, turnVars, history>>

\* DeleteSession: its first statement; a second one follows when
\* delete_linked_engrams is set.  One such call at a time.
DeleteSession(linked) ==
    /\ ~purging /\ deletes < MaxDeletes
    /\ deletes' = deletes + 1
    /\ deleted' = TRUE
    /\ purging' = linked
    /\ covers' = [t \in Turns |-> {}]
    /\ UNCHANGED <<policy, messages, engrams, stamps, now, turnVars,
                   inserted, unsettled, purged, residue, late, crowded>>

\* SoftDeleteLinkedEngrams
DeleteLinkedEngrams ==
    /\ purging
    /\ purging' = FALSE
    /\ snapshots' = {} /\ saved' = {}
    /\ trash' = trash \cup snapshots \cup saved
    /\ purged' = deleted
    /\ residue' = UNION {Ids(draft[t]) : t \in {u \in Turns : pc[u] = "insert"}}
    /\ UNCHANGED <<deleted, policy, messages, stamps, now, deletes, turnVars,
                   inserted, covers, unsettled, late, crowded>>

\* The second statement fails: the session is deleted, its engrams are not.
DeleteLinkedEngramsFails ==
    /\ purging
    /\ purging' = FALSE
    /\ UNCHANGED <<tables, stamps, now, deletes, turnVars, history>>

RestoreSession ==
    /\ deleted
    /\ deleted' = FALSE
    /\ purged' = FALSE
    /\ residue' = {}
    /\ UNCHANGED <<policy, messages, engrams, stamps, now, deletes, purging, turnVars,
                   inserted, covers, unsettled, late, crowded>>

\* DeleteEngram: SoftDeleteEngram
DeleteEngram(e) ==
    /\ deletes < MaxDeletes
    /\ deletes' = deletes + 1
    /\ snapshots' = snapshots \ {e} /\ saved' = saved \ {e}
    /\ trash' = trash \cup {e}
    /\ UNCHANGED <<deleted, policy, messages, stamps, now, purging, turnVars, history>>

\* RestoreEngram.  History: no run under way has dealt with it as it is now.
RestoreEngram(e) ==
    /\ trash' = trash \ {e}
    /\ snapshots' = snapshots \cup ({e} \cap Snapshots) /\ saved' = saved \cup ({e} \cap Others)
    /\ unsettled' = unsettled \cup (Ids({e} \cap Snapshots))
    /\ covers' = [t \in Turns |-> covers[t] \ {e.id}]
    /\ residue' = residue \cup {e.id}
    /\ UNCHANGED <<deleted, policy, messages, stamps, now, deletes, purging, turnVars,
                   inserted, purged, late, crowded>>

Tick ==
    /\ now < MaxTime
    /\ now' = now + 1
    /\ UNCHANGED <<tables, stamps, deletes, purging, turnVars, history>>

TurnStep(t) ==
    \/ GetSession(t)
    \/ \E text \in PromptTexts : PostPrompt(t, text)
    \/ PrepareRequest(t)
    \/ \E text \in ReplyTexts : PersistReply(t, text)
    \/ LoadSnapshots(t)
    \/ PlanByMessageCount(t)
    \/ DraftSnapshot(t)
    \/ InsertSnapshot(t)
    \/ ReloadSnapshots(t)
    \/ PruneSnapshots(t)
    \/ Fail(t)

Next ==
    \/ \E t \in Turns : TurnStep(t)
    \/ \E payload \in Payloads : UpdatePolicy(payload)
    \/ SaveSessionAsEngram
    \/ \E linked \in BOOLEAN : DeleteSession(linked)
    \/ DeleteLinkedEngrams
    \/ DeleteLinkedEngramsFails
    \/ RestoreSession
    \/ \E e \in snapshots \cup saved : DeleteEngram(e)
    \/ \E e \in trash : RestoreEngram(e)
    \/ Tick

Spec == Init /\ [][Next]_vars

------------------------------------------------------------------------------
(* Properties.                                                             *)

Places == {"idle", "post", "prepare", "reply", "load", "count", "draft", "insert",
           "reload", "prune"}

\* Shapes of the tables and of what the turns hold; no snapshot, stored or
\* stamped, has an abstract that IsLowValueSnapshotAbstract rejects.
TypeOK ==
    /\ deleted \in BOOLEAN /\ purging \in BOOLEAN /\ purged \in BOOLEAN
    /\ policy \in Policies
    /\ Len(messages) <= MaxMessages
    /\ snapshots \subseteq Snapshots /\ saved \subseteq Others
    /\ trash \subseteq Snapshots \cup Others
    /\ stamps \in 0 .. MaxStamps /\ now \in 0 .. MaxTime /\ deletes \in 0 .. MaxDeletes
    /\ pc \in [Turns -> Places]
    /\ session \in [Turns -> Policies]
    /\ prompt \in [Turns -> 0 .. MaxMessages]
    /\ request \in [Turns -> SUBSET (1 .. MaxMessages)]
    /\ loaded \in [Turns -> SUBSET Snapshots]
    /\ runNow \in [Turns -> 0 .. MaxTime]
    /\ draft \in [Turns -> SUBSET Snapshots]
    /\ inserted \subseteq 1 .. MaxStamps
    /\ covers \in [Turns -> SUBSET inserted]
    /\ unsettled \subseteq inserted
    /\ residue \subseteq 1 .. MaxStamps
    /\ late \in 0 .. MaxStamps /\ crowded \in BOOLEAN

Maintenance == {"load", "count", "draft", "insert", "reload", "prune"}

\* What becomes of a session created with the autosave flag and no strategy,
\* which keeps the flag next to strategy "off": no turn saves anything for it,
\* until an update names the flag or the strategy.  From then on, whatever
\* partial updates an owner sends, flag and strategy agree
\* (NormalizeAutosavePolicy), and only turns that found both run maintenance.
PolicyCoherent ==
    /\ policy.strategy # "off" => policy.enabled
    /\ policy.enabled /\ policy.strategy = "off" =>
         inserted = {} /\ \A t \in Turns : pc[t] \notin Maintenance
    /\ \A t \in Turns : pc[t] \in Maintenance => AutosaveOn(session[t])

\* Retention under concurrency: at most retention_max_snapshots are live, not
\* counting those that no complete maintenance run has dealt with, although
\* every run prunes from a list that may be stale.  A run is complete when it
\* reaches its DELETE in a session that was not deleted meanwhile, with a list
\* that the limit of the query did not cut, and with a retention_max_snapshots
\* that the owner has not lowered since; a snapshot that an administrator
\* restores has to be dealt with again.
RetentionBound ==
    Cardinality({s \in snapshots : s.id \notin unsettled}) <= AtLeastOne(policy.max)

\* Maintenance removes no snapshot that is young and among the newest, by the
\* settings its turn read at the start, which the owner may have changed
\* since: at the DELETE it has expired or retention_max_snapshots later ones
\* have been inserted, whatever other turns and the administrator did since
\* the list was loaded.
PrunedOnlyWhenDue ==
    [][pc' # pc =>
         \A s \in snapshots \ snapshots' : \E t \in Turns :
            /\ pc[t] = "prune" /\ pc'[t] = "idle"
            /\ \/ s.at < now - AtLeastOne(session[t].days)
               \/ Cardinality({i \in inserted : i > s.id}) >= AtLeastOne(session[t].max)]_vars

\* While a session stays deleted no turn adds a message to it and none removes
\* a snapshot from it: RestoreSession brings back what was deleted.
DeletedSessionFrozen ==
    [][deleted /\ deleted' /\ pc' # pc =>
         messages' = messages /\ snapshots \subseteq snapshots']_vars

\* After DeleteSession with delete_linked_engrams the session has no live
\* snapshot but those whose insert was already under way and those that an
\* administrator restored one by one: a turn that reads the deleted session
\* finds nothing to save.
PurgeLeavesOnlyInFlight == purged => Ids(snapshots) \subseteq residue

\* What stale lists cost: a turn skips an abstract that the list it loaded
\* already has, so the copies of one abstract never outnumber the turns that
\* run at a time, as long as nothing is deleted in between and the engrams of
\* the session fit the listing: the judgement sees no snapshot past the limit.
DuplicatesBounded ==
    deletes = 0 /\ ~crowded =>
        \A text \in PromptTexts \cup ReplyTexts :
            Cardinality({s \in snapshots : s.text = text}) <= Cardinality(Turns)

\* What a stale policy costs: when the owner has switched autosave off, only
\* turns that began before may still save a snapshot, and each at most one.
LateSnapshotsBounded ==
    ~policy.enabled =>
        late + Cardinality({t \in Turns : session[t].enabled
                                            /\ pc[t] \notin {"reload", "prune"}})
            <= Cardinality(Turns)

Said(role) == {i \in 1 .. Len(messages) : messages[i].role = role}

\* A failed turn leaves its prompt behind and a retry stores it again, but
\* never the other way round: every reply, stored or still to come, has a
\* prompt of its own in the session, through deletions and restores.
RepliesHavePrompts ==
    Cardinality(Said("assistant")) + Cardinality({t \in Turns : pc[t] \in {"prepare", "reply"}})
        <= Cardinality(Said("user"))

\* TestHistoryAsProviderMessagesFiltersRolesAndAppliesLimit expects a limited
\* history to end with the newest message: a provider asked about a live
\* session is sent the prompt it is to answer.  Past HistoryLoad messages the
\* prompt is not in the request.
PromptReachesProvider ==
    \A t \in Turns : pc[t] = "reply" /\ request[t] # {} => prompt[t] \in request[t]
==============================================================================
