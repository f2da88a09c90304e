--------------------------- MODULE LifecyclePolicy ---------------------------
(***************************************************************************)
(* The pure rules of internal/chat/lifecycle_policy.go and the partial     *)
(* update semantics of session_operations.go: how an autosave policy is    *)
(* normalised, when a snapshot is due, which abstracts are worth keeping,  *)
(* which snapshots retention removes.                                      *)
(*                                                                         *)
(* Times are natural numbers of one unit; a snapshot is a record           *)
(* [id, at, text] whose id is the order of the creation stamps, so that    *)
(* "ORDER BY created_at DESC" is descending id.  A text is an opaque value *)
(* with Blank (nothing but spaces) and Short (below the 36 characters or   *)
(* 7 words that make an abstract worth saving) set apart.                  *)
(***************************************************************************)
EXTENDS Integers, FiniteSets

Positive == Nat \ {0}   \* the CHECK constraints of chat_sessions
Strategies == {"off", "interval", "message_count"}

\* The columns of a session that make up its lifecycle policy: the autosave
\* flag, the strategy, autosave_interval_minutes, autosave_min_messages,
\* retention_days and retention_max_snapshots.
Policies ==
    [enabled : BOOLEAN, strategy : Strategies,
     interval : Positive, minMessages : Positive, days : Positive, max : Positive]

Blank == "blank"
Short == "short"

AtLeastOne(n) == IF n < 1 THEN 1 ELSE n

------------------------------------------------------------------------------
(* The policy.                                                             *)

\* Mutant of NormalizeAutosavePolicy: the flags are stored as they come.
NormalizeNothing(enabled, strategy) == [enabled |-> enabled, strategy |-> strategy]

NormalizeAutosavePolicy(enabled, strategy) ==
    IF ~enabled THEN [enabled |-> FALSE, strategy |-> "off"]
    ELSE IF strategy = "off" THEN [enabled |-> TRUE, strategy |-> "interval"]
    ELSE [enabled |-> TRUE, strategy |-> strategy]

\* A field of a payload that may be missing: at most one value.
Optional(S) == {field \in SUBSET S : \A x, y \in field : x = y}

Coalesce(field, default) == IF field = {} THEN default ELSE CHOOSE x \in field : TRUE

\* What a POST or PATCH may carry.  The strategy is parsed and the numbers meet
\* the CHECK constraints; any other payload is an error.
CreatePayloads ==
    [enabled : BOOLEAN, strategy : Optional(Strategies),
     interval : Positive, minMessages : Positive, days : Positive, max : Positive]
UpdatePayloads ==
    [enabled : Optional(BOOLEAN), strategy : Optional(Strategies),
     interval : Optional(Positive), minMessages : Optional(Positive),
     days : Optional(Positive), max : Optional(Positive)]

\* NormalizeSessionCreatePayload, then the defaults of normalizeCreatePayload:
\* normalising sees a missing strategy as one that is not "off" and lets it
\* pass, and "off" is its default afterwards, next to a flag that is set.
CreatedPolicy(payload) ==
    LET flags == IF payload.strategy = {}
                 THEN [enabled |-> payload.enabled, strategy |-> "off"]
                 ELSE NormalizeAutosavePolicy(payload.enabled, Coalesce(payload.strategy, "off"))
    IN  [enabled |-> flags.enabled, strategy |-> flags.strategy,
         interval |-> payload.interval, minMessages |-> payload.minMessages,
         days |-> payload.days, max |-> payload.max]

\* NormalizeSessionUpdatePayload and the COALESCE of UpdateChatSession.
UpdatedPolicy(old, payload) ==
    LET anEnabled == IF payload.enabled # {} THEN TRUE \in payload.enabled
                     ELSE payload.strategy # {"off"}
        aStrategy == Coalesce(payload.strategy, IF anEnabled THEN "interval" ELSE "off")
        flags == IF payload.enabled = {} /\ payload.strategy = {}
                 THEN [enabled |-> old.enabled, strategy |-> old.strategy]
                 ELSE NormalizeAutosavePolicy(anEnabled, aStrategy)
    IN  [enabled |-> flags.enabled, strategy |-> flags.strategy,
         interval |-> Coalesce(payload.interval, old.interval),
         minMessages |-> Coalesce(payload.minMessages, old.minMessages),
         days |-> Coalesce(payload.days, old.days),
         max |-> Coalesce(payload.max, old.max)]

\* Mutant of AutosaveOn: the flag is not consulted.
AutosaveAlways(policy) == TRUE

AutosaveOn(policy) == policy.enabled /\ policy.strategy # "off"

------------------------------------------------------------------------------
(* When a snapshot is due and worth taking.                                *)

ShouldTakeIntervalSnapshot(now, snapshots, interval) ==
    \A s \in snapshots : s.at <= now - AtLeastOne(interval)

ShouldTakeMessageCountSnapshot(replies, minMessages) ==
    replies > 0 /\ replies % AtLeastOne(minMessages) = 0

IsLowValueSnapshotAbstract(text) == text \in {Blank, Short}

\* Mutant of DuplicateSnapshotExists: nothing is a duplicate.
DuplicateNever(text, snapshots) == FALSE

DuplicateSnapshotExists(text, snapshots) == \E s \in snapshots : s.text = text

------------------------------------------------------------------------------
(* Retention.                                                              *)

\* The index of a snapshot in a list ordered newest first.
Newer(s, snapshots) == {r \in snapshots : r.id > s.id}

\* Mutant of ShouldKeepSnapshot: index < max - 1.
ShouldKeepOneLess(s, snapshots, policy, now) ==
    /\ Cardinality(Newer(s, snapshots)) < AtLeastOne(policy.max) - 1
    /\ s.at >= now - AtLeastOne(policy.days)

ShouldKeepSnapshot(s, snapshots, policy, now) ==
    /\ Cardinality(Newer(s, snapshots)) < AtLeastOne(policy.max)
    /\ s.at >= now - AtLeastOne(policy.days)

SelectRetentionPruneIDs(snapshots, policy, now) ==
    {s \in snapshots : ~ShouldKeepSnapshot(s, snapshots, policy, now)}

==============================================================================
