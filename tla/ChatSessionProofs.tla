-------------------------- MODULE ChatSessionProofs --------------------------
(***************************************************************************)
(* Proofs about ChatSession, for every number of turns, texts, policies,   *)
(* limits and bounds.                                                      *)
(***************************************************************************)
EXTENDS ChatSession, FiniteSetTheorems, SequenceTheorems, WellFoundedInduction, TLAPS

------------------------------------------------------------------------------
(* Least elements, cardinalities and the texts of a transcript.            *)

LEMMA LeastExists ==
    ASSUME NEW T, T \subseteq Nat, T # {}
    PROVE  \E x \in T : \A y \in T : x <= y
<1> DEFINE Less == {ss \in Nat \X Nat : ss[1] < ss[2]}
<1>1. IsWellFoundedOn(Less, Nat)
  BY NatLessThanWellFounded, Zenon DEF OpToRel
<1>2. \E x \in T : \A y \in T : <<y, x>> \notin Less
  <2> HIDE DEF Less
  <2> QED BY <1>1, WFMin, Zenon
<1>3. PICK x \in T : \A y \in T : <<y, x>> \notin Less
  BY <1>2
<1>4. ASSUME NEW y \in T PROVE x <= y
  <2>1. <<y, x>> \notin Less
    BY <1>3
  <2>2. x \in Nat /\ y \in Nat
    BY <1>3, <1>4
  <2> QED BY <2>1, <2>2
<1> QED BY <1>3, <1>4

LEMMA GreatestExists ==
    ASSUME NEW n \in Nat, NEW T, T \subseteq 1 .. n, T # {}
    PROVE  \E x \in T : \A y \in T : y <= x
<1> DEFINE Mirror == {n - y : y \in T}
<1>1. Mirror \subseteq Nat /\ Mirror # {}
  <2>1. \A y \in T : n - y \in Nat
    OBVIOUS
  <2>2. PICK y \in T : TRUE
    OBVIOUS
  <2> QED BY <2>1, <2>2
<1>2. PICK m \in Mirror : \A k \in Mirror : m <= k
  <2> HIDE DEF Mirror
  <2> QED BY <1>1, LeastExists
<1>3. PICK x \in T : m = n - x
  BY <1>2
<1>4. \A y \in T : y <= x
  <2> TAKE y \in T
  <2>1. n - x <= n - y
    BY <1>2, <1>3
  <2> QED BY <2>1
<1> QED BY <1>3, <1>4

Message == [role : {"user", "assistant"}, text : PromptTexts \cup ReplyTexts]

\* What DeriveChatSnapshotAbstract returns is the text of a message or Blank.
LEMMA LatestText ==
    ASSUME NEW list \in Seq(Message), NEW role, Speaking(list, role) # {}
    PROVE  Latest(list, Speaking(list, role)) \in PromptTexts \cup ReplyTexts
<1> DEFINE P == Speaking(list, role)
           i == CHOOSE k \in P : \A j \in P : j <= k
<1>1. Len(list) \in Nat /\ P \subseteq 1 .. Len(list) /\ P # {}
  BY DEF Speaking
<1>2. \E k \in P : \A j \in P : j <= k
  <2> HIDE DEF P
  <2> QED BY <1>1, GreatestExists
<1>3. i \in P
  <2> HIDE DEF P
  <2> QED BY <1>2
<1>4. list[i] \in Message
  <2> HIDE DEF i
  <2> QED BY <1>1, <1>3
<1> QED BY <1>4 DEF Latest, Message

LEMMA AbstractText ==
    ASSUME NEW list \in Seq(Message)
    PROVE  DeriveChatSnapshotAbstract(list) \in PromptTexts \cup ReplyTexts \cup {Blank}
BY LatestText DEF DeriveChatSnapshotAbstract

LEMMA ListedMessages ==
    ASSUME messages \in Seq(Message), NEW limit \in Nat
    PROVE  /\ ListChatMessages(limit) \in Seq(Message)
           /\ Len(ListChatMessages(limit)) <= Len(messages)
<1> DEFINE n == IF Len(messages) < limit THEN Len(messages) ELSE limit
<1>1. n \in Nat /\ n <= Len(messages)
  OBVIOUS
<1>2. SubSeq(messages, 1, n) \in Seq(Message) /\ Len(SubSeq(messages, 1, n)) = n
  <2> HIDE DEF n
  <2> QED BY <1>1, SubSeqProperties
<1>3. <<>> \in Seq(Message) /\ Len(<<>>) = 0
  OBVIOUS
<1> QED BY <1>1, <1>2, <1>3 DEF ListChatMessages

------------------------------------------------------------------------------
(* Shapes and the identity of snapshots.                                   *)

\* A snapshot that a table or a turn holds.
Seen(s) == s \in snapshots \cup trash \/ \E t \in Turns : s \in loaded[t] \cup draft[t]

\* A stamp is handed out once, so an id stands for one snapshot wherever it is
\* held, and an id that is about to be inserted is in no list.
StampInv ==
    /\ inserted \subseteq 1 .. stamps
    /\ \A s \in snapshots : s.id \in inserted
    /\ \A s \in trash \cap Snapshots : s.id \in inserted
    /\ \A t \in Turns : \A s \in loaded[t] : s.id \in inserted
    /\ \A t \in Turns : \A d \in draft[t] : d.id \in 1 .. stamps
    /\ \A t \in Turns : pc[t] = "insert" => \E d \in draft[t] : d.id \notin inserted
    /\ \A t \in Turns : pc[t] \notin {"insert", "reload", "prune"} => draft[t] = {}
    /\ \A t \in Turns : \A d, e \in draft[t] : d = e
    /\ \A t, u \in Turns : \A d \in draft[t], e \in draft[u] : d.id = e.id => t = u
    /\ \A s, r \in Snapshots : Seen(s) /\ Seen(r) /\ s.id = r.id => s = r
    /\ late <= Cardinality(inserted)

\* A strategy goes with the flag; the flag without a strategy goes back to the
\* creation of the session, so that no turn has read anything else.
PolicyInv ==
    /\ policy.strategy # "off" => policy.enabled
    /\ policy.enabled /\ policy.strategy = "off" =>
         inserted = {} /\ \A t \in Turns : ~ AutosaveOn(session[t])
    /\ \A t \in Turns : pc[t] \in Maintenance => AutosaveOn(session[t])

BaseInv == TypeOK /\ messages \in Seq(Message) /\ StampInv /\ PolicyInv

\* The two kinds of engrams are told apart by their columns.
LEMMA EngramsDisjoint == Snapshots \cap Others = {}
<1> SUFFICES ASSUME NEW s \in Snapshots, s \in Others PROVE FALSE
  OBVIOUS
<1>1. DOMAIN s = {"id", "at", "text"}
  BY DEF Snapshots
<1>2. DOMAIN s = {"id"}
  BY DEF Others
<1> QED BY <1>1, <1>2

LEMMA CoalesceType ==
    ASSUME NEW S, NEW field \in Optional(S), NEW default \in S
    PROVE  Coalesce(field, default) \in S
BY DEF Optional, Coalesce

LEMMA NoPolicyType == NoPolicy \in Policies /\ ~ NoPolicy.enabled /\ ~ AutosaveOn(NoPolicy)
<1>1. 1 \in Positive
  BY DEF Positive
<1> QED BY <1>1 DEF NoPolicy, Policies, Strategies, AutosaveOn

\* What a creation leaves: a strategy only next to the flag.
LEMMA CreatedPolicyAgrees ==
    ASSUME NEW payload \in CreatePayloads
    PROVE  LET p == CreatedPolicy(payload) IN
           p \in Policies /\ (p.strategy # "off" => p.enabled)
<1>1. /\ payload.enabled \in BOOLEAN /\ payload.strategy \in Optional(Strategies)
      /\ payload.interval \in Positive /\ payload.minMessages \in Positive
      /\ payload.days \in Positive /\ payload.max \in Positive
  BY DEF CreatePayloads
<1>2. "off" \in Strategies
  BY DEF Strategies
<1> DEFINE x == Coalesce(payload.strategy, "off")
           flags == IF payload.strategy = {}
                    THEN [enabled |-> payload.enabled, strategy |-> "off"]
                    ELSE NormalizeAutosavePolicy(payload.enabled, x)
<1>3. x \in Strategies
  BY <1>1, <1>2, CoalesceType
<1>4. flags.enabled \in BOOLEAN /\ flags.strategy \in Strategies /\ (flags.strategy # "off" => flags.enabled)
  <2> HIDE DEF x
  <2> QED BY <1>1, <1>2, <1>3 DEF NormalizeAutosavePolicy, Strategies
<1>5. CreatedPolicy(payload) =
        [enabled |-> flags.enabled, strategy |-> flags.strategy,
         interval |-> payload.interval, minMessages |-> payload.minMessages,
         days |-> payload.days, max |-> payload.max]
  BY DEF CreatedPolicy
<1> HIDE DEF flags
<1> QED BY <1>1, <1>4, <1>5 DEF Policies

\* A partial update either leaves flag and strategy as they are or makes them
\* agree.
LEMMA UpdatedPolicyAgrees ==
    ASSUME NEW old \in Policies, NEW payload \in Payloads
    PROVE  LET p == UpdatedPolicy(old, payload) IN
           /\ p \in Policies
           /\ \/ p.enabled = old.enabled /\ p.strategy = old.strategy
              \/ p.enabled <=> p.strategy # "off"
<1>1. /\ payload.enabled \in Optional(BOOLEAN) /\ payload.strategy \in Optional(Strategies)
      /\ payload.interval \in Optional(Positive) /\ payload.minMessages \in Optional(Positive)
      /\ payload.days \in Optional(Positive) /\ payload.max \in Optional(Positive)
  BY SessionAssumption DEF UpdatePayloads
<1> DEFINE anEnabled == IF payload.enabled # {} THEN TRUE \in payload.enabled
                        ELSE payload.strategy # {"off"}
           aStrategy == Coalesce(payload.strategy, IF anEnabled THEN "interval" ELSE "off")
           flags == IF payload.enabled = {} /\ payload.strategy = {}
                    THEN [enabled |-> old.enabled, strategy |-> old.strategy]
                    ELSE NormalizeAutosavePolicy(anEnabled, aStrategy)
           p == [enabled |-> flags.enabled, strategy |-> flags.strategy,
                 interval |-> Coalesce(payload.interval, old.interval),
                 minMessages |-> Coalesce(payload.minMessages, old.minMessages),
                 days |-> Coalesce(payload.days, old.days),
                 max |-> Coalesce(payload.max, old.max)]
<1>2. aStrategy \in Strategies
  <2>1. (IF anEnabled THEN "interval" ELSE "off") \in Strategies
    BY DEF Strategies
  <2> HIDE DEF anEnabled
  <2> QED BY <1>1, <2>1, CoalesceType
<1>3. /\ old.enabled \in BOOLEAN /\ old.strategy \in Strategies /\ old.interval \in Positive
      /\ old.minMessages \in Positive /\ old.days \in Positive /\ old.max \in Positive
  BY DEF Policies
<1>4. /\ flags.enabled \in BOOLEAN /\ flags.strategy \in Strategies
      /\ \/ flags.enabled = old.enabled /\ flags.strategy = old.strategy
         \/ flags.enabled <=> flags.strategy # "off"
  <2>1. ASSUME NEW e, NEW x \in Strategies
        PROVE  LET f == NormalizeAutosavePolicy(e, x) IN
               f.enabled \in BOOLEAN /\ f.strategy \in Strategies /\ (f.enabled <=> f.strategy # "off")
    BY DEF NormalizeAutosavePolicy, Strategies
  <2>2. CASE flags = [enabled |-> old.enabled, strategy |-> old.strategy]
    <3> HIDE DEF flags
    <3> QED BY <1>3, <2>2
  <2>3. CASE flags = NormalizeAutosavePolicy(anEnabled, aStrategy)
    <3> HIDE DEF flags, anEnabled, aStrategy
    <3> QED BY <1>2, <2>1, <2>3
  <2> QED BY <2>2, <2>3
<1>5. /\ Coalesce(payload.interval, old.interval) \in Positive
      /\ Coalesce(payload.minMessages, old.minMessages) \in Positive
      /\ Coalesce(payload.days, old.days) \in Positive
      /\ Coalesce(payload.max, old.max) \in Positive
  BY <1>1, <1>3, CoalesceType
<1>6. UpdatedPolicy(old, payload) = p
  BY DEF UpdatedPolicy
<1>7. p \in Policies /\ p.enabled = flags.enabled /\ p.strategy = flags.strategy
  <2> HIDE DEF flags
  <2> QED BY <1>4, <1>5 DEF Policies
<1> HIDE DEF p, flags
<1> QED BY <1>4, <1>6, <1>7

LEMMA BaseInit == Init => BaseInv
<1> SUFFICES ASSUME Init PROVE BaseInv
  OBVIOUS
<1> USE DEF Init
<1>1. PICK payload \in Creations : policy = CreatedPolicy(payload)
  OBVIOUS
<1>2. policy \in Policies /\ (policy.strategy # "off" => policy.enabled)
  BY <1>1, SessionAssumption, CreatedPolicyAgrees
<1>3. \A t \in Turns : session[t] = NoPolicy /\ pc[t] = "idle"
  OBVIOUS
<1>5. {MaxMessages, MaxStamps, MaxTime, MaxDeletes} \subseteq Nat
  BY SessionAssumption
<1>6. messages \in Seq(Message) /\ Len(messages) = 0
  OBVIOUS
<1>7. TypeOK
  <2>0. deleted \in BOOLEAN /\ purging \in BOOLEAN /\ purged \in BOOLEAN /\ crowded \in BOOLEAN
    BY Zenon
  <2>1. /\ Len(messages) <= MaxMessages
        /\ stamps \in 0 .. MaxStamps /\ now \in 0 .. MaxTime /\ deletes \in 0 .. MaxDeletes
        /\ late \in 0 .. MaxStamps
    BY <1>5, <1>6
  <2>2. /\ pc \in [Turns -> Places] /\ session \in [Turns -> Policies]
        /\ prompt \in [Turns -> 0 .. MaxMessages] /\ runNow \in [Turns -> 0 .. MaxTime]
    BY <1>5, NoPolicyType DEF Places
  <2>3. /\ request \in [Turns -> SUBSET (1 .. MaxMessages)]
        /\ loaded \in [Turns -> SUBSET Snapshots] /\ draft \in [Turns -> SUBSET Snapshots]
        /\ covers \in [Turns -> SUBSET inserted]
    OBVIOUS
  <2> QED BY <1>2, <2>0, <2>1, <2>2, <2>3, Zenon DEF TypeOK
<1>8. Cardinality(inserted) = 0
  BY FS_EmptySet
<1>9. StampInv
  BY <1>5, <1>8 DEF StampInv, Seen
<1>10. PolicyInv
  <2>1. \A t \in Turns : ~ AutosaveOn(session[t]) /\ pc[t] \notin Maintenance
    BY <1>3, NoPolicyType DEF Maintenance
  <2> QED BY <1>2, <2>1 DEF PolicyInv
<1> QED BY <1>6, <1>7, <1>9, <1>10 DEF BaseInv

\* The bounds are natural numbers.
LEMMA Bounds ==
    /\ MaxMessages \in Nat /\ MaxStamps \in Nat /\ MaxTime \in Nat /\ MaxDeletes \in Nat
    /\ HistoryLoad \in Nat /\ HistoryLimit \in Nat /\ AutosaveLoad \in Nat /\ LinkedLoad \in Nat
BY SessionAssumption

LEMMA FiniteStamps ==
    ASSUME TypeOK
    PROVE  /\ IsFiniteSet(1 .. MaxStamps) /\ Cardinality(1 .. MaxStamps) = MaxStamps
           /\ IsFiniteSet(inserted) /\ Cardinality(inserted) \in Nat
<1>1. IsFiniteSet(1 .. MaxStamps) /\ Cardinality(1 .. MaxStamps) = MaxStamps
  BY Bounds, FS_Interval
<1>2. IsFiniteSet(inserted)
  BY <1>1, FS_Subset DEF TypeOK
<1> QED BY <1>1, <1>2, FS_CardinalityType

LEMMA MessageStored ==
    ASSUME messages \in Seq(Message), Len(messages) < MaxMessages,
           NEW role \in {"user", "assistant"}, NEW text \in PromptTexts \cup ReplyTexts,
           CreateChatMessage(role, text)
    PROVE  /\ messages' \in Seq(Message)
           /\ Len(messages') = Len(messages) + 1
           /\ Len(messages') <= MaxMessages
<1>1. [role |-> role, text |-> text] \in Message
  BY DEF Message
<1>2. messages' = Append(messages, [role |-> role, text |-> text])
  BY DEF CreateChatMessage
<1>3. messages' \in Seq(Message) /\ Len(messages') = Len(messages) + 1
  BY <1>1, <1>2, AppendProperties
<1> QED BY <1>3, Bounds

LEMMA FinishType ==
    ASSUME TypeOK, NEW t \in Turns, Finish(t)
    PROVE  /\ pc' \in [Turns -> Places] /\ session' \in [Turns -> Policies]
           /\ prompt' \in [Turns -> 0 .. MaxMessages]
           /\ request' \in [Turns -> SUBSET (1 .. MaxMessages)]
           /\ loaded' \in [Turns -> SUBSET Snapshots]
           /\ runNow' \in [Turns -> 0 .. MaxTime]
           /\ draft' \in [Turns -> SUBSET Snapshots]
<1>2. pc' \in [Turns -> Places] /\ session' \in [Turns -> Policies]
  BY NoPolicyType DEF TypeOK, Finish, Goto, Places
<1>3. prompt' \in [Turns -> 0 .. MaxMessages] /\ runNow' \in [Turns -> 0 .. MaxTime]
  BY Bounds DEF TypeOK, Finish
<1>4. /\ request' \in [Turns -> SUBSET (1 .. MaxMessages)]
      /\ loaded' \in [Turns -> SUBSET Snapshots] /\ draft' \in [Turns -> SUBSET Snapshots]
  BY DEF TypeOK, Finish
<1> QED BY <1>2, <1>3, <1>4

LEMMA ListedSnapshots == ListAutosaveSnapshots \subseteq snapshots
BY DEF ListAutosaveSnapshots

\* The turns' own steps keep the shapes.
LEMMA TurnType ==
    ASSUME BaseInv, NEW t \in Turns, TurnStep(t)
    PROVE  TypeOK' /\ messages' \in Seq(Message)
<1> USE DEF TypeOK, engrams, tables, turnVars, history
<1>0. TypeOK /\ messages \in Seq(Message) /\ StampInv
  BY DEF BaseInv
<1>1. CASE GetSession(t)
  <2>1. pc' \in [Turns -> Places] /\ session' \in [Turns -> Policies]
    BY <1>0, <1>1 DEF GetSession, Goto, Places
  <2> QED BY <1>0, <1>1, <2>1 DEF GetSession
<1>2. ASSUME NEW text \in PromptTexts, PostPrompt(t, text) PROVE TypeOK' /\ messages' \in Seq(Message)
  <2>1. messages' \in Seq(Message) /\ Len(messages') <= MaxMessages
    BY <1>0, <1>2, MessageStored DEF PostPrompt
  <2>2. Len(messages) + 1 \in 0 .. MaxMessages
    BY <1>0, <1>2, Bounds DEF PostPrompt
  <2>3. pc' \in [Turns -> Places] /\ prompt' \in [Turns -> 0 .. MaxMessages]
    BY <1>0, <1>2, <2>2 DEF PostPrompt, Goto, Places
  <2> QED BY <1>0, <1>2, <2>1, <2>3 DEF PostPrompt
<1>3. CASE PrepareRequest(t)
  <2>1. ProviderMessages \in SUBSET (1 .. MaxMessages)
    <3> DEFINE list == ListChatMessages(HistoryLoad)
    <3>1. Len(list) <= MaxMessages /\ Len(list) \in Nat
      <4>1. list \in Seq(Message) /\ Len(list) <= Len(messages)
        BY <1>0, ListedMessages, Bounds
      <4> HIDE DEF list
      <4> QED BY <1>0, <4>1, Bounds
    <3> QED BY <3>1, Bounds DEF ProviderMessages
  <2>2. pc' \in [Turns -> Places] /\ request' \in [Turns -> SUBSET (1 .. MaxMessages)]
    BY <1>0, <1>3, <2>1 DEF PrepareRequest, Goto, Places
  <2> QED BY <1>0, <1>3, <2>2 DEF PrepareRequest
<1>4. ASSUME NEW text \in ReplyTexts, PersistReply(t, text) PROVE TypeOK' /\ messages' \in Seq(Message)
  <2>1. messages' \in Seq(Message) /\ Len(messages') <= MaxMessages
    BY <1>0, <1>4, MessageStored DEF PersistReply
  <2>2. CASE Finish(t)
    BY <1>0, <1>4, <2>1, <2>2, FinishType DEF PersistReply
  <2>3. CASE ~ Finish(t)
    <3>1. pc' \in [Turns -> Places] /\ UNCHANGED <<session, loaded, draft>>
      BY <1>0, <1>4, <2>3 DEF PersistReply, Goto, Places
    <3>2. prompt' \in [Turns -> 0 .. MaxMessages] /\ runNow' \in [Turns -> 0 .. MaxTime]
      <4>1. prompt' = [prompt EXCEPT ![t] = 0] /\ runNow' = [runNow EXCEPT ![t] = now]
        BY <1>4, <2>3 DEF PersistReply
      <4> QED BY <1>0, <4>1, Bounds
    <3>3. request' \in [Turns -> SUBSET (1 .. MaxMessages)]
      BY <1>0, <1>4, <2>3 DEF PersistReply
    <3> QED BY <1>0, <1>4, <2>1, <3>1, <3>2, <3>3 DEF PersistReply
  <2> QED BY <2>2, <2>3
<1>5. ListAutosaveSnapshots \in SUBSET Snapshots /\ Ids(ListAutosaveSnapshots) \subseteq inserted
  BY <1>0, ListedSnapshots DEF Ids, StampInv
<1>6. CASE LoadSnapshots(t) \/ ReloadSnapshots(t)
  <2>1. pc' \in [Turns -> Places]
    BY <1>0, <1>6 DEF LoadSnapshots, ReloadSnapshots, Goto, Places
  <2>2. loaded' \in [Turns -> SUBSET Snapshots] /\ crowded' \in BOOLEAN
    BY <1>0, <1>5, <1>6 DEF LoadSnapshots, ReloadSnapshots, Cover
  <2>3. covers' \in [Turns -> SUBSET inserted]
    <3>1. \E c \in SUBSET inserted : covers' = [covers EXCEPT ![t] = c]
      <4>1. covers[t] \subseteq inserted
        BY <1>0
      <4> QED BY <1>5, <1>6, <4>1 DEF LoadSnapshots, ReloadSnapshots, Cover
    <3> QED BY <1>0, <3>1
  <2> QED BY <1>0, <1>6, <2>1, <2>2, <2>3 DEF LoadSnapshots, ReloadSnapshots, Cover
<1>7. CASE PlanByMessageCount(t)
  <2>1. pc' \in [Turns -> Places]
    BY <1>0, <1>7 DEF PlanByMessageCount, Goto, Places
  <2> QED BY <1>0, <1>7, <2>1 DEF PlanByMessageCount
<1>8. CASE DraftSnapshot(t)
  <2> DEFINE list == ListChatMessages(AutosaveLoad)
             text == DeriveChatSnapshotAbstract(list)
  <2>1. pc' \in [Turns -> Places]
    BY <1>0, <1>8 DEF DraftSnapshot, Goto, Places
  <2>2. CASE UNCHANGED <<stamps, draft>>
    BY <1>0, <1>8, <2>1, <2>2 DEF DraftSnapshot
  <2>3. CASE ~ UNCHANGED <<stamps, draft>>
    <3>1. /\ ~ IsLowValueSnapshotAbstract(text) /\ stamps < MaxStamps
          /\ stamps' = stamps + 1
          /\ draft' = [draft EXCEPT ![t] = {[id |-> stamps + 1, at |-> now, text |-> text]}]
      BY <1>8, <2>3 DEF DraftSnapshot
    <3>2. text \in (PromptTexts \cup ReplyTexts) \ {Blank, Short}
      BY <1>0, <3>1, ListedMessages, AbstractText, Bounds DEF IsLowValueSnapshotAbstract
    <3>3. stamps' \in 0 .. MaxStamps /\ stamps + 1 \in 1 .. MaxStamps
      BY <1>0, <3>1, Bounds
    <3> HIDE DEF text
    <3>4. [id |-> stamps + 1, at |-> now, text |-> text] \in Snapshots
      BY <1>0, <3>2, <3>3 DEF Snapshots
    <3>5. draft' \in [Turns -> SUBSET Snapshots]
      BY <1>0, <3>1, <3>4
    <3> QED BY <1>0, <1>8, <2>1, <3>3, <3>5 DEF DraftSnapshot
  <2> QED BY <2>2, <2>3
<1>9. CASE InsertSnapshot(t)
  <2>1. pc' \in [Turns -> Places]
    BY <1>0, <1>9 DEF InsertSnapshot, Goto, Places
  <2>2. draft[t] \subseteq Snapshots
    BY <1>0
  <2>3. snapshots' \subseteq Snapshots
    BY <1>0, <1>9, <2>2 DEF InsertSnapshot
  <2>4. Ids(draft[t]) \subseteq 1 .. MaxStamps
    BY <2>2 DEF Ids, Snapshots
  <2>5. inserted' \subseteq 1 .. MaxStamps /\ unsettled' \subseteq inserted'
    BY <1>0, <1>9, <2>4 DEF InsertSnapshot
  <2>6. covers' \in [Turns -> SUBSET inserted']
    BY <1>0, <1>9 DEF InsertSnapshot
  <2>7. late' \in 0 .. MaxStamps
    <3>1. PICK d \in draft[t] : d.id \notin inserted
      BY <1>0, <1>9 DEF InsertSnapshot, StampInv
    <3>2. IsFiniteSet(inserted \cup {d.id}) /\ Cardinality(inserted \cup {d.id}) = Cardinality(inserted) + 1
      BY <1>0, <3>1, FiniteStamps, FS_AddElement
    <3>3. inserted \cup {d.id} \subseteq 1 .. MaxStamps
      BY <1>0, <2>4, <3>1 DEF Ids
    <3>4. Cardinality(1 .. MaxStamps) = MaxStamps /\ IsFiniteSet(1 .. MaxStamps)
      BY <1>0, FiniteStamps
    <3>5. Cardinality(inserted \cup {d.id}) <= MaxStamps
      BY <3>3, <3>4, FS_Subset
    <3>6. late <= Cardinality(inserted) /\ late \in Nat /\ Cardinality(inserted) \in Nat
      BY <1>0, FiniteStamps DEF StampInv
    <3>7. late' \in {late, late + 1}
      BY <1>9 DEF InsertSnapshot
    <3> QED BY <3>2, <3>5, <3>6, <3>7, Bounds
  <2> QED BY <1>0, <1>9, <2>1, <2>3, <2>5, <2>6, <2>7 DEF InsertSnapshot
<1>10. CASE PruneSnapshots(t)
  <2>1. snapshots' \subseteq Snapshots /\ unsettled' \subseteq inserted
    BY <1>0, <1>10 DEF PruneSnapshots
  <2>2. covers' \in [Turns -> SUBSET inserted]
    BY <1>0, <1>10 DEF PruneSnapshots
  <2> QED BY <1>0, <1>10, <2>1, <2>2, FinishType DEF PruneSnapshots
<1>11. CASE Fail(t)
  <2>1. covers' \in [Turns -> SUBSET inserted]
    BY <1>0, <1>11 DEF Fail
  <2> QED BY <1>0, <1>11, <2>1, FinishType DEF Fail
<1> QED BY <1>1, <1>2, <1>3, <1>4, <1>6, <1>7, <1>8, <1>9, <1>10, <1>11 DEF TurnStep

\* A step that inserts no snapshot and stamps none: what is held afterwards was
\* held before.
NothingNew ==
    /\ stamps <= stamps' /\ inserted' = inserted /\ late' \in {0, late}
    /\ snapshots' \subseteq snapshots \cup trash
    /\ trash' \cap Snapshots \subseteq snapshots \cup trash
    /\ \A u \in Turns : draft'[u] \subseteq draft[u] /\ loaded'[u] \subseteq loaded[u] \cup snapshots
    /\ \A u \in Turns : pc'[u] = "insert" => pc[u] = "insert" /\ draft'[u] = draft[u]
    /\ \A u \in Turns : pc'[u] \notin {"insert", "reload", "prune"} => draft'[u] = {}

LEMMA NothingNewKeepsStamps ==
    ASSUME BaseInv, TypeOK', NothingNew
    PROVE  StampInv'
<1> USE DEF NothingNew
<1>0. TypeOK /\ StampInv
  BY DEF BaseInv
<1>1. ASSUME NEW s \in Snapshots, Seen(s)' PROVE Seen(s)
  BY <1>1 DEF Seen
<1>2. /\ inserted' \subseteq 1 .. stamps' /\ \A s \in snapshots' : s.id \in inserted'
      /\ \A s \in trash' \cap Snapshots : s.id \in inserted'
  <2>1. 1 .. stamps \subseteq 1 .. stamps'
    BY <1>0 DEF TypeOK
  <2> QED BY <1>0, <2>1 DEF StampInv, TypeOK
<1>3. \A u \in Turns : /\ \A s \in loaded'[u] : s.id \in inserted'
                       /\ \A d \in draft'[u] : d.id \in 1 .. stamps'
  <2>1. 1 .. stamps \subseteq 1 .. stamps'
    BY <1>0 DEF TypeOK
  <2> QED BY <1>0, <2>1 DEF StampInv
<1>4. \A u \in Turns : pc'[u] = "insert" => \E d \in draft'[u] : d.id \notin inserted'
  BY <1>0 DEF StampInv
<1>5. \A u \in Turns : \A d, e \in draft'[u] : d = e
  BY <1>0 DEF StampInv
<1>6. \A u, v \in Turns : \A d \in draft'[u], e \in draft'[v] : d.id = e.id => u = v
  BY <1>0 DEF StampInv
<1>7. \A s, r \in Snapshots : Seen(s)' /\ Seen(r)' /\ s.id = r.id => s = r
  BY <1>0, <1>1 DEF StampInv
<1>8. late' <= Cardinality(inserted')
  BY <1>0, FiniteStamps DEF StampInv
<1>9. \A u \in Turns : pc'[u] \notin {"insert", "reload", "prune"} => draft'[u] = {}
  OBVIOUS
<1> HIDE DEF NothingNew
<1> QED BY <1>2, <1>3, <1>4, <1>5, <1>6, <1>7, <1>8, <1>9 DEF StampInv, Snapshots

LEMMA DraftStamps ==
    ASSUME BaseInv, TypeOK', NEW t \in Turns, DraftSnapshot(t)
    PROVE  StampInv'
<1> USE DEF engrams, tables, turnVars, history
<1>0. TypeOK /\ StampInv
  BY DEF BaseInv
<1>1. CASE UNCHANGED <<stamps, draft>>
  <2>1. pc' = [pc EXCEPT ![t] = "prune"] /\ pc[t] = "draft"
    <3>1. CASE pc' = [pc EXCEPT ![t] = "insert"] /\ stamps' = stamps + 1
      BY <1>0, <1>1, <3>1 DEF TypeOK
    <3> QED BY <3>1 DEF DraftSnapshot, Goto
  <2>2. UNCHANGED <<snapshots, trash, inserted, loaded, late>>
    BY DEF DraftSnapshot
  <2>3. NothingNew
    BY <1>0, <1>1, <2>1, <2>2 DEF NothingNew, TypeOK, StampInv
  <2> QED BY <2>3, NothingNewKeepsStamps
<1>2. CASE ~ UNCHANGED <<stamps, draft>>
  <2>1. PICK text : draft' = [draft EXCEPT ![t] = {[id |-> stamps + 1, at |-> now, text |-> text]}]
    BY <1>2 DEF DraftSnapshot
  <2> DEFINE new == [id |-> stamps + 1, at |-> now, text |-> text]
  <2>2. /\ pc' = [pc EXCEPT ![t] = "insert"] /\ pc[t] = "draft" /\ stamps' = stamps + 1
        /\ UNCHANGED <<snapshots, trash, inserted, loaded, late>>
    BY <1>2 DEF DraftSnapshot, Goto
  <2>3. new.id = stamps + 1
    OBVIOUS
  <2>4. draft[t] = {} /\ draft'[t] = {new} /\ \A u \in Turns \ {t} : draft'[u] = draft[u]
    <3>1. draft[t] = {}
      BY <1>0, <2>2 DEF StampInv
    <3>2. draft \in [Turns -> SUBSET Snapshots]
      BY <1>0 DEF TypeOK
    <3> HIDE DEF new
    <3> QED BY <2>1, <3>1, <3>2 DEF new
  <2> HIDE DEF new
  <2>5. stamps \in Nat /\ inserted \subseteq 1 .. stamps
    BY <1>0 DEF TypeOK, StampInv
  <2>6. ASSUME NEW s \in Snapshots, Seen(s)' PROVE s = new \/ (Seen(s) /\ s.id \in 1 .. stamps)
    <3>1. s = new \/ Seen(s)
      BY <2>2, <2>4, <2>6 DEF Seen
    <3>2. ASSUME Seen(s) PROVE s.id \in 1 .. stamps
      <4>1. s.id \in inserted \/ s.id \in 1 .. stamps
        BY <1>0, <3>2 DEF Seen, StampInv
      <4> QED BY <2>5, <4>1
    <3> QED BY <3>1, <3>2
  <2>7. /\ inserted' \subseteq 1 .. stamps' /\ \A s \in snapshots' : s.id \in inserted'
        /\ \A s \in trash' \cap Snapshots : s.id \in inserted'
    BY <1>0, <2>2, <2>5 DEF StampInv
  <2>8. \A u \in Turns : \A s \in loaded'[u] : s.id \in inserted'
    BY <1>0, <2>2 DEF StampInv
  <2>9. \A u \in Turns : \A d \in draft'[u] : d.id \in 1 .. stamps'
    <3> TAKE u \in Turns
    <3>1. CASE u = t
      BY <2>2, <2>3, <2>4, <2>5, <3>1
    <3>2. CASE u # t
      BY <1>0, <2>2, <2>4, <2>5, <3>2 DEF StampInv
    <3> QED BY <3>1, <3>2
  <2>10. \A u \in Turns : pc'[u] = "insert" => \E d \in draft'[u] : d.id \notin inserted'
    <3> TAKE u \in Turns
    <3>1. CASE u = t
      BY <2>2, <2>3, <2>4, <2>5, <3>1
    <3>2. CASE u # t
      BY <1>0, <2>2, <2>4, <3>2 DEF StampInv, TypeOK
    <3> QED BY <3>1, <3>2
  <2>11. \A u \in Turns : pc'[u] \notin {"insert", "reload", "prune"} => draft'[u] = {}
    BY <1>0, <2>2, <2>4 DEF StampInv, TypeOK
  <2>12. \A u \in Turns : \A d, e \in draft'[u] : d = e
    BY <1>0, <2>4 DEF StampInv
  <2>13. \A u, v \in Turns : \A d \in draft'[u], e \in draft'[v] : d.id = e.id => u = v
    <3> TAKE u, v \in Turns
    <3>1. \A w \in Turns \ {t} : \A d \in draft'[w] : d.id # stamps + 1
      BY <1>0, <2>4, <2>5 DEF StampInv
    <3> QED BY <1>0, <2>3, <2>4, <3>1 DEF StampInv
  <2>14. \A s, r \in Snapshots : Seen(s)' /\ Seen(r)' /\ s.id = r.id => s = r
    <3>1. \A s : Seen(s) /\ s.id \in 1 .. stamps => s.id # new.id
      BY <2>3, <2>5
    <3> QED BY <1>0, <2>6, <3>1 DEF StampInv
  <2>15. late' <= Cardinality(inserted')
    BY <1>0, <2>2 DEF StampInv
  <2> QED BY <2>7, <2>8, <2>9, <2>10, <2>11, <2>12, <2>13, <2>14, <2>15 DEF StampInv, Snapshots
<1> QED BY <1>1, <1>2

LEMMA InsertStamps ==
    ASSUME BaseInv, TypeOK', NEW t \in Turns, InsertSnapshot(t)
    PROVE  StampInv'
<1> USE DEF engrams, tables, turnVars, history
<1>0. TypeOK /\ StampInv
  BY DEF BaseInv
<1>1. PICK d \in draft[t] : d.id \notin inserted
  BY <1>0 DEF StampInv, InsertSnapshot
<1>2. draft[t] = {d} /\ Ids(draft[t]) = {d.id}
  BY <1>0, <1>1 DEF StampInv, Ids
<1>3. /\ snapshots' = snapshots \cup {d} /\ inserted' = inserted \cup {d.id}
      /\ UNCHANGED <<stamps, trash, loaded, draft>> /\ late' \in {late, late + 1}
      /\ pc' = [pc EXCEPT ![t] = "reload"] /\ pc[t] = "insert"
  BY <1>2 DEF InsertSnapshot, Goto
<1>4. ASSUME NEW s, Seen(s)' PROVE Seen(s)
  BY <1>1, <1>3, <1>4 DEF Seen
<1>5. /\ inserted' \subseteq 1 .. stamps' /\ \A s \in snapshots' : s.id \in inserted'
      /\ \A s \in trash' \cap Snapshots : s.id \in inserted'
  <2>1. /\ d.id \in 1 .. stamps /\ inserted \subseteq 1 .. stamps /\ \A s \in snapshots : s.id \in inserted
        /\ \A s \in trash \cap Snapshots : s.id \in inserted
    BY <1>0, <1>1 DEF StampInv
  <2> QED BY <1>3, <2>1
<1>6. \A u \in Turns : /\ \A s \in loaded'[u] : s.id \in inserted'
                       /\ \A e \in draft'[u] : e.id \in 1 .. stamps'
  BY <1>0, <1>3 DEF StampInv
<1>7. \A u \in Turns : pc'[u] = "insert" => \E e \in draft'[u] : e.id \notin inserted'
  <2>1. SUFFICES ASSUME NEW u \in Turns, pc'[u] = "insert" PROVE \E e \in draft[u] : e.id \notin inserted'
    BY <1>3
  <2>2. u # t /\ pc[u] = "insert"
    BY <1>0, <1>3, <2>1 DEF TypeOK
  <2>3. PICK e \in draft[u] : e.id \notin inserted
    BY <1>0, <2>2 DEF StampInv
  <2>4. e.id # d.id
    BY <1>0, <1>1, <2>2, <2>3 DEF StampInv
  <2> QED BY <1>3, <2>3, <2>4
<1>8. \A u \in Turns : pc'[u] \notin {"insert", "reload", "prune"} => draft'[u] = {}
  BY <1>0, <1>3 DEF StampInv, TypeOK
<1>9. \A u \in Turns : \A e, f \in draft'[u] : e = f
  BY <1>0, <1>3 DEF StampInv
<1>10. \A u, v \in Turns : \A e \in draft'[u], f \in draft'[v] : e.id = f.id => u = v
  BY <1>0, <1>3 DEF StampInv
<1>11. \A s, r \in Snapshots : Seen(s)' /\ Seen(r)' /\ s.id = r.id => s = r
  BY <1>0, <1>4 DEF StampInv
<1>12. late' <= Cardinality(inserted')
  <2>1. Cardinality(inserted') = Cardinality(inserted) + 1
    BY <1>0, <1>1, <1>3, FiniteStamps, FS_AddElement
  <2>2. late \in Nat
    BY <1>0 DEF TypeOK
  <2>3. late <= Cardinality(inserted) /\ Cardinality(inserted) \in Nat
    BY <1>0, FiniteStamps DEF StampInv
  <2> QED BY <1>3, <2>1, <2>2, <2>3
<1> QED BY <1>5, <1>6, <1>7, <1>8, <1>9, <1>10, <1>11, <1>12 DEF StampInv, Snapshots

LEMMA TurnStamps ==
    ASSUME BaseInv, TypeOK', NEW t \in Turns, TurnStep(t)
    PROVE  StampInv'
<1> USE DEF engrams, tables, turnVars, history
<1>0. TypeOK /\ StampInv
  BY DEF BaseInv
<1>1. CASE GetSession(t) \/ (\E text \in PromptTexts : PostPrompt(t, text)) \/ PrepareRequest(t)
            \/ PlanByMessageCount(t)
  <2>1. /\ UNCHANGED <<stamps, inserted, late, snapshots, trash, draft, loaded>>
        /\ \E p \in Places \ {"insert"} : pc' = [pc EXCEPT ![t] = p]
        /\ pc[t] \notin {"insert", "reload", "prune"}
    BY <1>1 DEF GetSession, PostPrompt, PrepareRequest, PlanByMessageCount, Goto, Places
  <2>2. NothingNew
    BY <1>0, <2>1 DEF NothingNew, TypeOK, StampInv
  <2> QED BY <2>2, NothingNewKeepsStamps
<1>2. CASE \E text \in ReplyTexts : PersistReply(t, text)
  <2>1. /\ UNCHANGED <<stamps, inserted, late, snapshots, trash>> /\ pc[t] = "reply"
        /\ \E p \in {"idle", "load"} : pc' = [pc EXCEPT ![t] = p]
        /\ draft' = draft \/ draft' = [draft EXCEPT ![t] = {}]
        /\ loaded' = loaded \/ loaded' = [loaded EXCEPT ![t] = {}]
    BY <1>2 DEF PersistReply, Finish, Goto
  <2>2. \A u \in Turns : draft'[u] \subseteq draft[u] /\ loaded'[u] \subseteq loaded[u] \cup snapshots
    BY <1>0, <2>1 DEF TypeOK
  <2>3. draft[t] = {} /\ draft'[t] = {} /\ \A u \in Turns \ {t} : draft'[u] = draft[u] /\ pc'[u] = pc[u]
    <3>1. draft[t] = {}
      BY <1>0, <2>1 DEF StampInv
    <3> QED BY <1>0, <2>1, <3>1 DEF TypeOK
  <2>4. pc'[t] # "insert"
    BY <1>0, <2>1 DEF TypeOK
  <2>5. NothingNew
    BY <1>0, <2>1, <2>2, <2>3, <2>4 DEF NothingNew, StampInv, TypeOK
  <2> QED BY <2>5, NothingNewKeepsStamps
<1>3. CASE LoadSnapshots(t) \/ ReloadSnapshots(t)
  <2>1. /\ UNCHANGED <<stamps, inserted, late, snapshots, trash, draft>>
        /\ pc[t] = "load" \/ (pc[t] = "reload" /\ pc' = [pc EXCEPT ![t] = "prune"])
        /\ \E p \in {"count", "draft", "prune"} : pc' = [pc EXCEPT ![t] = p]
        /\ \E L \in SUBSET snapshots : loaded' = [loaded EXCEPT ![t] = L]
    BY <1>3 DEF LoadSnapshots, ReloadSnapshots, Goto, Cover, ListAutosaveSnapshots
  <2>2. NothingNew
    BY <1>0, <2>1 DEF NothingNew, TypeOK, StampInv
  <2> QED BY <2>2, NothingNewKeepsStamps
<1>4. CASE DraftSnapshot(t)
  BY <1>4, DraftStamps
<1>5. CASE InsertSnapshot(t)
  BY <1>5, InsertStamps
<1>6. CASE PruneSnapshots(t) \/ Fail(t)
  <2>1. /\ UNCHANGED <<stamps, inserted, late, trash>> /\ snapshots' \subseteq snapshots
        /\ pc' = [pc EXCEPT ![t] = "idle"]
        /\ draft' = [draft EXCEPT ![t] = {}] /\ loaded' = [loaded EXCEPT ![t] = {}]
    BY <1>6 DEF PruneSnapshots, Fail, Finish, Goto
  <2>2. NothingNew
    BY <1>0, <2>1 DEF NothingNew, TypeOK, StampInv
  <2> QED BY <2>2, NothingNewKeepsStamps
<1> QED BY <1>1, <1>2, <1>3, <1>4, <1>5, <1>6 DEF TurnStep

LEMMA TurnPolicy ==
    ASSUME BaseInv, NEW t \in Turns, TurnStep(t)
    PROVE  PolicyInv'
<1> USE DEF engrams, tables, turnVars, history
<1>0. TypeOK /\ PolicyInv
  BY DEF BaseInv
<1>1. policy' = policy
  BY DEF TurnStep, GetSession, PostPrompt, PrepareRequest, PersistReply, LoadSnapshots, PlanByMessageCount,
         DraftSnapshot, InsertSnapshot, ReloadSnapshots, PruneSnapshots, Fail
<1>2. \/ session' = [session EXCEPT ![t] = policy] /\ pc' = [pc EXCEPT ![t] = "post"]
      \/ /\ session' = session
         /\ \E p \in Places : /\ pc' = [pc EXCEPT ![t] = p]
                              /\ p \in Maintenance => pc[t] \in Maintenance \/ AutosaveOn(session[t])
      \/ session' = [session EXCEPT ![t] = NoPolicy] /\ pc' = [pc EXCEPT ![t] = "idle"]
  <2>1. CASE GetSession(t)
    BY <2>1 DEF GetSession, Goto
  <2>2. CASE \E text \in ReplyTexts : PersistReply(t, text)
    BY <2>2 DEF PersistReply, Finish, Goto, Places
  <2>3. CASE PruneSnapshots(t) \/ Fail(t)
    BY <2>3 DEF PruneSnapshots, Fail, Finish, Goto
  <2>4. CASE (\E text \in PromptTexts : PostPrompt(t, text)) \/ PrepareRequest(t)
    BY <2>4 DEF PostPrompt, PrepareRequest, Goto, Places, Maintenance
  <2>5. CASE LoadSnapshots(t) \/ ReloadSnapshots(t) \/ PlanByMessageCount(t)
    BY <2>5 DEF LoadSnapshots, ReloadSnapshots, PlanByMessageCount, Goto, Places, Maintenance
  <2>6. CASE DraftSnapshot(t)
    BY <2>6 DEF DraftSnapshot, Goto, Places, Maintenance
  <2>7. CASE InsertSnapshot(t)
    BY <2>7 DEF InsertSnapshot, Goto, Places, Maintenance
  <2> QED BY <2>1, <2>2, <2>3, <2>4, <2>5, <2>6, <2>7 DEF TurnStep
<1>3. \A u \in Turns \ {t} : session'[u] = session[u] /\ pc'[u] = pc[u]
  BY <1>0, <1>2 DEF TypeOK
<1>4. /\ pc'[t] \in Maintenance => AutosaveOn(session'[t])
      /\ session'[t] \in {session[t], policy, NoPolicy}
  <2>1. CASE session' = [session EXCEPT ![t] = policy] /\ pc' = [pc EXCEPT ![t] = "post"]
    BY <1>0, <2>1 DEF TypeOK, Maintenance
  <2>2. CASE session' = [session EXCEPT ![t] = NoPolicy] /\ pc' = [pc EXCEPT ![t] = "idle"]
    BY <1>0, <2>2 DEF TypeOK, Maintenance
  <2>3. CASE session' = session
    BY <1>0, <1>2, <2>1, <2>2, <2>3 DEF PolicyInv, TypeOK
  <2> QED BY <1>2, <2>1, <2>2, <2>3
<1>5. \A u \in Turns : pc'[u] \in Maintenance => AutosaveOn(session'[u])
  BY <1>0, <1>3, <1>4 DEF PolicyInv
<1>6. ASSUME policy.enabled, policy.strategy = "off"
      PROVE  inserted' = {} /\ \A u \in Turns : ~ AutosaveOn(session'[u])
  <2>1. inserted = {} /\ \A u \in Turns : ~ AutosaveOn(session[u])
    BY <1>0, <1>6 DEF PolicyInv
  <2>2. ~ InsertSnapshot(t)
    BY <1>0, <2>1 DEF PolicyInv, InsertSnapshot, Maintenance
  <2>3. inserted' = inserted
    BY <2>2 DEF TurnStep, GetSession, PostPrompt, PrepareRequest, PersistReply, LoadSnapshots, PlanByMessageCount,
         DraftSnapshot, ReloadSnapshots, PruneSnapshots, Fail, Cover
  <2>4. ~ AutosaveOn(policy) /\ ~ AutosaveOn(NoPolicy)
    BY <1>6, NoPolicyType DEF AutosaveOn
  <2> QED BY <1>3, <1>4, <2>1, <2>3, <2>4
<1>7. policy'.strategy # "off" => policy'.enabled
  BY <1>0, <1>1 DEF PolicyInv
<1>8. policy'.enabled /\ policy'.strategy = "off"
        => inserted' = {} /\ \A u \in Turns : ~ AutosaveOn(session'[u])
  BY <1>1, <1>6
<1> QED BY <1>5, <1>7, <1>8 DEF PolicyInv, AutosaveOn, Maintenance

\* What the owner, the administrator and the clock may change.
LEMMA OthersLeaveTurns ==
    ASSUME Next, ~ \E t \in Turns : TurnStep(t)
    PROVE  UNCHANGED <<messages, pc, session, prompt, request, loaded, runNow, draft, inserted, crowded>>
BY DEF Next, UpdatePolicy, SaveSessionAsEngram, DeleteSession, DeleteLinkedEngrams, DeleteLinkedEngramsFails,
       RestoreSession, DeleteEngram, RestoreEngram, Tick, engrams, tables, turnVars, history

LEMMA OthersMoveEngrams ==
    ASSUME TypeOK, Next, ~ \E t \in Turns : TurnStep(t)
    PROVE  /\ snapshots' \subseteq snapshots \cup (trash \cap Snapshots)
           /\ saved' \subseteq saved \cup trash \cup {[id |-> stamps + 1]} /\ saved' \subseteq Others
           /\ trash' \subseteq trash \cup snapshots \cup saved
           /\ stamps' \in {stamps, stamps + 1} /\ stamps' \in 0 .. MaxStamps
<1> USE DEF engrams, tables, turnVars, history
<1>1. stamps' = stamps \/ SaveSessionAsEngram
  BY DEF Next, UpdatePolicy, DeleteSession, DeleteLinkedEngrams, DeleteLinkedEngramsFails,
         RestoreSession, DeleteEngram, RestoreEngram, Tick
<1>2. CASE SaveSessionAsEngram
  <2>1. stamps' = stamps + 1 /\ stamps + 1 \in 1 .. MaxStamps
    BY <1>2, Bounds DEF SaveSessionAsEngram, TypeOK
  <2>2. [id |-> stamps + 1] \in Others
    BY <2>1 DEF Others
  <2> QED BY <1>2, <2>1, <2>2 DEF SaveSessionAsEngram, TypeOK
<1>3. CASE stamps' = stamps /\ ~ SaveSessionAsEngram
  <2>1. \/ UNCHANGED engrams
        \/ \E e \in snapshots \cup saved : DeleteEngram(e)
        \/ \E e \in trash : RestoreEngram(e)
        \/ DeleteLinkedEngrams
    BY <1>3 DEF Next, UpdatePolicy, DeleteSession, DeleteLinkedEngramsFails, RestoreSession, Tick
  <2>2. CASE UNCHANGED engrams
    BY <1>3, <2>2 DEF TypeOK
  <2>3. ASSUME NEW e \in snapshots \cup saved, DeleteEngram(e)
        PROVE  /\ snapshots' \subseteq snapshots /\ saved' \subseteq saved
               /\ trash' \subseteq trash \cup snapshots \cup saved
    BY <2>3 DEF DeleteEngram
  <2>4. ASSUME NEW e \in trash, RestoreEngram(e)
        PROVE  /\ snapshots' \subseteq snapshots \cup (trash \cap Snapshots)
               /\ saved' \subseteq saved \cup (trash \cap Others) /\ trash' \subseteq trash
    BY <2>4 DEF RestoreEngram
  <2>5. CASE DeleteLinkedEngrams
    BY <1>3, <2>5 DEF DeleteLinkedEngrams, TypeOK
  <2> QED BY <1>3, <2>1, <2>2, <2>3, <2>4, <2>5 DEF TypeOK
<1> QED BY <1>1, <1>2, <1>3

LEMMA OtherBase ==
    ASSUME BaseInv, Next, ~ \E t \in Turns : TurnStep(t)
    PROVE  BaseInv'
<1> USE DEF engrams, tables, turnVars, history
<1>0. TypeOK /\ messages \in Seq(Message) /\ StampInv /\ PolicyInv
  BY DEF BaseInv
<1>1. UNCHANGED <<messages, pc, session, prompt, request, loaded, runNow, draft, inserted, crowded>>
  BY OthersLeaveTurns
<1>2. late' \in {0, late}
  BY DEF Next, UpdatePolicy, SaveSessionAsEngram, DeleteSession, DeleteLinkedEngrams, DeleteLinkedEngramsFails,
         RestoreSession, DeleteEngram, RestoreEngram, Tick
<1>3. /\ policy' \in Policies
      /\ \/ policy'.enabled = policy.enabled /\ policy'.strategy = policy.strategy
         \/ policy'.enabled <=> policy'.strategy # "off"
  <2>1. CASE policy' = policy
    BY <1>0, <2>1 DEF TypeOK
  <2>2. ASSUME NEW payload \in Payloads, UpdatePolicy(payload)
        PROVE  /\ policy' \in Policies
               /\ \/ policy'.enabled = policy.enabled /\ policy'.strategy = policy.strategy
                  \/ policy'.enabled <=> policy'.strategy # "off"
    BY <1>0, <2>2, UpdatedPolicyAgrees DEF UpdatePolicy, TypeOK
  <2> QED BY <2>1, <2>2 DEF Next, SaveSessionAsEngram, DeleteSession, DeleteLinkedEngrams,
                            DeleteLinkedEngramsFails, RestoreSession, DeleteEngram, RestoreEngram, Tick
<1>4. deleted' \in BOOLEAN /\ purging' \in BOOLEAN /\ purged' \in BOOLEAN
  BY <1>0, Zenon DEF Next, UpdatePolicy, SaveSessionAsEngram, DeleteSession, DeleteLinkedEngrams,
         DeleteLinkedEngramsFails, RestoreSession, DeleteEngram, RestoreEngram, Tick, TypeOK
<1>5. now' \in 0 .. MaxTime /\ deletes' \in 0 .. MaxDeletes
  <2>1. now' = now \/ (now < MaxTime /\ now' = now + 1)
    BY DEF Next, UpdatePolicy, SaveSessionAsEngram, DeleteSession, DeleteLinkedEngrams, DeleteLinkedEngramsFails,
           RestoreSession, DeleteEngram, RestoreEngram, Tick
  <2>2. deletes' = deletes \/ (deletes < MaxDeletes /\ deletes' = deletes + 1)
    BY DEF Next, UpdatePolicy, SaveSessionAsEngram, DeleteSession, DeleteLinkedEngrams, DeleteLinkedEngramsFails,
           RestoreSession, DeleteEngram, RestoreEngram, Tick
  <2> QED BY <1>0, <2>1, <2>2, Bounds DEF TypeOK
<1>6. residue' \subseteq 1 .. MaxStamps
  <2>1. CASE residue' = residue \/ residue' = {}
    BY <1>0, <2>1 DEF TypeOK
  <2>2. CASE DeleteLinkedEngrams
    BY <1>0, <2>2 DEF DeleteLinkedEngrams, TypeOK, Ids, Snapshots
  <2>3. ASSUME NEW e \in trash, RestoreEngram(e) PROVE residue' \subseteq 1 .. MaxStamps
    <3>1. e.id \in 1 .. MaxStamps
      BY <1>0 DEF TypeOK, Snapshots, Others
    <3> QED BY <1>0, <2>3, <3>1 DEF RestoreEngram, TypeOK
  <2> QED BY <2>1, <2>2, <2>3 DEF Next, UpdatePolicy, SaveSessionAsEngram, DeleteSession,
                            DeleteLinkedEngramsFails, RestoreSession, DeleteEngram, Tick
<1>7. covers' \in [Turns -> SUBSET inserted'] /\ late' \in 0 .. MaxStamps
  <2>1. \/ covers' = covers \/ covers' = [t \in Turns |-> {}]
        \/ \E i : covers' = [t \in Turns |-> covers[t] \ {i}]
    BY DEF Next, UpdatePolicy, SaveSessionAsEngram, DeleteSession, DeleteLinkedEngrams, DeleteLinkedEngramsFails,
           RestoreSession, DeleteEngram, RestoreEngram, Tick
  <2> QED BY <1>0, <1>1, <1>2, <2>1, Bounds DEF TypeOK
<1>8. unsettled' \subseteq inserted'
  <2>1. CASE unsettled' = unsettled
    BY <1>0, <1>1, <2>1 DEF TypeOK
  <2>2. ASSUME NEW payload \in Payloads, UpdatePolicy(payload) PROVE unsettled' \subseteq inserted'
    BY <1>0, <1>1, <2>2 DEF UpdatePolicy, TypeOK
  <2>3. ASSUME NEW e \in trash, RestoreEngram(e) PROVE unsettled' \subseteq inserted'
    <3>1. Ids({e} \cap Snapshots) \subseteq inserted
      BY <1>0 DEF StampInv, Ids
    <3> QED BY <1>0, <1>1, <2>3, <3>1 DEF RestoreEngram, TypeOK
  <2> QED BY <2>1, <2>2, <2>3 DEF Next, SaveSessionAsEngram, DeleteSession, DeleteLinkedEngrams,
                            DeleteLinkedEngramsFails, RestoreSession, DeleteEngram, Tick
<1>9. /\ snapshots' \subseteq snapshots \cup (trash \cap Snapshots) /\ saved' \subseteq Others
      /\ trash' \subseteq trash \cup snapshots \cup saved
      /\ stamps' \in {stamps, stamps + 1} /\ stamps' \in 0 .. MaxStamps
  BY <1>0, OthersMoveEngrams
<1>10. snapshots' \subseteq Snapshots /\ trash' \subseteq Snapshots \cup Others
  BY <1>0, <1>9 DEF TypeOK
<1>11. TypeOK'
  BY <1>0, <1>1, <1>3, <1>4, <1>5, <1>6, <1>7, <1>8, <1>9, <1>10 DEF TypeOK
<1>12. NothingNew
  <2>1. trash' \cap Snapshots \subseteq snapshots \cup trash
    BY <1>0, <1>9, EngramsDisjoint DEF TypeOK
  <2>2. stamps <= stamps'
    BY <1>0, <1>9 DEF TypeOK
  <2> QED BY <1>0, <1>1, <1>2, <1>9, <2>1, <2>2 DEF NothingNew, StampInv
<1>13. StampInv'
  BY <1>11, <1>12, NothingNewKeepsStamps
<1>14. PolicyInv'
  <2>1. \A t \in Turns : pc'[t] \in Maintenance => AutosaveOn(session'[t])
    BY <1>0, <1>1 DEF PolicyInv
  <2>2. policy'.strategy # "off" => policy'.enabled
    BY <1>0, <1>3 DEF PolicyInv
  <2>3. policy'.enabled /\ policy'.strategy = "off"
          => inserted' = {} /\ \A t \in Turns : ~ AutosaveOn(session'[t])
    BY <1>0, <1>1, <1>3 DEF PolicyInv
  <2> QED BY <2>1, <2>2, <2>3 DEF PolicyInv, AutosaveOn, Maintenance
<1> QED BY <1>0, <1>1, <1>11, <1>13, <1>14 DEF BaseInv

LEMMA BaseStep == BaseInv /\ [Next]_vars => BaseInv'
<1> SUFFICES ASSUME BaseInv, [Next]_vars PROVE BaseInv'
  OBVIOUS
<1>1. CASE UNCHANGED vars
  BY <1>1 DEF BaseInv, vars, TypeOK, StampInv, PolicyInv, Seen, AutosaveOn, Maintenance
<1>2. ASSUME NEW t \in Turns, TurnStep(t) PROVE BaseInv'
  BY <1>2, TurnType, TurnStamps, TurnPolicy DEF BaseInv
<1> QED BY <1>1, <1>2, OtherBase

LEMMA BaseAlways == Spec => []BaseInv
BY BaseInit, BaseStep, PTL DEF Spec

\* The type invariant: in particular no snapshot is stored, or stamped to be
\* stored, that IsLowValueSnapshotAbstract rejects.
THEOREM TypeCorrect == Spec => []TypeOK
<1>1. BaseInv => TypeOK
  BY DEF BaseInv
<1> QED BY <1>1, BaseAlways, PTL

\* A strategy stands only next to the autosave flag, only turns with both run
\* the maintenance, and a session that its creation left with the flag alone
\* saves nothing, whatever partial updates an owner sends.
THEOREM PolicyIsCoherent == Spec => []PolicyCoherent
<1>1. BaseInv => PolicyCoherent
  BY DEF BaseInv, PolicyInv, PolicyCoherent
<1> QED BY <1>1, BaseAlways, PTL

------------------------------------------------------------------------------
(* Deleted sessions.                                                       *)

LEMMA FrozenStep ==
    Next => (deleted /\ deleted' /\ pc' # pc => messages' = messages /\ snapshots \subseteq snapshots')
<1> SUFFICES ASSUME Next, deleted, pc' # pc PROVE messages' = messages /\ snapshots \subseteq snapshots'
  OBVIOUS
<1> PICK t \in Turns : TurnStep(t)
  BY OthersLeaveTurns
<1> USE DEF engrams, tables, turnVars, history
<1>1. ~ \E text : PostPrompt(t, text) \/ PersistReply(t, text)
  BY DEF PostPrompt, PersistReply, CreateChatMessage
<1>2. CASE InsertSnapshot(t)
  BY <1>2 DEF InsertSnapshot
<1>3. CASE PruneSnapshots(t)
  BY <1>3 DEF PruneSnapshots
<1>4. CASE GetSession(t) \/ PrepareRequest(t) \/ LoadSnapshots(t) \/ PlanByMessageCount(t) \/ DraftSnapshot(t)
             \/ ReloadSnapshots(t) \/ Fail(t)
  BY <1>4 DEF GetSession, PrepareRequest, LoadSnapshots, PlanByMessageCount, DraftSnapshot, ReloadSnapshots, Fail
<1> QED BY <1>1, <1>2, <1>3, <1>4 DEF TurnStep

\* While a session stays deleted no turn adds a message to it and no
\* maintenance run removes a snapshot from it.
THEOREM DeletedSessionIsFrozen == Spec => DeletedSessionFrozen
<1>1. [Next]_vars
        => [deleted /\ deleted' /\ pc' # pc => messages' = messages /\ snapshots \subseteq snapshots']_vars
  BY FrozenStep
<1> QED BY <1>1, PTL DEF Spec, DeletedSessionFrozen

\* A purged session is a deleted one, and the inserts still under way are the
\* ones that were under way when the purge ended.
PurgeInv ==
    purged => /\ deleted
              /\ \A s \in snapshots : s.id \in residue
              /\ \A t \in Turns : pc[t] = "insert" => \A d \in draft[t] : d.id \in residue

LEMMA PurgeStep == BaseInv /\ PurgeInv /\ [Next]_vars => PurgeInv'
<1> SUFFICES ASSUME BaseInv, PurgeInv, [Next]_vars, purged' PROVE PurgeInv'
  BY DEF PurgeInv
<1> USE DEF engrams, tables, turnVars, history
<1>0. TypeOK
  BY DEF BaseInv
<1>1. CASE UNCHANGED vars
  BY <1>1 DEF vars, PurgeInv
<1>2. ASSUME NEW t \in Turns, TurnStep(t) PROVE PurgeInv'
  <2>1. UNCHANGED <<deleted, purged, residue>>
    BY <1>2 DEF TurnStep, GetSession, PostPrompt, PrepareRequest, PersistReply, LoadSnapshots, PlanByMessageCount,
         DraftSnapshot, InsertSnapshot, ReloadSnapshots, PruneSnapshots, Fail, Cover
  <2>2. deleted /\ purged
    BY <2>1 DEF PurgeInv
  <2>3. CASE DraftSnapshot(t)
    <3>1. ListChatMessages(AutosaveLoad) = <<>>
      BY <2>2 DEF ListChatMessages
    <3>2. pc' = [pc EXCEPT ![t] = "prune"] /\ UNCHANGED <<draft, snapshots>>
      BY <2>3, <3>1 DEF DraftSnapshot, Goto
    <3> QED BY <1>0, <2>1, <3>2 DEF PurgeInv, TypeOK
  <2>4. CASE InsertSnapshot(t)
    BY <1>0, <2>1, <2>2, <2>4 DEF PurgeInv, TypeOK, InsertSnapshot, Goto
  <2>5. CASE ~ DraftSnapshot(t) /\ ~ InsertSnapshot(t)
    <3>1. /\ snapshots' \subseteq snapshots
          /\ draft' = draft \/ draft' = [draft EXCEPT ![t] = {}]
          /\ \E p \in Places \ {"insert"} : pc' = [pc EXCEPT ![t] = p]
      BY <1>2, <2>5 DEF TurnStep, GetSession, PostPrompt, PrepareRequest, PersistReply, LoadSnapshots, PlanByMessageCount,
           ReloadSnapshots, PruneSnapshots, Fail, Finish, Goto, Places
    <3>2. \A u \in Turns : pc'[u] = "insert" => pc[u] = "insert" /\ draft'[u] = draft[u]
      BY <1>0, <3>1 DEF TypeOK
    <3> QED BY <2>1, <2>2, <3>1, <3>2 DEF PurgeInv
  <2> QED BY <2>3, <2>4, <2>5
<1>3. CASE DeleteLinkedEngrams
  <2>1. deleted' /\ snapshots' = {} /\ UNCHANGED <<pc, draft>>
    BY <1>3 DEF DeleteLinkedEngrams
  <2>2. \A t \in Turns : pc[t] = "insert" => \A d \in draft[t] : d.id \in residue'
    BY <1>3 DEF DeleteLinkedEngrams, Ids
  <2> QED BY <2>1, <2>2 DEF PurgeInv
<1>4. CASE UNCHANGED <<purged, residue, pc, draft>> /\ snapshots' \subseteq snapshots /\ (deleted => deleted')
  BY <1>4 DEF PurgeInv
<1>7. ASSUME NEW e \in trash, RestoreEngram(e) PROVE PurgeInv'
  <2>1. /\ UNCHANGED <<deleted, purged, pc, draft>> /\ residue' = residue \cup {e.id}
        /\ snapshots' \subseteq snapshots \cup {e}
    BY <1>7 DEF RestoreEngram
  <2> QED BY <2>1 DEF PurgeInv
<1>5. ~ RestoreSession
  BY DEF RestoreSession
<1>6. CASE \/ \E payload \in Payloads : UpdatePolicy(payload)
           \/ SaveSessionAsEngram
           \/ \E linked \in BOOLEAN : DeleteSession(linked)
           \/ DeleteLinkedEngramsFails \/ Tick \/ \E e \in snapshots \cup saved : DeleteEngram(e)
  BY <1>4, <1>6 DEF UpdatePolicy, SaveSessionAsEngram, DeleteSession, DeleteLinkedEngramsFails, DeleteEngram, Tick
<1> QED BY <1>1, <1>2, <1>3, <1>5, <1>6, <1>7 DEF Next

\* After a purge that was not undone, the only live snapshots are those whose
\* insert was under way when it ended and those restored one by one.
THEOREM PurgeLeavesInFlight == Spec => []PurgeLeavesOnlyInFlight
<1>1. Init => PurgeInv
  BY DEF Init, PurgeInv
<1>2. PurgeInv => PurgeLeavesOnlyInFlight
  BY DEF PurgeInv, PurgeLeavesOnlyInFlight, Ids
<1> QED BY <1>1, <1>2, PurgeStep, BaseAlways, PTL DEF Spec

------------------------------------------------------------------------------
(* A policy that was switched off.                                         *)

\* The turns that may still save: each at most one snapshot.
MaySave == {t \in Turns : session[t].enabled /\ pc[t] \notin {"reload", "prune"}}

LateInv ==
    /\ policy.enabled => late = 0
    /\ ~ policy.enabled => late + Cardinality(MaySave) <= Cardinality(Turns)

\* MaySave only shrinks, but for a turn that begins while autosave is on.
LEMMA MaySaveShrinks ==
    ASSUME BaseInv, NEW t \in Turns, TurnStep(t), ~ policy.enabled
    PROVE  /\ policy' = policy /\ MaySave' \subseteq MaySave
           /\ \/ late' = late
              \/ late' = late + 1 /\ t \in MaySave \ MaySave'
<1> USE DEF engrams, tables, turnVars, history
<1>0. TypeOK /\ PolicyInv
  BY DEF BaseInv
<1>1. CASE InsertSnapshot(t)
  <2>1. /\ pc[t] = "insert" /\ pc' = [pc EXCEPT ![t] = "reload"] /\ session' = session
        /\ policy' = policy /\ late' = late + 1
    BY <1>1 DEF InsertSnapshot, Goto
  <2>2. session[t].enabled
    BY <1>0, <2>1 DEF PolicyInv, AutosaveOn, Maintenance
  <2> QED BY <1>0, <2>1, <2>2 DEF MaySave, TypeOK
<1>2. CASE ~ InsertSnapshot(t)
  <2>1. /\ policy' = policy /\ late' = late
        /\ \/ session' = session /\ pc[t] # "reload"
           \/ session' = session /\ pc' = [pc EXCEPT ![t] = "prune"]
           \/ session' = [session EXCEPT ![t] = policy]
           \/ session' = [session EXCEPT ![t] = NoPolicy]
        /\ \E p \in Places : pc' = [pc EXCEPT ![t] = p]
        /\ pc[t] = "prune" => session' = [session EXCEPT ![t] = NoPolicy]
    <3>1. CASE GetSession(t)
      BY <3>1 DEF GetSession, Goto, Places
    <3>2. CASE (\E text \in PromptTexts : PostPrompt(t, text)) \/ PrepareRequest(t)
      BY <3>2 DEF PostPrompt, PrepareRequest, Goto, Places
    <3>3. CASE \E text \in ReplyTexts : PersistReply(t, text)
      BY <3>3 DEF PersistReply, Finish, Goto, Places
    <3>4. CASE LoadSnapshots(t) \/ PlanByMessageCount(t)
      BY <3>4 DEF LoadSnapshots, PlanByMessageCount, Goto, Places, Cover
    <3>5. CASE DraftSnapshot(t)
      BY <3>5 DEF DraftSnapshot, Goto, Places
    <3>6. CASE ReloadSnapshots(t)
      BY <3>6 DEF ReloadSnapshots, Goto, Places, Cover
    <3>7. CASE PruneSnapshots(t) \/ Fail(t)
      BY <3>7 DEF PruneSnapshots, Fail, Finish, Goto, Places
    <3> QED BY <1>2, <3>1, <3>2, <3>3, <3>4, <3>5, <3>6, <3>7 DEF TurnStep
  <2>2. \A u \in Turns \ {t} : session'[u] = session[u] /\ pc'[u] = pc[u]
    BY <1>0, <2>1 DEF TypeOK
  <2>3. t \in MaySave' => t \in MaySave
    BY <1>0, <2>1, NoPolicyType DEF MaySave, TypeOK
  <2> QED BY <2>1, <2>2, <2>3 DEF MaySave
<1> QED BY <1>1, <1>2

LEMMA LateStep == BaseInv /\ LateInv /\ [Next]_vars => LateInv'
<1> SUFFICES ASSUME BaseInv, LateInv, [Next]_vars PROVE LateInv'
  OBVIOUS
<1> USE DEF engrams, tables, turnVars, history
<1>0. TypeOK /\ BaseInv'
  BY BaseStep DEF BaseInv
<1>1. /\ late \in Nat /\ Cardinality(Turns) \in Nat
      /\ \A S \in SUBSET Turns : IsFiniteSet(S) /\ Cardinality(S) \in Nat /\ Cardinality(S) <= Cardinality(Turns)
  BY <1>0, TurnsAssumption, FS_Subset, FS_CardinalityType DEF TypeOK
<1>2. MaySave \in SUBSET Turns /\ MaySave' \in SUBSET Turns
  BY DEF MaySave
<1>3. CASE UNCHANGED vars
  BY <1>3 DEF vars, LateInv, MaySave
<1>4. ASSUME NEW t \in Turns, TurnStep(t) PROVE LateInv'
  <2>1. CASE policy.enabled
    <3>1. policy' = policy /\ late' = late
      BY <1>4, <2>1 DEF TurnStep, GetSession, PostPrompt, PrepareRequest, PersistReply, LoadSnapshots,
           PlanByMessageCount, DraftSnapshot, InsertSnapshot, ReloadSnapshots, PruneSnapshots, Fail, Cover
    <3> QED BY <2>1, <3>1 DEF LateInv
  <2>2. CASE ~ policy.enabled
    <3>1. CASE late' = late
      <4>1. Cardinality(MaySave') <= Cardinality(MaySave)
        BY <1>1, <1>2, <1>4, <2>2, MaySaveShrinks, FS_Subset
      <4>2. policy' = policy
        BY <1>4, <2>2, MaySaveShrinks
      <4> QED BY <1>1, <1>2, <2>2, <3>1, <4>1, <4>2 DEF LateInv
    <3>2. CASE late' # late
      <4>1. late' = late + 1 /\ policy' = policy /\ t \in MaySave /\ MaySave' \subseteq MaySave \ {t}
        BY <1>4, <2>2, <3>2, MaySaveShrinks
      <4>2. Cardinality(MaySave \ {t}) = Cardinality(MaySave) - 1 /\ IsFiniteSet(MaySave \ {t})
        BY <1>1, <1>2, <4>1, FS_RemoveElement
      <4>3. Cardinality(MaySave') <= Cardinality(MaySave \ {t})
        BY <4>1, <4>2, FS_Subset
      <4> QED BY <1>1, <1>2, <2>2, <4>1, <4>2, <4>3 DEF LateInv
    <3> QED BY <3>1, <3>2
  <2> QED BY <2>1, <2>2
<1>5. ASSUME NEW payload \in Payloads, UpdatePolicy(payload) PROVE LateInv'
  <2>1. late' = (IF policy'.enabled THEN 0 ELSE late) /\ MaySave' = MaySave
    BY <1>5 DEF UpdatePolicy, MaySave
  <2>2. Cardinality(MaySave) <= Cardinality(Turns) /\ Cardinality(MaySave) \in Nat
    BY <1>1, <1>2
  <2>3. CASE policy'.enabled
    BY <2>1, <2>3 DEF LateInv
  <2>4. CASE ~ policy'.enabled
    <3>1. late + Cardinality(MaySave) <= Cardinality(Turns)
      BY <1>1, <2>2 DEF LateInv
    <3> QED BY <2>1, <2>4, <3>1 DEF LateInv
  <2> QED BY <2>3, <2>4
<1>6. CASE UNCHANGED <<policy, late, pc, session>>
  BY <1>6 DEF LateInv, MaySave
<1> QED BY <1>3, <1>4, <1>5, <1>6 DEF Next, SaveSessionAsEngram, DeleteSession, DeleteLinkedEngrams,
       DeleteLinkedEngramsFails, RestoreSession, DeleteEngram, RestoreEngram, Tick

\* Once autosave is off, the snapshots still saved by turns that began before
\* are no more than the turns that run at a time.
THEOREM LateSnapshotsAreBounded == Spec => []LateSnapshotsBounded
<1>1. Init => LateInv
  <2> SUFFICES ASSUME Init PROVE LateInv
    OBVIOUS
  <2>1. MaySave = {} /\ late = 0
    BY NoPolicyType DEF Init, MaySave
  <2>2. Cardinality({}) = 0 /\ Cardinality(Turns) \in Nat
    BY TurnsAssumption, FS_EmptySet, FS_CardinalityType
  <2> QED BY <2>1, <2>2 DEF LateInv
<1>2. LateInv => LateSnapshotsBounded
  BY DEF LateInv, MaySave, LateSnapshotsBounded
<1> QED BY <1>1, <1>2, LateStep, BaseAlways, PTL DEF Spec

------------------------------------------------------------------------------
(* Prompts and replies.                                                    *)

Awaiting == {t \in Turns : pc[t] \in {"prepare", "reply"}}

\* Storing a message adds one position to those of its role.
LEMMA SaidGrows ==
    ASSUME messages \in Seq(Message), NEW role, NEW text,
           messages' = Append(messages, [role |-> role, text |-> text]), NEW other
    PROVE  /\ IsFiniteSet(Said(other))
           /\ Cardinality(Said(other)) \in Nat
           /\ Cardinality(Said(other)')
                = IF other = role THEN Cardinality(Said(other)) + 1 ELSE Cardinality(Said(other))
<1> DEFINE n == Len(messages)
<1>1. n \in Nat /\ Len(messages') = n + 1
  OBVIOUS
<1>2. \A i \in 1 .. n : messages'[i] = messages[i]
  OBVIOUS
<1>3. messages'[n + 1].role = role
  OBVIOUS
<1>4. IsFiniteSet(Said(other))
  <2>1. IsFiniteSet(1 .. n) /\ Said(other) \in SUBSET (1 .. n)
    BY <1>1, FS_Interval DEF Said
  <2> QED BY <2>1, FS_Subset
<1>5. n + 1 \notin Said(other)
  BY <1>1 DEF Said
<1>6. Said(other)' = IF other = role THEN Said(other) \cup {n + 1} ELSE Said(other)
  <2> HIDE DEF n
  <2>1. 1 .. n + 1 = (1 .. n) \cup {n + 1}
    BY <1>1
  <2>2. Said(other) = {i \in 1 .. n : messages[i].role = other}
    BY DEF Said, n
  <2>3. Said(other)' = {i \in 1 .. n + 1 : messages'[i].role = other}
    BY <1>1 DEF Said
  <2> QED BY <1>2, <1>3, <2>1, <2>2, <2>3
<1> HIDE DEF n
<1> QED BY <1>4, <1>5, <1>6, FS_AddElement, FS_CardinalityType

LEMMA RepliesStep == BaseInv /\ RepliesHavePrompts /\ [Next]_vars => RepliesHavePrompts'
<1> SUFFICES ASSUME BaseInv, RepliesHavePrompts, [Next]_vars PROVE RepliesHavePrompts'
  OBVIOUS
<1> USE DEF engrams, tables, turnVars, history
<1>0. TypeOK /\ messages \in Seq(Message)
  BY DEF BaseInv
<1>1. /\ \A S \in SUBSET Turns : IsFiniteSet(S) /\ Cardinality(S) \in Nat
      /\ Awaiting \in SUBSET Turns /\ Awaiting' \in SUBSET Turns
  BY TurnsAssumption, FS_Subset, FS_CardinalityType DEF Awaiting
<1>2. \A role : Cardinality(Said(role)) \in Nat
  <2> TAKE role
  <2>1. IsFiniteSet(1 .. Len(messages)) /\ Said(role) \in SUBSET (1 .. Len(messages))
    BY <1>0, FS_Interval DEF Said
  <2> QED BY <2>1, FS_Subset, FS_CardinalityType
<1>3. Cardinality(Said("assistant")) + Cardinality(Awaiting) <= Cardinality(Said("user"))
  BY DEF RepliesHavePrompts, Awaiting
<1>4. SUFFICES Cardinality(Said("assistant")') + Cardinality(Awaiting') <= Cardinality(Said("user")')
  BY DEF RepliesHavePrompts, Awaiting
<1>5. CASE messages' = messages /\ Awaiting' \subseteq Awaiting
  <2>1. Said("assistant")' = Said("assistant") /\ Said("user")' = Said("user")
    BY <1>5 DEF Said
  <2>2. Cardinality(Awaiting') <= Cardinality(Awaiting)
    BY <1>1, <1>5, FS_Subset
  <2>3. Cardinality(Awaiting') \in Nat /\ Cardinality(Awaiting) \in Nat
    BY <1>1
  <2> QED BY <1>2, <1>3, <2>1, <2>2, <2>3
<1>6. ASSUME NEW t \in Turns, TurnStep(t)
      PROVE  Cardinality(Said("assistant")') + Cardinality(Awaiting') <= Cardinality(Said("user")')
  <2>1. ASSUME NEW text \in PromptTexts, PostPrompt(t, text)
        PROVE  Cardinality(Said("assistant")') + Cardinality(Awaiting') <= Cardinality(Said("user")')
    <3>1. messages' = Append(messages, [role |-> "user", text |-> text])
      BY <2>1 DEF PostPrompt, CreateChatMessage
    <3>2. /\ Cardinality(Said("assistant")') = Cardinality(Said("assistant"))
          /\ Cardinality(Said("user")') = Cardinality(Said("user")) + 1
      BY <1>0, <3>1, SaidGrows
    <3>3. t \notin Awaiting /\ Awaiting' = Awaiting \cup {t}
      BY <1>0, <2>1 DEF PostPrompt, Goto, Awaiting, TypeOK
    <3>4. Cardinality(Awaiting') = Cardinality(Awaiting) + 1
      BY <1>1, <3>3, FS_AddElement
    <3> QED BY <1>1, <1>2, <1>3, <3>2, <3>4
  <2>2. ASSUME NEW text \in ReplyTexts, PersistReply(t, text)
        PROVE  Cardinality(Said("assistant")') + Cardinality(Awaiting') <= Cardinality(Said("user")')
    <3>1. messages' = Append(messages, [role |-> "assistant", text |-> text])
      BY <2>2 DEF PersistReply, CreateChatMessage
    <3>2. /\ Cardinality(Said("assistant")') = Cardinality(Said("assistant")) + 1
          /\ Cardinality(Said("user")') = Cardinality(Said("user"))
      BY <1>0, <3>1, SaidGrows
    <3>3. t \in Awaiting /\ Awaiting' = Awaiting \ {t}
      <4>1. pc[t] = "reply" /\ \E p \in {"load", "idle"} : pc' = [pc EXCEPT ![t] = p]
        BY <2>2 DEF PersistReply, Finish, Goto
      <4> QED BY <1>0, <4>1 DEF Awaiting, TypeOK
    <3>4. Cardinality(Awaiting') = Cardinality(Awaiting) - 1
      BY <1>1, <3>3, FS_RemoveElement
    <3> QED BY <1>1, <1>2, <1>3, <3>2, <3>4
  <2>3. CASE PrepareRequest(t)
    BY <1>0, <1>5, <2>3 DEF PrepareRequest, Goto, Awaiting, TypeOK
  <2>4. CASE GetSession(t) \/ LoadSnapshots(t) \/ PlanByMessageCount(t) \/ DraftSnapshot(t)
               \/ InsertSnapshot(t) \/ ReloadSnapshots(t) \/ PruneSnapshots(t) \/ Fail(t)
    <3>1. messages' = messages /\ \E p \in Places \ {"prepare", "reply"} : pc' = [pc EXCEPT ![t] = p]
      BY <2>4 DEF GetSession, LoadSnapshots, PlanByMessageCount, DraftSnapshot, InsertSnapshot,
           ReloadSnapshots, PruneSnapshots, Fail, Finish, Goto, Places
    <3>2. Awaiting' \subseteq Awaiting
      BY <1>0, <3>1 DEF Awaiting, TypeOK
    <3> QED BY <1>5, <3>1, <3>2
  <2> QED BY <1>6, <2>1, <2>2, <2>3, <2>4 DEF TurnStep
<1>7. CASE UNCHANGED <<messages, pc>>
  BY <1>5, <1>7 DEF Awaiting
<1> QED BY <1>6, <1>7, OthersLeaveTurns DEF vars

\* Every reply, stored or still to come, has a prompt of its own, through
\* failures, retries, deletions and restores.
THEOREM EveryReplyHasAPrompt == Spec => []RepliesHavePrompts
<1>1. Init => RepliesHavePrompts
  <2> SUFFICES ASSUME Init PROVE RepliesHavePrompts
    OBVIOUS
  <2>1. Said("assistant") = {} /\ Said("user") = {} /\ {t \in Turns : pc[t] \in {"prepare", "reply"}} = {}
    BY DEF Init, Said
  <2> QED BY <2>1, FS_EmptySet DEF RepliesHavePrompts
<1> QED BY <1>1, RepliesStep, BaseAlways, PTL DEF Spec

------------------------------------------------------------------------------
(* Retention, pruning and duplicates.                                      *)

\* A run began at or before the present, and what is stored or listed is finite.
ListInv ==
    /\ \A t \in Turns : runNow[t] <= now
    /\ IsFiniteSet(snapshots)
    /\ \A t \in Turns : IsFiniteSet(loaded[t])

Copies(x) == {s \in snapshots : s.text = x}

\* The turns that may still save a snapshot with abstract x: the list they
\* judge by does not have it, or it is stamped already.
Copying(x) ==
    {t \in Turns : \/ pc[t] \in {"count", "draft"} /\ \A s \in loaded[t] : s.text # x
                   \/ pc[t] = "insert" /\ \E d \in draft[t] : d.text = x}

CopyInv ==
    deletes = 0 =>
      /\ ~ deleted /\ ~ purging /\ trash = {}
      /\ ~ crowded => \A x \in PromptTexts \cup ReplyTexts :
                        Cardinality(Copies(x)) + Cardinality(Copying(x)) <= Cardinality(Turns)

Settled == {s \in snapshots : s.id \notin unsettled}

Listing == {"count", "draft", "prune"}

\* The live snapshots that a run is answerable for.
Mine(t) == {s \in snapshots : s.id \in covers[t]}

\* The list a run is going to prune has all that it is answerable for, and has
\* all that is settled or settles nothing.
Covered(t) ==
    /\ deleted => covers[t] = {}
    /\ pc[t] \in {"idle", "post", "prepare", "reply", "load"} => covers[t] = {}
    /\ pc[t] \in Listing =>
         /\ Mine(t) \subseteq loaded[t]
         /\ Settled \subseteq loaded[t] \/ Mine(t) \subseteq Settled

\* What two runs are answerable for is, of what is still live, one chain.
Chained(t, u) ==
    pc[t] \in Listing /\ pc[u] \in Listing => Mine(t) \subseteq Mine(u) \/ Mine(u) \subseteq Mine(t)

CoverInv == (\A t \in Turns : Covered(t)) /\ (\A t, u \in Turns : Chained(t, u))

\* What a turn's step does to the list it holds and to its clock.
LEMMA ListStep == BaseInv /\ ListInv /\ [Next]_vars => ListInv'
<1> SUFFICES ASSUME BaseInv, ListInv, [Next]_vars PROVE ListInv'
  OBVIOUS
<1> USE DEF engrams, tables, turnVars, history
<1>0. TypeOK /\ StampInv
  BY DEF BaseInv
<1>1. ASSUME NEW t \in Turns, TurnStep(t) PROVE ListInv'
  <2>1. now' = now /\ (runNow' = runNow \/ \E n \in {0, now} : runNow' = [runNow EXCEPT ![t] = n])
    <3>1. CASE \E text \in ReplyTexts : PersistReply(t, text)
      BY <3>1 DEF PersistReply, Finish
    <3>2. CASE PruneSnapshots(t) \/ Fail(t)
      BY <3>2 DEF PruneSnapshots, Fail, Finish
    <3> QED BY <1>1, <3>1, <3>2 DEF TurnStep, GetSession, PostPrompt, PrepareRequest, LoadSnapshots,
              PlanByMessageCount, DraftSnapshot, InsertSnapshot, ReloadSnapshots
  <2>2. \A u \in Turns : runNow'[u] <= now'
    <3>1. now \in Nat /\ runNow \in [Turns -> 0 .. MaxTime] /\ \A u \in Turns : runNow[u] <= now
      BY <1>0 DEF ListInv, TypeOK
    <3>2. \A u \in Turns : runNow'[u] \in {runNow[u], 0, now}
      BY <2>1, <3>1
    <3> QED BY <2>1, <3>1, <3>2
  <2>3. loaded' = loaded \/ \E L \in SUBSET snapshots : loaded' = [loaded EXCEPT ![t] = L]
    <3>1. CASE LoadSnapshots(t) \/ ReloadSnapshots(t)
      BY <3>1, ListedSnapshots DEF LoadSnapshots, ReloadSnapshots
    <3>2. CASE \E text \in ReplyTexts : PersistReply(t, text)
      BY <3>2 DEF PersistReply, Finish
    <3>3. CASE PruneSnapshots(t) \/ Fail(t)
      BY <3>3 DEF PruneSnapshots, Fail, Finish
    <3> QED BY <1>1, <3>1, <3>2, <3>3 DEF TurnStep, GetSession, PostPrompt, PrepareRequest,
              PlanByMessageCount, DraftSnapshot, InsertSnapshot
  <2>4. \A L \in SUBSET snapshots : IsFiniteSet(L)
    BY FS_Subset DEF ListInv
  <2>5. \A u \in Turns : IsFiniteSet(loaded'[u])
    BY <1>0, <2>3, <2>4 DEF ListInv, TypeOK
  <2>6. IsFiniteSet(snapshots')
    <3>1. CASE InsertSnapshot(t)
      <4>1. PICK d \in draft[t] : d.id \notin inserted
        BY <1>0, <3>1 DEF InsertSnapshot, StampInv
      <4>2. draft[t] = {d}
        BY <1>0, <4>1 DEF StampInv
      <4>3. snapshots' = snapshots \cup {d}
        BY <3>1, <4>2 DEF InsertSnapshot
      <4> QED BY <4>3, FS_AddElement DEF ListInv
    <3>2. CASE ~ InsertSnapshot(t)
      <4>1. snapshots' \subseteq snapshots
        BY <1>1, <3>2 DEF TurnStep, GetSession, PostPrompt, PrepareRequest, PersistReply, LoadSnapshots,
             PlanByMessageCount, DraftSnapshot, ReloadSnapshots, PruneSnapshots, Fail
      <4> QED BY <2>4, <4>1
    <3> QED BY <3>1, <3>2
  <2> QED BY <2>2, <2>5, <2>6 DEF ListInv
<1>2. ASSUME UNCHANGED <<runNow, loaded>>, now' \in {now, now + 1}, NEW e, snapshots' \subseteq snapshots \cup {e}
      PROVE  ListInv'
  <2>1. IsFiniteSet(snapshots')
    <3>1. IsFiniteSet(snapshots \cup {e})
      BY FS_AddElement DEF ListInv
    <3> QED BY <1>2, <3>1, FS_Subset
  <2>2. \A u \in Turns : runNow'[u] <= now'
    BY <1>0, <1>2 DEF ListInv, TypeOK
  <2> QED BY <1>2, <2>1, <2>2 DEF ListInv
<1>3. ASSUME Next, ~ \E t \in Turns : TurnStep(t)
      PROVE  /\ UNCHANGED <<runNow, loaded>> /\ now' \in {now, now + 1}
             /\ \E e : snapshots' \subseteq snapshots \cup {e}
  BY <1>3 DEF Next, UpdatePolicy, SaveSessionAsEngram, DeleteSession, DeleteLinkedEngrams,
         DeleteLinkedEngramsFails, RestoreSession, DeleteEngram, RestoreEngram, Tick
<1>4. CASE UNCHANGED vars
  BY <1>2, <1>4 DEF vars
<1> QED BY <1>1, <1>2, <1>3, <1>4

LEMMA ListAlways == Spec => [](BaseInv /\ ListInv)
<1>1. Init => ListInv
  BY FS_EmptySet DEF Init, ListInv
<1> QED BY <1>1, ListStep, BaseAlways, PTL DEF Spec

LEMMA AtLeastOneType ==
    ASSUME NEW n \in Nat
    PROVE  AtLeastOne(n) \in Nat /\ AtLeastOne(n) >= 1
BY DEF AtLeastOne

\* Snapshots of one list are no more than their ids.
LEMMA NewerIds ==
    ASSUME BaseInv, ListInv, NEW t \in Turns, NEW s \in loaded[t]
    PROVE  Cardinality(Newer(s, loaded[t])) <= Cardinality({i \in inserted : i > s.id})
<1> DEFINE N == Newer(s, loaded[t])
           I == {i \in inserted : i > s.id}
           f == [r \in N |-> r.id]
<1>0. TypeOK /\ StampInv
  BY DEF BaseInv
<1>1. \A r \in N : r \in loaded[t] /\ r.id > s.id
  BY DEF Newer
<1>2. \A r \in N : r.id \in I
  BY <1>0, <1>1 DEF StampInv
<1>3. \A q, r \in N : q.id = r.id => q = r
  <2> TAKE q, r \in N
  <2>1. q \in Snapshots /\ r \in Snapshots /\ Seen(q) /\ Seen(r)
    BY <1>0, <1>1 DEF Seen, TypeOK
  <2> QED BY <1>0, <2>1 DEF StampInv
<1>4. IsFiniteSet(I)
  BY <1>0, FiniteStamps, FS_Subset
<1> HIDE DEF N, I
<1>5. f \in Injection(N, I)
  BY <1>2, <1>3 DEF Injection, IsInjective
<1> HIDE DEF f
<1> QED BY <1>4, <1>5, FS_Injection DEF N, I

\* Only a maintenance run's DELETE removes a snapshot on a turn's behalf.
LEMMA OnlyPruneRemoves ==
    ASSUME NEW t \in Turns, TurnStep(t), ~ PruneSnapshots(t)
    PROVE  snapshots \subseteq snapshots'
BY DEF TurnStep, GetSession, PostPrompt, PrepareRequest, PersistReply, LoadSnapshots,
       PlanByMessageCount, DraftSnapshot, InsertSnapshot, ReloadSnapshots, Fail, engrams, tables

LEMMA PruneDue ==
    ASSUME BaseInv, ListInv, NEW t \in Turns, PruneSnapshots(t), NEW s \in snapshots \ snapshots'
    PROVE  /\ pc[t] = "prune" /\ pc'[t] = "idle"
           /\ \/ s.at < now - AtLeastOne(session[t].days)
              \/ Cardinality({i \in inserted : i > s.id}) >= AtLeastOne(session[t].max)
<1>0. TypeOK /\ StampInv
  BY DEF BaseInv
<1>1. s.id \in Ids(SelectRetentionPruneIDs(loaded[t], session[t], runNow[t]))
  BY DEF PruneSnapshots
<1>2. PICK r \in loaded[t] : r.id = s.id /\ ~ ShouldKeepSnapshot(r, loaded[t], session[t], runNow[t])
  BY <1>1 DEF Ids, SelectRetentionPruneIDs
<1>3. r = s
  <2>1. r \in Snapshots /\ s \in Snapshots /\ Seen(r) /\ Seen(s)
    BY <1>0, <1>2 DEF Seen, TypeOK
  <2> QED BY <1>0, <1>2, <2>1 DEF StampInv
<1>4. AtLeastOne(session[t].max) \in Nat /\ AtLeastOne(session[t].days) \in Nat
  <2>1. session[t] \in Policies
    BY <1>0 DEF TypeOK
  <2> QED BY <2>1, AtLeastOneType DEF Policies, Positive
<1>8. pc[t] = "prune" /\ pc'[t] = "idle"
  BY <1>0 DEF PruneSnapshots, Finish, Goto, TypeOK
<1>5. s.at \in Nat /\ runNow[t] \in Nat /\ now \in Nat /\ runNow[t] <= now
  BY <1>0 DEF TypeOK, Snapshots, ListInv
<1>6. CASE ~ (s.at >= runNow[t] - AtLeastOne(session[t].days))
  BY <1>4, <1>5, <1>6, <1>8
<1>7. CASE ~ (Cardinality(Newer(s, loaded[t])) < AtLeastOne(session[t].max))
  <2>1. Cardinality(Newer(s, loaded[t])) <= Cardinality({i \in inserted : i > s.id})
    BY <1>2, <1>3, NewerIds
  <2>2. Cardinality(Newer(s, loaded[t])) \in Nat
    <3>1. IsFiniteSet(loaded[t]) /\ Newer(s, loaded[t]) \in SUBSET loaded[t]
      BY DEF ListInv, Newer
    <3> QED BY <3>1, FS_Subset, FS_CardinalityType
  <2>3. Cardinality({i \in inserted : i > s.id}) \in Nat
    BY <1>0, FiniteStamps, FS_Subset, FS_CardinalityType
  <2> QED BY <1>4, <1>7, <1>8, <2>1, <2>2, <2>3
<1> QED BY <1>2, <1>3, <1>6, <1>7 DEF ShouldKeepSnapshot

\* What maintenance removes has expired or has retention_max_snapshots later
\* ones, by the settings its turn read, however old they and the list are.
THEOREM PrunedWhenDue == Spec => PrunedOnlyWhenDue
<1> DEFINE Due(s) ==
             \E t \in Turns :
                /\ pc[t] = "prune" /\ pc'[t] = "idle"
                /\ \/ s.at < now - AtLeastOne(session[t].days)
                   \/ Cardinality({i \in inserted : i > s.id}) >= AtLeastOne(session[t].max)
<1>1. BaseInv /\ ListInv /\ [Next]_vars => [pc' # pc => \A s \in snapshots \ snapshots' : Due(s)]_vars
  <2> SUFFICES ASSUME BaseInv, ListInv, Next, pc' # pc, NEW s \in snapshots \ snapshots' PROVE Due(s)
    OBVIOUS
  <2>1. PICK t \in Turns : TurnStep(t)
    BY OthersLeaveTurns
  <2> QED BY <2>1, OnlyPruneRemoves, PruneDue
<1> QED BY <1>1, ListAlways, PTL DEF Spec, PrunedOnlyWhenDue

LEMMA CopySizes ==
    ASSUME BaseInv, ListInv, NEW x
    PROVE  /\ IsFiniteSet(Copies(x)) /\ Cardinality(Copies(x)) \in Nat
           /\ IsFiniteSet(Copying(x)) /\ Cardinality(Copying(x)) \in Nat
           /\ Cardinality(Copying(x)) <= Cardinality(Turns) /\ Cardinality(Turns) \in Nat
<1>1. Copies(x) \in SUBSET snapshots /\ Copying(x) \in SUBSET Turns
  BY DEF Copies, Copying
<1>2. IsFiniteSet(snapshots) /\ IsFiniteSet(Turns)
  BY TurnsAssumption DEF ListInv
<1> QED BY <1>1, <1>2, FS_Subset, FS_CardinalityType

\* A turn judges by a list as new as its load: it joins those that may save x
\* only when x is not stored, and saving x takes it out of them.
LEMMA CopyTurn ==
    ASSUME BaseInv, NEW t \in Turns, TurnStep(t), ~ deleted, ~ crowded', NEW x
    PROVE  \/ Copies(x)' \subseteq Copies(x) /\ Copying(x)' \subseteq Copying(x)
           \/ Copies(x) = {} /\ Copies(x)' = {}
           \/ \E d : Copies(x)' = Copies(x) \cup {d} /\ t \in Copying(x) /\ Copying(x)' \subseteq Copying(x) \ {t}
<1> USE DEF engrams, tables, turnVars, history
<1>0. TypeOK /\ StampInv
  BY DEF BaseInv
<1>1. CASE LoadSnapshots(t)
  <2>1. snapshots' = snapshots /\ loaded' = [loaded EXCEPT ![t] = snapshots] /\ draft' = draft
        /\ \E p \in Listing : pc' = [pc EXCEPT ![t] = p]
    <3>1. ListAutosaveSnapshots = snapshots
      BY <1>1 DEF LoadSnapshots, Cover
    <3> QED BY <1>1, <3>1 DEF LoadSnapshots, Goto, Listing
  <2>2. Copies(x)' = Copies(x)
    BY <2>1 DEF Copies
  <2>3. loaded'[t] = snapshots /\ pc'[t] # "insert"
        /\ \A u \in Turns \ {t} : pc'[u] = pc[u] /\ loaded'[u] = loaded[u] /\ draft'[u] = draft[u]
    BY <1>0, <2>1 DEF TypeOK, Listing
  <2>4. CASE Copies(x) # {}
    <3>1. t \notin Copying(x)'
      BY <2>3, <2>4 DEF Copying, Copies
    <3> QED BY <2>2, <2>3, <3>1 DEF Copying
  <2> QED BY <2>2, <2>4
<1>2. CASE DraftSnapshot(t)
  <2>1. snapshots' = snapshots /\ loaded' = loaded /\ pc[t] = "draft"
    BY <1>2 DEF DraftSnapshot
  <2>2. \A u \in Turns \ {t} : pc'[u] = pc[u] /\ draft'[u] = draft[u]
    BY <1>0, <1>2 DEF DraftSnapshot, Goto, TypeOK
  <2>3. t \in Copying(x)' => t \in Copying(x)
    <3> SUFFICES ASSUME t \in Copying(x)' PROVE \A s \in loaded[t] : s.text # x
      BY <2>1 DEF Copying
    <3> DEFINE text == DeriveChatSnapshotAbstract(ListChatMessages(AutosaveLoad))
    <3>1. CASE pc' = [pc EXCEPT ![t] = "prune"]
      BY <1>0, <3>1 DEF Copying, TypeOK
    <3>2. CASE pc' # [pc EXCEPT ![t] = "prune"]
      <4>1. /\ ~ DuplicateSnapshotExists(text, loaded[t])
            /\ draft' = [draft EXCEPT ![t] = {[id |-> stamps + 1, at |-> now, text |-> text]}]
            /\ pc' = [pc EXCEPT ![t] = "insert"]
        BY <1>2, <3>2 DEF DraftSnapshot, Goto
      <4> HIDE DEF text
      <4>2. draft'[t] = {[id |-> stamps + 1, at |-> now, text |-> text]} /\ pc'[t] = "insert"
        BY <1>0, <4>1 DEF TypeOK
      <4>3. x = text
        BY <4>2 DEF Copying
      <4> QED BY <4>1, <4>3 DEF DuplicateSnapshotExists
    <3> QED BY <3>1, <3>2
  <2> QED BY <2>1, <2>2, <2>3 DEF Copies, Copying
<1>3. CASE InsertSnapshot(t)
  <2>1. PICK d \in draft[t] : d.id \notin inserted
    BY <1>0, <1>3 DEF StampInv, InsertSnapshot
  <2>2. draft[t] = {d}
    BY <1>0, <2>1 DEF StampInv
  <2>3. /\ snapshots' = snapshots \cup {d} /\ loaded' = loaded /\ draft' = draft
        /\ pc[t] = "insert" /\ pc' = [pc EXCEPT ![t] = "reload"]
    BY <1>3, <2>2 DEF InsertSnapshot, Goto
  <2>4. Copying(x)' \subseteq Copying(x) \ {t}
    BY <1>0, <2>3 DEF Copying, TypeOK
  <2>5. CASE d.text = x
    <3>1. t \in Copying(x)
      BY <2>1, <2>3, <2>5 DEF Copying
    <3>2. Copies(x)' = Copies(x) \cup {d}
      BY <2>3, <2>5 DEF Copies
    <3> QED BY <2>4, <3>1, <3>2
  <2>6. CASE d.text # x
    BY <2>3, <2>4, <2>6 DEF Copies
  <2> QED BY <2>5, <2>6
<1>4. CASE PlanByMessageCount(t)
  <2>1. UNCHANGED <<snapshots, loaded, draft>> /\ pc[t] = "count"
        /\ \E p \in {"draft", "prune"} : pc' = [pc EXCEPT ![t] = p]
    BY <1>4 DEF PlanByMessageCount, Goto
  <2> QED BY <1>0, <2>1 DEF Copies, Copying, TypeOK
<1>5. CASE GetSession(t) \/ (\E text \in PromptTexts : PostPrompt(t, text)) \/ PrepareRequest(t)
            \/ (\E text \in ReplyTexts : PersistReply(t, text)) \/ ReloadSnapshots(t)
            \/ PruneSnapshots(t) \/ Fail(t)
  <2>1. /\ snapshots' \subseteq snapshots
        /\ \E p \in Places \ {"count", "draft", "insert"} : pc' = [pc EXCEPT ![t] = p]
        /\ loaded' = loaded \/ \E L : loaded' = [loaded EXCEPT ![t] = L]
        /\ draft' = draft \/ draft' = [draft EXCEPT ![t] = {}]
    BY <1>5 DEF GetSession, PostPrompt, PrepareRequest, PersistReply, ReloadSnapshots, PruneSnapshots, Fail,
           Finish, Goto, Places
  <2>2. t \notin Copying(x)' /\ \A u \in Turns \ {t} : pc'[u] = pc[u] /\ loaded'[u] = loaded[u] /\ draft'[u] = draft[u]
    BY <1>0, <2>1 DEF Copying, TypeOK
  <2> QED BY <2>1, <2>2 DEF Copies, Copying
<1> QED BY <1>1, <1>2, <1>3, <1>4, <1>5 DEF TurnStep

LEMMA CopyStep == BaseInv /\ ListInv /\ CopyInv /\ [Next]_vars => CopyInv'
<1> SUFFICES ASSUME BaseInv, ListInv, CopyInv, [Next]_vars, deletes' = 0 PROVE CopyInv'
  BY DEF CopyInv
<1> USE DEF engrams, tables, turnVars, history
<1>0. TypeOK /\ BaseInv' /\ ListInv'
  BY BaseStep, ListStep DEF BaseInv
<1>1. ASSUME NEW t \in Turns, TurnStep(t) PROVE CopyInv'
  <2>1. UNCHANGED <<deleted, deletes, purging, trash>>
    BY <1>1 DEF TurnStep, GetSession, PostPrompt, PrepareRequest, PersistReply, LoadSnapshots,
       PlanByMessageCount, DraftSnapshot, InsertSnapshot, ReloadSnapshots, PruneSnapshots, Fail
  <2>4. crowded => crowded'
    <3>1. CASE LoadSnapshots(t) \/ ReloadSnapshots(t)
      <4>1. \E b : crowded' = (crowded \/ b)
        BY <3>1 DEF LoadSnapshots, ReloadSnapshots, Cover
      <4> QED BY <4>1, Zenon
    <3>2. CASE ~ (LoadSnapshots(t) \/ ReloadSnapshots(t))
      <4>1. crowded' = crowded
        BY <1>1, <3>2 DEF TurnStep, GetSession, PostPrompt, PrepareRequest, PersistReply,
           PlanByMessageCount, DraftSnapshot, InsertSnapshot, PruneSnapshots, Fail
      <4> QED BY <4>1, Zenon
    <3> QED BY <3>1, <3>2
  <2>2. ~ deleted /\ ~ purging /\ trash = {}
    BY <2>1 DEF CopyInv
  <2>3. ASSUME ~ crowded', NEW x \in PromptTexts \cup ReplyTexts
        PROVE  Cardinality(Copies(x)') + Cardinality(Copying(x)') <= Cardinality(Turns)
    <3>1. Cardinality(Copies(x)) + Cardinality(Copying(x)) <= Cardinality(Turns)
      BY <2>1, <2>3, <2>4 DEF CopyInv
    <3>2. /\ IsFiniteSet(Copies(x)) /\ Cardinality(Copies(x)) \in Nat
          /\ IsFiniteSet(Copying(x)) /\ Cardinality(Copying(x)) \in Nat /\ Cardinality(Turns) \in Nat
      BY CopySizes
    <3>3. /\ Cardinality(Copies(x)') \in Nat /\ Cardinality(Copying(x)') \in Nat
          /\ Cardinality(Copying(x)') <= Cardinality(Turns)
      <4>1. Copies(x)' \in SUBSET snapshots' /\ Copying(x)' \in SUBSET Turns
        BY DEF Copies, Copying
      <4>2. IsFiniteSet(snapshots') /\ IsFiniteSet(Turns)
        BY <1>0, TurnsAssumption DEF ListInv
      <4> QED BY <4>1, <4>2, FS_Subset, FS_CardinalityType
    <3>4. CASE Copies(x)' \subseteq Copies(x) /\ Copying(x)' \subseteq Copying(x)
      <4>1. Cardinality(Copies(x)') <= Cardinality(Copies(x)) /\ Cardinality(Copying(x)') <= Cardinality(Copying(x))
        BY <3>2, <3>4, FS_Subset
      <4> QED BY <3>1, <3>2, <3>3, <4>1
    <3>5. CASE Copies(x) = {} /\ Copies(x)' = {}
      <4>1. Cardinality(Copies(x)') = 0
        BY <3>5, FS_EmptySet
      <4> QED BY <3>2, <3>3, <4>1
    <3>6. ASSUME NEW d, Copies(x)' = Copies(x) \cup {d}, t \in Copying(x), Copying(x)' \subseteq Copying(x) \ {t}
          PROVE  Cardinality(Copies(x)') + Cardinality(Copying(x)') <= Cardinality(Turns)
      <4>1. Cardinality(Copies(x)') \in {Cardinality(Copies(x)), Cardinality(Copies(x)) + 1}
        BY <3>2, <3>6, FS_AddElement
      <4>2. Cardinality(Copying(x) \ {t}) = Cardinality(Copying(x)) - 1 /\ IsFiniteSet(Copying(x) \ {t})
        BY <3>2, <3>6, FS_RemoveElement
      <4>3. Cardinality(Copying(x)') <= Cardinality(Copying(x) \ {t})
        BY <3>6, <4>2, FS_Subset
      <4> QED BY <3>1, <3>2, <3>3, <4>1, <4>2, <4>3
    <3> QED BY <1>1, <2>2, <2>3, <3>4, <3>5, <3>6, CopyTurn
  <2> QED BY <2>1, <2>2, <2>3 DEF CopyInv
<1>2. CASE UNCHANGED <<deleted, purging, deletes, snapshots, trash, pc, loaded, draft, crowded>>
  BY <1>2 DEF CopyInv, Copies, Copying
<1>3. ASSUME Next, ~ \E t \in Turns : TurnStep(t) PROVE CopyInv'
  <2>1. deletes \in Nat
    BY <1>0 DEF TypeOK
  <2>2. ~ \E linked \in BOOLEAN : DeleteSession(linked)
    BY <2>1 DEF DeleteSession
  <2>3. ~ \E e \in snapshots \cup saved : DeleteEngram(e)
    BY <2>1 DEF DeleteEngram
  <2>4. deletes = 0
    BY <1>3, <2>2, <2>3 DEF Next, UpdatePolicy, SaveSessionAsEngram, DeleteLinkedEngrams,
         DeleteLinkedEngramsFails, RestoreSession, RestoreEngram, Tick
  <2>5. ~ deleted /\ ~ purging /\ trash = {}
    BY <2>4 DEF CopyInv
  <2>6. ~ RestoreSession /\ ~ DeleteLinkedEngrams /\ ~ DeleteLinkedEngramsFails
    BY <2>5 DEF RestoreSession, DeleteLinkedEngrams, DeleteLinkedEngramsFails
  <2>7. ~ \E e \in trash : RestoreEngram(e)
    BY <2>5
  <2> QED BY <1>2, <1>3, <2>2, <2>3, <2>6, <2>7 DEF Next, UpdatePolicy, SaveSessionAsEngram, Tick
<1> QED BY <1>1, <1>2, <1>3 DEF vars

\* The copies of one abstract never outnumber the turns that run at a time, as
\* long as nothing is deleted and no listing has been cut.
THEOREM DuplicatesAreBounded == Spec => []DuplicatesBounded
<1>1. Init => CopyInv
  <2> SUFFICES ASSUME Init, NEW x
               PROVE  ~ deleted /\ ~ purging /\ trash = {}
                      /\ Cardinality(Copies(x)) + Cardinality(Copying(x)) <= Cardinality(Turns)
    BY DEF CopyInv
  <2>1. Copies(x) = {} /\ Copying(x) = {} /\ ~ deleted /\ ~ purging /\ trash = {}
    BY DEF Init, Copies, Copying
  <2>2. Cardinality({}) = 0 /\ Cardinality(Turns) \in Nat
    BY TurnsAssumption, FS_EmptySet, FS_CardinalityType
  <2> QED BY <2>1, <2>2
<1>2. BaseInv /\ ListInv /\ CopyInv => DuplicatesBounded
  <2> SUFFICES ASSUME BaseInv, ListInv, CopyInv, deletes = 0, ~ crowded, NEW x \in PromptTexts \cup ReplyTexts
               PROVE  Cardinality(Copies(x)) <= Cardinality(Turns)
    BY DEF DuplicatesBounded, Copies
  <2> QED BY CopySizes DEF CopyInv
<1> QED BY <1>1, <1>2, CopyStep, ListAlways, PTL DEF Spec

\* Of any list at most retention_max_snapshots are kept: the oldest one kept
\* has fewer than that many newer ones, and the others kept are among them.
LEMMA KeptBounded ==
    ASSUME NEW L, IsFiniteSet(L), \A r \in L : r.id \in Nat, \A q, r \in L : q.id = r.id => q = r,
           NEW K, K \subseteq L, NEW m \in Nat, m >= 1, \A r \in K : Cardinality(Newer(r, L)) < m
    PROVE  Cardinality(K) <= m
<1>1. CASE K = {}
  BY <1>1, FS_EmptySet
<1>2. CASE K # {}
  <2>1. PICK i \in Ids(K) : \A j \in Ids(K) : i <= j
    <3>1. Ids(K) \subseteq Nat /\ Ids(K) # {}
      BY <1>2 DEF Ids
    <3> QED BY <3>1, LeastExists
  <2>2. PICK k \in K : \A r \in K : k.id <= r.id
    BY <2>1 DEF Ids
  <2>3. K \subseteq Newer(k, L) \cup {k}
    BY <2>2 DEF Newer
  <2>4. IsFiniteSet(Newer(k, L)) /\ Cardinality(Newer(k, L)) \in Nat
    <3>1. Newer(k, L) \in SUBSET L
      BY DEF Newer
    <3> QED BY <3>1, FS_Subset, FS_CardinalityType
  <2>5. k \notin Newer(k, L)
    BY <2>2 DEF Newer
  <2>6. IsFiniteSet(Newer(k, L) \cup {k}) /\ Cardinality(Newer(k, L) \cup {k}) = Cardinality(Newer(k, L)) + 1
    BY <2>4, <2>5, FS_AddElement
  <2>7. Cardinality(K) <= Cardinality(Newer(k, L) \cup {k}) /\ IsFiniteSet(K)
    BY <2>3, <2>6, FS_Subset
  <2>8. Cardinality(Newer(k, L)) < m /\ Cardinality(K) \in Nat
    BY <2>2, <2>7, FS_CardinalityType
  <2> QED BY <2>4, <2>6, <2>7, <2>8
<1> QED BY <1>1, <1>2

LEMMA CoverParts ==
    CoverInv' <=> (\A t \in Turns : Covered(t)') /\ (\A t, u \in Turns : Chained(t, u)')
BY DEF CoverInv, Covered, Chained, Mine, Settled

\* Steps that store, settle and list nothing.
LEMMA QuietCovers ==
    ASSUME BaseInv, CoverInv, NEW t \in Turns,
           \/ GetSession(t) \/ (\E text \in PromptTexts : PostPrompt(t, text)) \/ PrepareRequest(t)
           \/ (\E text \in ReplyTexts : PersistReply(t, text))
           \/ PlanByMessageCount(t) \/ DraftSnapshot(t) \/ Fail(t)
    PROVE  CoverInv'
<1> USE DEF engrams, tables, turnVars, history
<1>0. TypeOK
  BY DEF BaseInv
<1>1. UNCHANGED <<snapshots, unsettled, deleted>>
  BY DEF GetSession, PostPrompt, PrepareRequest, PersistReply, PlanByMessageCount, DraftSnapshot, Fail
<1>2. \/ /\ loaded' = loaded /\ covers' = covers
         /\ \E p \in {"post", "prepare", "reply", "load"} : pc' = [pc EXCEPT ![t] = p]
         /\ pc[t] \in {"idle", "post", "prepare", "reply"}
      \/ /\ loaded' = [loaded EXCEPT ![t] = {}]
         /\ covers' = [covers EXCEPT ![t] = {}] \/ (covers' = covers /\ pc[t] = "reply")
         /\ pc' = [pc EXCEPT ![t] = "idle"]
      \/ /\ loaded' = loaded /\ covers' = covers
         /\ \E p \in {"draft", "insert", "prune"} : pc' = [pc EXCEPT ![t] = p]
         /\ pc[t] \in {"count", "draft"}
  <2>1. CASE GetSession(t) \/ (\E text \in PromptTexts : PostPrompt(t, text)) \/ PrepareRequest(t)
    BY <2>1 DEF GetSession, PostPrompt, PrepareRequest, Goto
  <2>2. CASE \E text \in ReplyTexts : PersistReply(t, text)
    BY <2>2 DEF PersistReply, Finish, Goto
  <2>3. CASE Fail(t)
    BY <2>3 DEF Fail, Finish, Goto
  <2>4. CASE PlanByMessageCount(t)
    BY <2>4 DEF PlanByMessageCount, Goto
  <2>5. CASE DraftSnapshot(t)
    BY <2>5 DEF DraftSnapshot, Goto
  <2> QED BY <2>1, <2>2, <2>3, <2>4, <2>5
<1>3. \A u \in Turns \ {t} : pc'[u] = pc[u] /\ loaded'[u] = loaded[u] /\ covers'[u] = covers[u]
  BY <1>0, <1>2 DEF TypeOK
<1>4. pc'[t] \in Listing => pc[t] \in Listing /\ loaded' = loaded /\ covers' = covers
  BY <1>0, <1>2 DEF TypeOK, Listing
<1>5. \A u, v \in Turns : Chained(u, v)'
  <2> TAKE u, v \in Turns
  <2> SUFFICES ASSUME pc'[u] \in Listing, pc'[v] \in Listing
               PROVE  Mine(u)' \subseteq Mine(v)' \/ Mine(v)' \subseteq Mine(u)'
    BY DEF Chained
  <2>1. pc[u] \in Listing /\ pc[v] \in Listing /\ covers'[u] = covers[u] /\ covers'[v] = covers[v]
    BY <1>3, <1>4
  <2> QED BY <1>1, <2>1 DEF CoverInv, Chained, Mine
<1>6. ASSUME NEW u \in Turns PROVE Covered(u)'
  <2>1. Covered(u)
    BY DEF CoverInv
  <2>2. CASE u # t
    BY <1>1, <1>3, <2>1, <2>2 DEF Covered, Mine, Settled
  <2>3. CASE u = t
    <3>1. CASE covers'[t] = {} /\ pc'[t] \notin Listing
      BY <2>3, <3>1 DEF Covered
    <3>2. CASE loaded' = loaded /\ covers' = covers /\ pc'[t] \in {"draft", "insert", "prune"} /\ pc[t] \in Listing
      BY <1>1, <2>1, <2>3, <3>2 DEF Covered, Mine, Settled
    <3>3. pc[t] \in {"idle", "post", "prepare", "reply"} => covers[t] = {}
      BY <2>1, <2>3 DEF Covered
    <3> QED BY <1>0, <1>2, <3>1, <3>2, <3>3 DEF TypeOK, Listing
  <2> QED BY <2>2, <2>3
<1> QED BY <1>5, <1>6, CoverParts

\* A list just read has everything that is live, or settles nothing.
LEMMA LoadCovers ==
    ASSUME BaseInv, CoverInv, NEW t \in Turns, LoadSnapshots(t) \/ ReloadSnapshots(t)
    PROVE  CoverInv'
<1> USE DEF engrams, tables, turnVars, history
<1>0. TypeOK
  BY DEF BaseInv
<1> DEFINE L == ListAutosaveSnapshots
<1>1. /\ UNCHANGED <<snapshots, unsettled, deleted>>
      /\ loaded' = [loaded EXCEPT ![t] = L]
      /\ covers' = [covers EXCEPT ![t] = IF L = snapshots THEN @ \cup Ids(L) ELSE {}]
      /\ \E p \in Listing : pc' = [pc EXCEPT ![t] = p]
  BY DEF LoadSnapshots, ReloadSnapshots, Goto, Cover, Listing
<1>2. deleted => L = {}
  BY DEF ListAutosaveSnapshots
<1> HIDE DEF L
<1>3. \A u \in Turns \ {t} : pc'[u] = pc[u] /\ loaded'[u] = loaded[u] /\ covers'[u] = covers[u]
  BY <1>0, <1>1 DEF TypeOK
<1>4. /\ loaded'[t] = L /\ pc'[t] \in Listing
      /\ covers'[t] = IF L = snapshots THEN covers[t] \cup Ids(L) ELSE {}
  BY <1>0, <1>1 DEF TypeOK
<1>5. \A u \in Turns \ {t} : Mine(u)' = Mine(u)
  BY <1>1, <1>3 DEF Mine
<1>6. Mine(t)' = {} \/ (Mine(t)' = snapshots /\ L = snapshots)
  <2>1. CASE L = snapshots
    BY <1>1, <1>4, <2>1 DEF Mine, Ids
  <2>2. CASE L # snapshots
    BY <1>1, <1>4, <2>2 DEF Mine
  <2> QED BY <2>1, <2>2
<1>7. \A u, v \in Turns : Chained(u, v)'
  <2> TAKE u, v \in Turns
  <2>1. CASE u # t /\ v # t
    BY <1>3, <1>5, <2>1 DEF CoverInv, Chained
  <2>2. CASE u = t \/ v = t
    <3>1. Mine(u)' \subseteq snapshots /\ Mine(v)' \subseteq snapshots
      BY <1>1 DEF Mine
    <3> QED BY <1>6, <2>2, <3>1 DEF Chained
  <2> QED BY <2>1, <2>2
<1>8. ASSUME NEW u \in Turns PROVE Covered(u)'
  <2>1. Covered(u) /\ Covered(t)
    BY DEF CoverInv
  <2>2. Settled' = Settled /\ Settled \subseteq snapshots
    BY <1>1 DEF Settled
  <2>3. CASE u # t
    BY <1>1, <1>3, <1>5, <2>1, <2>2, <2>3 DEF Covered
  <2>4. CASE u = t
    <3>1. deleted' => covers'[t] = {}
      BY <1>1, <1>2, <1>4, <2>1 DEF Covered, Ids
    <3>2. Mine(t)' \subseteq loaded'[t] /\ (Settled' \subseteq loaded'[t] \/ Mine(t)' \subseteq Settled')
      BY <1>4, <1>6, <2>2
    <3> QED BY <1>4, <2>4, <3>1, <3>2 DEF Covered, Listing
  <2> QED BY <2>3, <2>4
<1> QED BY <1>7, <1>8, CoverParts

\* A snapshot just stored is unsettled and in no list.
LEMMA InsertCovers ==
    ASSUME BaseInv, CoverInv, NEW t \in Turns, InsertSnapshot(t)
    PROVE  CoverInv' /\ Settled' = Settled
<1>0. TypeOK /\ StampInv
  BY DEF BaseInv
<1>1. PICK d \in draft[t] : d.id \notin inserted
  BY <1>0 DEF StampInv, InsertSnapshot
<1>2. draft[t] = {d} /\ Ids(draft[t]) = {d.id}
  BY <1>0, <1>1 DEF StampInv, Ids
<1>3. /\ snapshots' = snapshots \cup {d} /\ unsettled' = unsettled \cup {d.id}
      /\ UNCHANGED <<deleted, loaded>> /\ pc' = [pc EXCEPT ![t] = "reload"]
      /\ covers' = [covers EXCEPT ![t] = IF deleted THEN @ ELSE @ \cup {d.id}]
  BY <1>2 DEF InsertSnapshot, Goto
<1>4. \A s \in snapshots : s.id # d.id
  BY <1>0, <1>1 DEF StampInv
<1>5. \A u \in Turns : d \notin loaded[u] /\ d.id \notin covers[u]
  BY <1>0, <1>1 DEF StampInv, TypeOK
<1>6. Settled' = Settled
  BY <1>3, <1>4 DEF Settled
<1>7. \A u \in Turns \ {t} : pc'[u] = pc[u] /\ covers'[u] = covers[u]
  BY <1>0, <1>3 DEF TypeOK
<1>8. \A u \in Turns \ {t} : Mine(u)' = Mine(u)
  BY <1>3, <1>5, <1>7 DEF Mine
<1>9. \A u, v \in Turns : Chained(u, v)'
  <2>1. pc'[t] \notin Listing
    BY <1>0, <1>3 DEF TypeOK, Listing
  <2> QED BY <1>7, <1>8, <2>1 DEF CoverInv, Chained
<1>10. ASSUME NEW u \in Turns PROVE Covered(u)'
  <2>1. Covered(u)
    BY DEF CoverInv
  <2>2. CASE u # t
    BY <1>3, <1>6, <1>7, <1>8, <2>1, <2>2 DEF Covered
  <2>3. CASE u = t
    <3>1. pc'[t] = "reload" /\ (deleted => covers'[t] = covers[t])
      BY <1>0, <1>3 DEF TypeOK
    <3> QED BY <1>3, <2>1, <2>3, <3>1 DEF Covered, Listing
  <2> QED BY <2>2, <2>3
<1> QED BY <1>6, <1>9, <1>10, CoverParts

\* The DELETE of a run leaves what was settled and, unless the owner has
\* lowered the limit, what it is answerable for; it removes what its list says
\* is not to be kept.
LEMMA PruneEffect ==
    ASSUME NEW t \in Turns, PruneSnapshots(t), ~ deleted
    PROVE  /\ snapshots' \subseteq snapshots
           /\ \/ Settled' = Settled \cap snapshots'
              \/ /\ session[t].max <= policy.max
                 /\ Settled' = (Settled \cup Mine(t)) \cap snapshots'
           /\ \A s \in snapshots' \cap loaded[t] :
                Cardinality(Newer(s, loaded[t])) < AtLeastOne(session[t].max)
<1>1. /\ snapshots' = {s \in snapshots :
              s.id \notin Ids(SelectRetentionPruneIDs(loaded[t], session[t], runNow[t]))}
      /\ unsettled' = IF session[t].max <= policy.max THEN unsettled \ covers[t] ELSE unsettled
  BY DEF PruneSnapshots
<1>2. snapshots' \subseteq snapshots
  BY <1>1
<1>3. ASSUME NEW s \in snapshots' \cap loaded[t]
      PROVE  Cardinality(Newer(s, loaded[t])) < AtLeastOne(session[t].max)
  <2>1. s \notin SelectRetentionPruneIDs(loaded[t], session[t], runNow[t])
    BY <1>1 DEF Ids
  <2> QED BY <2>1 DEF SelectRetentionPruneIDs, ShouldKeepSnapshot
<1>4. CASE unsettled' = unsettled
  <2>1. Settled' = Settled \cap snapshots'
    BY <1>2, <1>4 DEF Settled
  <2> QED BY <1>2, <1>3, <2>1
<1>5. CASE session[t].max <= policy.max /\ unsettled' = unsettled \ covers[t]
  <2>1. Settled' = (Settled \cup Mine(t)) \cap snapshots'
    BY <1>2, <1>5 DEF Settled, Mine
  <2> QED BY <1>2, <1>3, <1>5, <2>1
<1> QED BY <1>1, <1>4, <1>5

LEMMA PruneCovers ==
    ASSUME BaseInv, CoverInv, NEW t \in Turns, PruneSnapshots(t)
    PROVE  CoverInv'
<1>0. TypeOK
  BY DEF BaseInv
<1>1. /\ deleted' = deleted /\ pc[t] = "prune"
      /\ pc' = [pc EXCEPT ![t] = "idle"] /\ loaded' = [loaded EXCEPT ![t] = {}]
      /\ covers' = [covers EXCEPT ![t] = {}]
  BY DEF PruneSnapshots, Finish, Goto
<1>2. \A u \in Turns \ {t} : pc'[u] = pc[u] /\ loaded'[u] = loaded[u] /\ covers'[u] = covers[u]
  BY <1>0, <1>1 DEF TypeOK
<1>3. pc'[t] = "idle" /\ covers'[t] = {}
  BY <1>0, <1>1 DEF TypeOK
<1>4. snapshots' \subseteq snapshots
  BY DEF PruneSnapshots
<1>5. \A u \in Turns \ {t} : Mine(u)' = Mine(u) \cap snapshots'
  BY <1>2, <1>4 DEF Mine
<1>6. \A u, v \in Turns : Chained(u, v)'
  <2> TAKE u, v \in Turns
  <2>1. CASE u = t \/ v = t
    BY <1>3, <2>1 DEF Chained, Listing
  <2>2. CASE u # t /\ v # t
    BY <1>2, <1>5, <2>2 DEF CoverInv, Chained
  <2> QED BY <2>1, <2>2
<1>7. ASSUME NEW u \in Turns PROVE Covered(u)'
  <2>1. Covered(u) /\ Covered(t) /\ Chained(t, u)
    BY DEF CoverInv
  <2>2. CASE u = t
    BY <1>3, <2>2 DEF Covered, Listing
  <2>3. CASE u # t /\ deleted
    <3>1. UNCHANGED <<snapshots, unsettled>>
      BY <2>3 DEF PruneSnapshots
    <3> QED BY <1>1, <1>2, <2>1, <2>3, <3>1 DEF Covered, Mine, Settled
  <2>4. CASE u # t /\ ~ deleted /\ pc[u] \notin Listing
    BY <1>1, <1>2, <2>1, <2>4 DEF Covered
  <2>5. CASE u # t /\ ~ deleted /\ pc[u] \in Listing
    <3>1. Settled' = Settled \cap snapshots' \/ Settled' = (Settled \cup Mine(t)) \cap snapshots'
      BY <2>5, PruneEffect
    <3>2. Mine(u)' = Mine(u) \cap snapshots'
      BY <1>5, <2>5
    <3>3. Mine(u) \subseteq loaded[u] /\ (Settled \subseteq loaded[u] \/ Mine(u) \subseteq Settled)
      BY <2>1, <2>5 DEF Covered
    <3>4. Mine(t) \subseteq Mine(u) \/ Mine(u) \subseteq Mine(t)
      BY <1>1, <2>1, <2>5 DEF Chained, Listing
    <3>5. Settled' \subseteq loaded[u] \/ Mine(u)' \subseteq Settled'
      BY <3>1, <3>2, <3>3, <3>4
    <3> QED BY <1>1, <1>2, <2>1, <2>5, <3>2, <3>3, <3>5 DEF Covered
  <2> QED BY <2>2, <2>3, <2>4, <2>5
<1> QED BY <1>6, <1>7, CoverParts

\* What is left of the snapshots a run is answerable for and of the settled
\* ones, when some ids drop out of both, out of the former, or the latter are
\* all gone.
LEMMA CoversShrink ==
    ASSUME CoverInv, NEW Out, UNCHANGED <<pc, loaded>>,
           \A u \in Turns : deleted' => covers'[u] = {},
           \A u \in Turns : covers[u] = {} => covers'[u] = {},
           \A u \in Turns : Mine(u)' = Mine(u) \ Out,
           \/ Settled' = Settled \ Out \/ Settled' = {}
           \/ Settled' = Settled
    PROVE  CoverInv'
<1>1. \A u, v \in Turns : Chained(u, v)'
  BY DEF CoverInv, Chained
<1>2. ASSUME NEW u \in Turns PROVE Covered(u)'
  <2>1. Covered(u)
    BY DEF CoverInv
  <2> QED BY <2>1 DEF Covered
<1> QED BY <1>1, <1>2, CoverParts

\* A deletion makes every run under way answerable for nothing, a snapshot that
\* is restored has to be dealt with again, and a lower limit unsettles all.
LEMMA OtherCovers ==
    ASSUME BaseInv, CoverInv, Next, ~ \E t \in Turns : TurnStep(t)
    PROVE  CoverInv' /\ Settled' \subseteq Settled
<1> USE DEF engrams, tables, turnVars, history
<1>0. TypeOK /\ StampInv
  BY DEF BaseInv
<1>1. UNCHANGED <<pc, loaded, inserted>>
  BY OthersLeaveTurns
<1>2. \A u \in Turns : deleted => covers[u] = {}
  BY DEF CoverInv, Covered
<1>3. ASSUME NEW linked \in BOOLEAN, DeleteSession(linked) PROVE CoverInv' /\ Settled' \subseteq Settled
  <2>1. UNCHANGED <<snapshots, unsettled>> /\ \A u \in Turns : covers'[u] = {}
    BY <1>3 DEF DeleteSession
  <2>2. Settled' = Settled /\ \A u \in Turns : Mine(u)' = Mine(u) \ snapshots
    BY <2>1 DEF Settled, Mine
  <2> QED BY <1>1, <2>1, <2>2, CoversShrink
<1>4. CASE /\ snapshots' \subseteq snapshots /\ UNCHANGED <<unsettled, covers>> /\ (deleted' => deleted)
  <2>1. \A u \in Turns : Mine(u)' = Mine(u) \ (snapshots \ snapshots')
    BY <1>4 DEF Mine
  <2>2. Settled' = Settled \ (snapshots \ snapshots')
    BY <1>4 DEF Settled
  <2> QED BY <1>1, <1>2, <1>4, <2>1, <2>2, CoversShrink
<1>5. ASSUME NEW payload \in Payloads, UpdatePolicy(payload) PROVE CoverInv' /\ Settled' \subseteq Settled
  <2>1. UNCHANGED <<snapshots, covers, deleted>> /\ unsettled' \in {unsettled, inserted}
    BY <1>5 DEF UpdatePolicy
  <2>2. Settled' = Settled \/ Settled' = {}
    BY <1>0, <2>1 DEF Settled, StampInv
  <2>3. \A u \in Turns : Mine(u)' = Mine(u) \ {}
    BY <2>1 DEF Mine
  <2> QED BY <1>1, <1>2, <2>1, <2>2, <2>3, CoversShrink
<1>6. ASSUME NEW e \in trash, RestoreEngram(e) PROVE CoverInv' /\ Settled' \subseteq Settled
  <2> DEFINE Out == {s \in snapshots \cup {e} : s.id = e.id}
  <2>1. /\ deleted' = deleted /\ covers' = [u \in Turns |-> covers[u] \ {e.id}]
        /\ snapshots' = snapshots \cup ({e} \cap Snapshots)
        /\ unsettled' = unsettled \cup Ids({e} \cap Snapshots)
    BY <1>6 DEF RestoreEngram
  <2>2. \A u \in Turns : covers'[u] = covers[u] \ {e.id}
    BY <2>1
  <2>3. \A u \in Turns : Mine(u)' = Mine(u) \ Out
    BY <2>1, <2>2 DEF Mine
  <2>4. CASE e \in Snapshots
    <3>1. snapshots' = snapshots \cup {e} /\ unsettled' = unsettled \cup {e.id}
      BY <2>1, <2>4 DEF Ids
    <3>2. Settled' = Settled \ Out
      BY <3>1 DEF Settled
    <3> HIDE DEF Out
    <3> QED BY <1>1, <1>2, <2>1, <2>2, <2>3, <3>2, CoversShrink
  <2>5. CASE e \notin Snapshots
    <3>1. snapshots' = snapshots /\ unsettled' = unsettled
      BY <2>1, <2>5 DEF Ids
    <3>2. Settled' = Settled
      BY <3>1 DEF Settled
    <3> HIDE DEF Out
    <3> QED BY <1>1, <1>2, <2>1, <2>2, <2>3, <3>2, CoversShrink
  <2> QED BY <2>4, <2>5
<1>7. CASE SaveSessionAsEngram \/ DeleteLinkedEngrams \/ DeleteLinkedEngramsFails \/ RestoreSession \/ Tick
           \/ \E e \in snapshots \cup saved : DeleteEngram(e)
  BY <1>4, <1>7 DEF SaveSessionAsEngram, DeleteLinkedEngrams, DeleteLinkedEngramsFails, RestoreSession,
         DeleteEngram, Tick
<1> QED BY <1>3, <1>5, <1>6, <1>7 DEF Next

LEMMA CoverStep == BaseInv /\ CoverInv /\ [Next]_vars => CoverInv'
<1> SUFFICES ASSUME BaseInv, CoverInv, [Next]_vars PROVE CoverInv'
  OBVIOUS
<1>1. CASE UNCHANGED vars
  BY <1>1 DEF vars, CoverInv, Covered, Chained, Mine, Settled
<1>2. ASSUME NEW t \in Turns, TurnStep(t) PROVE CoverInv'
  BY <1>2, QuietCovers, LoadCovers, InsertCovers, PruneCovers DEF TurnStep
<1> QED BY <1>1, <1>2, OtherCovers

LEMMA AtLeastOneGrows ==
    ASSUME NEW m \in Nat, NEW n \in Nat, m <= n
    PROVE  AtLeastOne(m) <= AtLeastOne(n)
BY DEF AtLeastOne

\* What is settled grows only in a run that prunes a list with all of it, by a
\* limit that is still no higher than the owner's.
LEMMA RetentionStep == BaseInv /\ ListInv /\ CoverInv /\ RetentionBound /\ [Next]_vars => RetentionBound'
<1> SUFFICES ASSUME BaseInv, ListInv, CoverInv, RetentionBound, [Next]_vars PROVE RetentionBound'
  OBVIOUS
<1> USE DEF engrams, tables, turnVars, history
<1>0. TypeOK /\ StampInv /\ policy.max \in Nat /\ policy'.max \in Nat
  BY BaseStep DEF BaseInv, TypeOK, Policies, Positive
<1> DEFINE m == AtLeastOne(policy.max)
           n == AtLeastOne(policy'.max)
<1>1. m \in Nat /\ m >= 1 /\ n \in Nat /\ n >= 1
  BY <1>0, AtLeastOneType
<1>2. m <= n \/ policy'.max < policy.max
  BY <1>0, AtLeastOneGrows
<1> HIDE DEF m, n
<1>3. Cardinality(Settled) <= m /\ IsFiniteSet(Settled) /\ Cardinality(Settled) \in Nat
  <2>1. Settled \in SUBSET snapshots
    BY DEF Settled
  <2> QED BY <2>1, FS_Subset, FS_CardinalityType DEF ListInv, RetentionBound, Settled, m
<1>4. SUFFICES Cardinality(Settled') <= n
  BY DEF RetentionBound, Settled, n
<1>5. ASSUME Settled' \subseteq Settled, policy'.max >= policy.max PROVE Cardinality(Settled') <= n
  <2>1. Cardinality(Settled') <= Cardinality(Settled) /\ IsFiniteSet(Settled')
    BY <1>3, <1>5, FS_Subset
  <2>2. Cardinality(Settled') \in Nat
    BY <2>1, FS_CardinalityType
  <2>3. m <= n
    BY <1>0, <1>2, <1>5
  <2> QED BY <1>1, <1>3, <2>1, <2>2, <2>3
<1>6. ASSUME NEW t \in Turns, PruneSnapshots(t) PROVE Cardinality(Settled') <= n
  <2>0. policy' = policy
    BY <1>6 DEF PruneSnapshots
  <2>1. CASE deleted
    <3>1. UNCHANGED <<snapshots, unsettled>>
      BY <1>6, <2>1 DEF PruneSnapshots
    <3> QED BY <1>0, <1>5, <2>0, <3>1 DEF Settled
  <2>2. CASE ~ deleted
    <3>1. /\ \/ Settled' = Settled \cap snapshots'
             \/ session[t].max <= policy.max /\ Settled' = (Settled \cup Mine(t)) \cap snapshots'
          /\ \A s \in snapshots' \cap loaded[t] :
               Cardinality(Newer(s, loaded[t])) < AtLeastOne(session[t].max)
      BY <1>6, <2>2, PruneEffect
    <3>2. Mine(t) \subseteq loaded[t] /\ (Settled \subseteq loaded[t] \/ Mine(t) \subseteq Settled)
      BY <1>6 DEF CoverInv, Covered, Listing, PruneSnapshots
    <3>3. CASE Mine(t) \subseteq Settled \/ Settled' = Settled \cap snapshots'
      BY <1>0, <1>5, <2>0, <3>1, <3>3
    <3>4. CASE /\ Settled \subseteq loaded[t] /\ session[t].max <= policy.max
               /\ Settled' = (Settled \cup Mine(t)) \cap snapshots'
      <4> DEFINE k == AtLeastOne(session[t].max)
      <4>0. k \in Nat /\ k >= 1 /\ k <= n
        <5>1. session[t].max \in Nat
          BY <1>0 DEF TypeOK, Policies, Positive
        <5> QED BY <1>0, <2>0, <3>4, <5>1, AtLeastOneType, AtLeastOneGrows DEF n
      <4> HIDE DEF k
      <4>1. Settled' \subseteq loaded[t] /\ \A s \in Settled' : Cardinality(Newer(s, loaded[t])) < k
        BY <3>1, <3>2, <3>4 DEF k
      <4>2. IsFiniteSet(loaded[t]) /\ \A r \in loaded[t] : r.id \in Nat
        BY <1>0 DEF ListInv, TypeOK, Snapshots
      <4>3. \A q, r \in loaded[t] : q.id = r.id => q = r
        <5> TAKE q, r \in loaded[t]
        <5>1. q \in Snapshots /\ r \in Snapshots /\ Seen(q) /\ Seen(r)
          BY <1>0 DEF Seen, TypeOK
        <5> QED BY <1>0, <5>1 DEF StampInv
      <4>4. Cardinality(Settled') <= k
        BY <4>0, <4>1, <4>2, <4>3, KeptBounded
      <4>5. Cardinality(Settled') \in Nat
        BY <4>1, <4>2, FS_Subset, FS_CardinalityType
      <4> QED BY <1>1, <4>0, <4>4, <4>5
    <3> QED BY <3>1, <3>2, <3>3, <3>4
  <2> QED BY <2>1, <2>2
<1>7. ASSUME NEW t \in Turns, InsertSnapshot(t) PROVE Cardinality(Settled') <= n
  <2>1. policy' = policy /\ Settled' = Settled
    BY <1>7, InsertCovers DEF InsertSnapshot
  <2> QED BY <1>0, <1>5, <2>1
<1>8. CASE UNCHANGED <<snapshots, unsettled, policy>>
  BY <1>0, <1>5, <1>8 DEF Settled
<1>9. ASSUME NEW t \in Turns, TurnStep(t) PROVE Cardinality(Settled') <= n
  BY <1>6, <1>7, <1>8, <1>9 DEF TurnStep, GetSession, PostPrompt, PrepareRequest, PersistReply, LoadSnapshots,
       PlanByMessageCount, DraftSnapshot, ReloadSnapshots, Fail, Cover
<1>10. ASSUME NEW payload \in Payloads, UpdatePolicy(payload), policy'.max < policy.max
       PROVE  Cardinality(Settled') <= n
  <2>1. snapshots' = snapshots /\ unsettled' = inserted
    BY <1>10 DEF UpdatePolicy
  <2>2. Settled' = {}
    BY <1>0, <2>1 DEF Settled, StampInv
  <2> QED BY <1>1, <2>2, FS_EmptySet
<1>11. ASSUME Next, ~ \E t \in Turns : TurnStep(t) PROVE Cardinality(Settled') <= n
  <2>1. Settled' \subseteq Settled
    BY <1>11, OtherCovers
  <2>2. policy' = policy \/ \E payload \in Payloads : UpdatePolicy(payload)
    BY <1>11 DEF Next, SaveSessionAsEngram, DeleteSession, DeleteLinkedEngrams, DeleteLinkedEngramsFails,
         RestoreSession, DeleteEngram, RestoreEngram, Tick
  <2>3. policy'.max >= policy.max \/ policy'.max < policy.max
    BY <1>0
  <2> QED BY <1>0, <1>5, <1>10, <2>1, <2>2, <2>3
<1> QED BY <1>8, <1>9, <1>11 DEF vars

\* Retention under concurrency: of the snapshots that a complete maintenance
\* run has dealt with, no more than retention_max_snapshots are live, although
\* every run prunes by a list and by settings that others have made stale.
THEOREM RetentionIsBounded == Spec => []RetentionBound
<1>1. Init => CoverInv /\ RetentionBound
  <2> SUFFICES ASSUME Init PROVE CoverInv /\ RetentionBound
    OBVIOUS
  <2>1. CoverInv
    BY DEF Init, CoverInv, Covered, Chained, Mine, Settled, Listing
  <2>2. {s \in snapshots : s.id \notin unsettled} = {}
    BY DEF Init
  <2>3. AtLeastOne(policy.max) \in Nat
    BY BaseInit, AtLeastOneType DEF BaseInv, TypeOK, Policies, Positive
  <2> QED BY <2>1, <2>2, <2>3, FS_EmptySet DEF RetentionBound
<1> QED BY <1>1, CoverStep, RetentionStep, ListAlways, PTL DEF Spec
==============================================================================
