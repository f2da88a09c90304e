------------------------ MODULE ChatGenerationProofs -------------------------
(* Proofs about ChatGeneration, for any set of providers, any finite set of *)
(* concurrent requests, any fallback order, threshold and cooldown.         *)
EXTENDS ChatGeneration, FiniteSetTheorems, TLAPS

\* The walk of Candidates starts with the session's own provider.
LEMMA SlotsType ==
    ASSUME NEW p \in Providers
    PROVE  /\ Slots(p) \in Seq(Providers)
           /\ Len(Slots(p)) >= 1
           /\ Slots(p)[1] = p
  BY FallbackOrderAssumption DEF Slots

\* The session's own provider is always a candidate, and every candidate is a
\* provider.
LEMMA CandidatesType ==
    ASSUME NEW p \in Providers
    PROVE  /\ 1 \in Candidates(p)
           /\ Candidates(p) \subseteq Nat
           /\ \A i \in Candidates(p) : Slots(p)[i] \in Providers
  BY SlotsType DEF Candidates

\* The provider a request is at is a provider.
LEMMA CandidateProviderType ==
    ASSUME TypeOK, NEW w \in Workers
    PROVE  CandidateProvider(w) \in Providers
  BY CandidatesType DEF TypeOK, CandidateProvider

\* What the two ways on from a candidate do to a request.
LEMMA ContinueType ==
    ASSUME TypeOK, NEW w \in Workers, Continue(w), UNCHANGED primary
    PROVE  /\ pc' \in [Workers -> {"idle", "checking", "calling"}]
           /\ index' \in [Workers -> Nat]
           /\ \A v \in Workers : index'[v] \in Candidates(primary[v])
           /\ cancelled' \in [Workers -> BOOLEAN]
           /\ outcome' \in [Workers -> Outcomes]
  <1>1. CASE \E j \in Candidates(primary[w]) : j > index[w]
    <2>1. PICK j \in Candidates(primary[w]) : index' = [index EXCEPT ![w] = j]
      BY <1>1 DEF Continue
    <2>2. j \in Nat
      BY CandidatesType DEF TypeOK
    <2> QED
      BY <1>1, <2>1, <2>2 DEF Continue, TypeOK
  <1>2. CASE ~ \E j \in Candidates(primary[w]) : j > index[w]
    BY <1>2 DEF Continue, Return, TypeOK, Outcomes
  <1> QED
    BY <1>1, <1>2

LEMMA ReturnType ==
    ASSUME TypeOK, NEW w \in Workers, NEW r \in Outcomes, Return(w, r)
    PROVE  /\ pc' \in [Workers -> {"idle", "checking", "calling"}]
           /\ index' = index
           /\ cancelled' \in [Workers -> BOOLEAN]
           /\ outcome' \in [Workers -> Outcomes]
  BY DEF Return, TypeOK

LEMMA LogType ==
    ASSUME TypeOK, NEW w \in Workers, NEW kind \in TrailKinds, Log(w, kind)
    PROVE  trail' \in [Workers -> Seq(Providers \X TrailKinds)]
  <1>1. <<CandidateProvider(w), kind>> \in Providers \X TrailKinds
    BY CandidateProviderType
  <1>2. Append(trail[w], <<CandidateProvider(w), kind>>) \in Seq(Providers \X TrailKinds)
    BY <1>1 DEF TypeOK
  <1> QED
    BY <1>2 DEF Log, TypeOK

\* The breaker's own steps keep its types.
LEMMA RecordResultType ==
    ASSUME CircuitTypeOK, NEW p \in Providers, NEW kind, RecordResult(p, kind)
    PROVE  CircuitTypeOK'
  BY CooldownAssumption DEF CircuitTypeOK, RecordResult, Closed, NoTime

LEMMA AllowType ==
    ASSUME CircuitTypeOK, NEW p \in Providers, AllowTrue(p) \/ AllowFalse(p)
    PROVE  CircuitTypeOK'
  BY DEF CircuitTypeOK, AllowTrue, AllowFalse, Closed, NoTime, circuitVars

LEMMA TickType ==
    ASSUME CircuitTypeOK, CircuitTick
    PROVE  CircuitTypeOK'
  BY CooldownAssumption DEF CircuitTypeOK, CircuitTick, IsOpen, NoTime

\* Type correctness: in particular a request is always at one of its session's
\* candidates, so the loop never reads past the candidate list.
THEOREM TypeCorrect == Spec => []TypeOK
<1>1. Init => TypeOK
  BY CandidatesType DEF Init, TypeOK, CircuitInit, CircuitTypeOK, NoTime, Outcomes
<1>2. TypeOK /\ [Next]_vars => TypeOK'
  <2> SUFFICES ASSUME TypeOK, [Next]_vars PROVE TypeOK'
    OBVIOUS
  <2>1. CASE UNCHANGED vars
    BY <2>1 DEF TypeOK, CircuitTypeOK, vars
  <2>2. CASE Tick
    BY <2>2, TickType DEF Tick, requestVars, TypeOK
  <2>3. ASSUME NEW w \in Workers, NEW p \in Providers, StartRequest(w, p) PROVE TypeOK'
    BY <2>3, CandidatesType DEF StartRequest, TypeOK, CircuitTypeOK, circuitVars, Outcomes
  <2>4. ASSUME NEW w \in Workers, SkipCandidate(w) PROVE TypeOK'
    <3>1. CircuitTypeOK'
      BY <2>4, AllowType, CandidateProviderType DEF SkipCandidate, TypeOK
    <3>2. trail' \in [Workers -> Seq(Providers \X TrailKinds)]
      BY <2>4, LogType DEF SkipCandidate, TrailKinds
    <3>3. CASE IsLastCandidate(w)
      BY <2>4, <3>1, <3>2, <3>3, ReturnType DEF SkipCandidate, TypeOK, Outcomes
    <3>4. CASE ~ IsLastCandidate(w)
      BY <2>4, <3>1, <3>2, <3>4, ContinueType DEF SkipCandidate, TypeOK
    <3> QED
      BY <3>3, <3>4
  <2>5. ASSUME NEW w \in Workers, StartCall(w) PROVE TypeOK'
    BY <2>5, AllowType, CandidateProviderType DEF StartCall, TypeOK
  <2>6. ASSUME NEW w \in Workers, CallSucceeds(w) PROVE TypeOK'
    <3>1. CircuitTypeOK'
      BY <2>6, RecordResultType, CandidateProviderType DEF CallSucceeds, TypeOK
    <3>2. trail' \in [Workers -> Seq(Providers \X TrailKinds)]
      BY <2>6, LogType DEF CallSucceeds, TrailKinds
    <3> QED
      BY <2>6, <3>1, <3>2, ReturnType DEF CallSucceeds, TypeOK, Outcomes
  <2>7. ASSUME NEW w \in Workers, NEW kind \in FailureKinds, CallFails(w, kind) PROVE TypeOK'
    <3>1. CircuitTypeOK'
      BY <2>7, RecordResultType, CandidateProviderType DEF CallFails, TypeOK
    <3>2. trail' \in [Workers -> Seq(Providers \X TrailKinds)]
      BY <2>7, LogType DEF CallFails, TrailKinds
    <3>3. CASE kind = "permanent" \/ IsLastCandidate(w)
      BY <2>7, <3>1, <3>2, <3>3, ReturnType DEF CallFails, TypeOK, Outcomes
    <3>4. CASE ~ (kind = "permanent" \/ IsLastCandidate(w))
      BY <2>7, <3>1, <3>2, <3>4, ContinueType DEF CallFails, TypeOK
    <3> QED
      BY <3>3, <3>4
  <2>8. ASSUME NEW w \in Workers, CallUnmapped(w) PROVE TypeOK'
    <3>1. trail' \in [Workers -> Seq(Providers \X TrailKinds)]
      BY <2>8, LogType DEF CallUnmapped, TrailKinds
    <3> QED
      BY <2>8, <3>1, ReturnType DEF CallUnmapped, TypeOK, CircuitTypeOK, Outcomes
  <2>9. ASSUME NEW w \in Workers, Disconnect(w) PROVE TypeOK'
    BY <2>9 DEF Disconnect, TypeOK, CircuitTypeOK
  <2> QED
    BY <2>1, <2>2, <2>3, <2>4, <2>5, <2>6, <2>7, <2>8, <2>9 DEF Next
<1> QED
  BY <1>1, <1>2, PTL DEF Spec

------------------------------------------------------------------------------
(* The breaker's two fields agree.                                         *)

\* openUntil is set exactly while the failure count is at or above the
\* threshold, however the results of concurrent calls interleave.
THEOREM BreakerIsConsistent == Spec => []BreakerConsistent
<1>1. Init => BreakerConsistent
  <2> SUFFICES ASSUME Init, NEW p \in Providers
               PROVE  openFor[p] # NoTime <=> consecutiveFailures[p] >= Threshold
    BY DEF BreakerConsistent
  <2>1. openFor[p] = NoTime /\ consecutiveFailures[p] = 0
    BY DEF Init, CircuitInit
  <2> QED
    BY <2>1, ThresholdAssumption
<1>2. TypeOK /\ BreakerConsistent /\ [Next]_vars => BreakerConsistent'
  <2> SUFFICES ASSUME TypeOK, BreakerConsistent, [Next]_vars PROVE BreakerConsistent'
    OBVIOUS
  <2>1. ASSUME NEW p \in Providers, NEW kind, RecordResult(p, kind) PROVE BreakerConsistent'
    BY <2>1, ThresholdAssumption, CooldownAssumption
    DEF TypeOK, CircuitTypeOK, BreakerConsistent, RecordResult, Closed, NoTime
  <2>2. ASSUME NEW p \in Providers, AllowTrue(p) \/ AllowFalse(p) PROVE BreakerConsistent'
    <3>1. CASE UNCHANGED circuitVars
      BY <3>1 DEF BreakerConsistent, circuitVars
    <3>2. CASE Closed(p)
      BY <3>2, ThresholdAssumption
      DEF TypeOK, CircuitTypeOK, BreakerConsistent, Closed, NoTime
    <3> QED
      BY <2>2, <3>1, <3>2 DEF AllowTrue, AllowFalse
  <2>3. CASE UNCHANGED circuitVars
    BY <2>3 DEF BreakerConsistent, circuitVars
  <2>4. CASE Tick
    BY <2>4 DEF Tick, CircuitTick, IsOpen, TypeOK, CircuitTypeOK, BreakerConsistent, NoTime
  <2>5. CASE UNCHANGED vars
    BY <2>5, <2>3 DEF vars, circuitVars
  <2>6. ASSUME NEW w \in Workers, SkipCandidate(w) \/ StartCall(w) PROVE BreakerConsistent'
    BY <2>2, <2>6, CandidateProviderType DEF SkipCandidate, StartCall
  <2>7. ASSUME NEW w \in Workers,
               CallSucceeds(w) \/ \E kind \in FailureKinds : CallFails(w, kind)
        PROVE  BreakerConsistent'
    BY <2>1, <2>7, CandidateProviderType DEF CallSucceeds, CallFails
  <2>8. ASSUME NEW w \in Workers,
               \/ \E p \in Providers : StartRequest(w, p)
               \/ CallUnmapped(w)
               \/ Disconnect(w)
        PROVE  BreakerConsistent'
    BY <2>3, <2>8 DEF StartRequest, CallUnmapped, Disconnect, circuitVars
  <2> QED
    BY <2>4, <2>5, <2>6, <2>7, <2>8 DEF Next
<1> QED
  BY <1>1, <1>2, TypeCorrect, PTL DEF Spec

------------------------------------------------------------------------------
(* The failure count is bounded by the threshold and the concurrency.      *)

LEMMA InFlightSize ==
    ASSUME NEW p
    PROVE  /\ IsFiniteSet(InFlight(p))
           /\ Cardinality(InFlight(p)) \in Nat
           /\ Cardinality(Workers) \in Nat
           /\ Cardinality(InFlight(p)) <= Cardinality(Workers)
  <1>1. InFlight(p) \subseteq Workers
    BY DEF InFlight
  <1> QED
    BY <1>1, WorkersAssumption, FS_Subset, FS_CardinalityType

\* A provider whose count is below the threshold meets the bound whatever is
\* in flight.
LEMMA BelowThresholdBounded ==
    ASSUME NEW p \in Providers, CircuitTypeOK', consecutiveFailures'[p] < Threshold
    PROVE  consecutiveFailures'[p] + Cardinality(InFlight(p)')
                <= (Threshold - 1) + Cardinality(Workers)
  <1> DEFINE flying == InFlight(p)'
  <1>1. flying \subseteq Workers
    BY DEF InFlight
  <1> HIDE DEF flying
  <1>2. /\ Cardinality(flying) \in Nat
        /\ Cardinality(Workers) \in Nat
        /\ Cardinality(flying) <= Cardinality(Workers)
    BY <1>1, WorkersAssumption, FS_Subset, FS_CardinalityType
  <1>3. consecutiveFailures'[p] \in Nat
    BY DEF CircuitTypeOK
  <1>4. consecutiveFailures'[p] + Cardinality(flying) <= (Threshold - 1) + Cardinality(Workers)
    BY <1>2, <1>3, ThresholdAssumption
  <1> QED
    BY <1>4 DEF flying

\* Calls of a worker that stays out of "calling" leave every InFlight alone.
LEMMA InFlightUnchanged ==
    ASSUME TypeOK, NEW w \in Workers, pc[w] # "calling", pc'[w] # "calling",
           \A v \in Workers \ {w} :
              pc'[v] = pc[v] /\ index'[v] = index[v] /\ primary'[v] = primary[v],
           NEW p
    PROVE  InFlight(p)' = InFlight(p)
  BY DEF InFlight, CandidateProvider

\* A call that ends leaves its provider's set.
LEMMA InFlightEnds ==
    ASSUME TypeOK, NEW w \in Workers, pc[w] = "calling", pc'[w] # "calling",
           \A v \in Workers \ {w} :
              pc'[v] = pc[v] /\ index'[v] = index[v] /\ primary'[v] = primary[v],
           NEW p
    PROVE  IF p = CandidateProvider(w)
           THEN Cardinality(InFlight(p)') = Cardinality(InFlight(p)) - 1
           ELSE InFlight(p)' = InFlight(p)
  <1>1. CASE p = CandidateProvider(w)
    <2>1. w \in InFlight(p)
      BY <1>1 DEF InFlight
    <2>2. InFlight(p)' = InFlight(p) \ {w}
      BY <1>1 DEF InFlight, CandidateProvider
    <2>3. Cardinality(InFlight(p) \ {w}) = Cardinality(InFlight(p)) - 1
      BY <2>1, InFlightSize, FS_RemoveElement
    <2> QED
      BY <1>1, <2>2, <2>3
  <1>2. CASE p # CandidateProvider(w)
    BY <1>2 DEF InFlight, CandidateProvider
  <1> QED
    BY <1>1, <1>2

\* The count can only reach Threshold - 1 plus the number of requests, however
\* late answers and cooldowns interleave: an open breaker admits nobody.
THEOREM FailuresAreBounded == Spec => []FailuresBounded
<1>1. Init => FailuresBounded
  <2> SUFFICES ASSUME Init, NEW p \in Providers
               PROVE  consecutiveFailures[p] + Cardinality(InFlight(p))
                        <= (Threshold - 1) + Cardinality(Workers)
    BY DEF FailuresBounded
  <2> QED
    BY InFlightSize, ThresholdAssumption DEF Init, CircuitInit
<1>2. TypeOK /\ TypeOK' /\ BreakerConsistent /\ FailuresBounded /\ [Next]_vars => FailuresBounded'
  <2> SUFFICES ASSUME TypeOK, TypeOK', BreakerConsistent, FailuresBounded, [Next]_vars,
                      NEW p \in Providers
               PROVE  consecutiveFailures'[p] + Cardinality(InFlight(p)')
                        <= (Threshold - 1) + Cardinality(Workers)
    BY DEF FailuresBounded
  <2> USE DEF TypeOK
  <2>a. CASE consecutiveFailures'[p] = consecutiveFailures[p] /\ InFlight(p)' = InFlight(p)
    BY <2>a DEF FailuresBounded
  <2>b. CASE consecutiveFailures'[p] < Threshold
    BY <2>b, BelowThresholdBounded
  <2>1. CASE UNCHANGED vars
    BY <2>1, <2>a DEF vars, InFlight, CandidateProvider
  <2>2. CASE Tick
    BY <2>2, <2>a DEF Tick, CircuitTick, requestVars, InFlight, CandidateProvider
  <2>3. ASSUME NEW w \in Workers, NEW q \in Providers, StartRequest(w, q)
        PROVE  consecutiveFailures'[p] + Cardinality(InFlight(p)')
                 <= (Threshold - 1) + Cardinality(Workers)
    BY <2>3, <2>a, InFlightUnchanged DEF StartRequest, circuitVars
  <2>4. ASSUME NEW w \in Workers, SkipCandidate(w)
        PROVE  consecutiveFailures'[p] + Cardinality(InFlight(p)')
                 <= (Threshold - 1) + Cardinality(Workers)
    BY <2>4, <2>a, InFlightUnchanged
    DEF SkipCandidate, AllowFalse, circuitVars, Return, Continue
  <2>5. ASSUME NEW w \in Workers, StartCall(w)
        PROVE  consecutiveFailures'[p] + Cardinality(InFlight(p)')
                 <= (Threshold - 1) + Cardinality(Workers)
    <3>1. CASE p = CandidateProvider(w)
      BY <2>5, <3>1, <2>b, ThresholdAssumption
      DEF StartCall, AllowTrue, IsOpen, BreakerConsistent, Closed, circuitVars, CircuitTypeOK
    <3>2. CASE p # CandidateProvider(w)
      BY <2>5, <3>2, <2>a
      DEF StartCall, AllowTrue, Closed, circuitVars, CircuitTypeOK, InFlight, CandidateProvider
    <3> QED
      BY <3>1, <3>2
  <2>6. ASSUME NEW w \in Workers, NEW kind,
               pc[w] = "calling", pc'[w] # "calling",
               RecordResult(CandidateProvider(w), kind),
               \A v \in Workers \ {w} :
                  pc'[v] = pc[v] /\ index'[v] = index[v] /\ primary'[v] = primary[v]
        PROVE  consecutiveFailures'[p] + Cardinality(InFlight(p)')
                 <= (Threshold - 1) + Cardinality(Workers)
    <3>1. CASE p # CandidateProvider(w)
      BY <2>6, <3>1, <2>a, InFlightEnds DEF RecordResult, Closed, CircuitTypeOK
    <3>2. CASE p = CandidateProvider(w) /\ kind # "transient"
      BY <2>6, <3>2, <2>b, ThresholdAssumption DEF RecordResult, Closed, CircuitTypeOK
    <3>3. CASE p = CandidateProvider(w) /\ kind = "transient"
      <4>1. consecutiveFailures'[p] = consecutiveFailures[p] + 1
        BY <2>6, <3>3 DEF RecordResult, CircuitTypeOK
      <4>2. Cardinality(InFlight(p)') = Cardinality(InFlight(p)) - 1
        BY <2>6, <3>3, InFlightEnds
      <4>3. consecutiveFailures[p] \in Nat
        BY DEF CircuitTypeOK
      <4>4. consecutiveFailures[p] + Cardinality(InFlight(p)) <= (Threshold - 1) + Cardinality(Workers)
        BY DEF FailuresBounded
      <4>5. Cardinality(InFlight(p)) \in Nat /\ Cardinality(Workers) \in Nat
        BY InFlightSize
      <4> QED
        BY <4>1, <4>2, <4>3, <4>4, <4>5, ThresholdAssumption
    <3> QED
      BY <3>1, <3>2, <3>3
  <2>7. ASSUME NEW w \in Workers, CallSucceeds(w)
        PROVE  consecutiveFailures'[p] + Cardinality(InFlight(p)')
                 <= (Threshold - 1) + Cardinality(Workers)
    BY <2>6, <2>7 DEF CallSucceeds, Return
  <2>8. ASSUME NEW w \in Workers, NEW kind \in FailureKinds, CallFails(w, kind)
        PROVE  consecutiveFailures'[p] + Cardinality(InFlight(p)')
                 <= (Threshold - 1) + Cardinality(Workers)
    BY <2>6, <2>8 DEF CallFails, Return, Continue
  <2>9. ASSUME NEW w \in Workers, CallUnmapped(w)
        PROVE  consecutiveFailures'[p] + Cardinality(InFlight(p)')
                 <= (Threshold - 1) + Cardinality(Workers)
    <3>1. \/ InFlight(p)' = InFlight(p)
          \/ Cardinality(InFlight(p)') = Cardinality(InFlight(p)) - 1
      BY <2>9, InFlightEnds DEF CallUnmapped, Return
    <3>2. consecutiveFailures'[p] = consecutiveFailures[p] /\ consecutiveFailures[p] \in Nat
      BY <2>9 DEF CallUnmapped, CircuitTypeOK
    <3> QED
      BY <3>1, <3>2, InFlightSize, ThresholdAssumption DEF FailuresBounded
  <2>10. ASSUME NEW w \in Workers, Disconnect(w)
         PROVE  consecutiveFailures'[p] + Cardinality(InFlight(p)')
                  <= (Threshold - 1) + Cardinality(Workers)
    BY <2>10, <2>a DEF Disconnect, InFlight, CandidateProvider
  <2> QED
    BY <2>1, <2>2, <2>3, <2>4, <2>5, <2>7, <2>8, <2>9, <2>10 DEF Next
<1> QED
  BY <1>1, <1>2, TypeCorrect, BreakerIsConsistent, PTL DEF Spec

------------------------------------------------------------------------------
(* The answer after the loop is dead code.                                 *)

\* No request falls out of the candidate loop, for any fallback order.
THEOREM LoopReturnsInside == Spec => []LoopNeverFallsThrough
<1>1. Init => LoopNeverFallsThrough
  BY DEF Init, LoopNeverFallsThrough
<1>2. TypeOK /\ LoopNeverFallsThrough /\ [Next]_vars => LoopNeverFallsThrough'
  <2> SUFFICES ASSUME TypeOK, LoopNeverFallsThrough, [Next]_vars, NEW v \in Workers
               PROVE  outcome'[v] # "exhausted"
    BY DEF LoopNeverFallsThrough
  <2>1. outcome[v] # "exhausted"
    BY DEF LoopNeverFallsThrough
  <2>2. ASSUME NEW w \in Workers, ~ IsLastCandidate(w), Continue(w)
        PROVE  outcome' = outcome
    <3>1. \E j \in Candidates(primary[w]) : j > index[w]
      <4>1. Candidates(primary[w]) \subseteq Nat /\ index[w] \in Nat
        BY CandidatesType DEF TypeOK
      <4> QED
        BY <2>2, <4>1 DEF IsLastCandidate
    <3> QED
      BY <2>2, <3>1 DEF Continue
  <2>3. ASSUME NEW w \in Workers, NEW r, Return(w, r), r # "exhausted"
        PROVE  outcome'[v] # "exhausted"
    BY <2>1, <2>3 DEF Return, TypeOK
  <2>4. CASE UNCHANGED vars \/ Tick
    BY <2>1, <2>4 DEF vars, Tick, requestVars
  <2>5. ASSUME NEW w \in Workers, NEW p \in Providers, StartRequest(w, p)
        PROVE  outcome'[v] # "exhausted"
    BY <2>1, <2>5 DEF StartRequest, TypeOK
  <2>6. ASSUME NEW w \in Workers, SkipCandidate(w)
        PROVE  outcome'[v] # "exhausted"
    BY <2>1, <2>2, <2>3, <2>6 DEF SkipCandidate
  <2>7. ASSUME NEW w \in Workers, NEW kind \in FailureKinds, CallFails(w, kind)
        PROVE  outcome'[v] # "exhausted"
    BY <2>1, <2>2, <2>3, <2>7 DEF CallFails
  <2>8. ASSUME NEW w \in Workers, CallSucceeds(w) \/ CallUnmapped(w)
        PROVE  outcome'[v] # "exhausted"
    BY <2>3, <2>8 DEF CallSucceeds, CallUnmapped
  <2>9. ASSUME NEW w \in Workers, StartCall(w) \/ Disconnect(w)
        PROVE  outcome'[v] # "exhausted"
    BY <2>1, <2>9 DEF StartCall, Disconnect
  <2> QED
    BY <2>4, <2>5, <2>6, <2>7, <2>8, <2>9 DEF Next
<1> QED
  BY <1>1, <1>2, TypeCorrect, PTL DEF Spec

------------------------------------------------------------------------------
(* Every step of the loop has a cause, and none leads to a provider that    *)
(* is not a candidate.                                                      *)

\* What lets a request go past a candidate.
Passed == {"open", "transient", "cut_off"}

\* No provider is met twice.
NoRepeats(t) == \A i, j \in 1 .. Len(t) : t[i][1] = t[j][1] => i = j

\* A candidate is met after all the candidates before it.
InOrder(p, t) ==
    \A i \in 1 .. Len(t) : \E c \in Candidates(p) :
        /\ t[i][1] = Slots(p)[c]
        /\ \A d \in Candidates(p) : d < c => \E j \in 1 .. (i - 1) : t[j][1] = Slots(p)[d]

\* The trail t has met exactly the candidates of p before position n, each
\* once and in order.
Walked(p, t, n) ==
    /\ NoRepeats(t)
    /\ InOrder(p, t)
    /\ \A i \in 1 .. Len(t) : \E c \in Candidates(p) : c < n /\ t[i][1] = Slots(p)[c]
    /\ \A c \in Candidates(p) : c < n => \E i \in 1 .. Len(t) : t[i][1] = Slots(p)[c]

\* What the loop returns when the last candidate it met ended so.
Answer(kind) ==
    IF kind = "open" THEN "circuit_open"
    ELSE IF kind \in FailureKinds THEN "provider_error" ELSE kind

\* FallbackJustified, with what the loop has done so far while it runs.
TrailInv(w) ==
    /\ \A i \in 1 .. (Len(trail[w]) - 1) : trail[w][i][2] \in Passed
    /\ pc[w] # "idle" =>
         /\ Walked(primary[w], trail[w], index[w])
         /\ \A i \in 1 .. Len(trail[w]) : trail[w][i][2] \in Passed
    /\ pc[w] = "idle" /\ trail[w] # <<>> =>
         /\ Walked(primary[w], trail[w], index[w] + 1)
         /\ outcome[w] = Answer(trail[w][Len(trail[w])][2])
         /\ trail[w][Len(trail[w])][2] \in Passed => IsLastCandidate(w)

\* Two candidates are two providers.
LEMMA CandidatesDiffer ==
    ASSUME NEW p \in Providers, NEW c \in Candidates(p), NEW d \in Candidates(p),
           Slots(p)[c] = Slots(p)[d]
    PROVE  c = d
<1>1. c \in Nat /\ d \in Nat /\ c >= 1 /\ d >= 1
  BY SlotsType DEF Candidates
<1>2. ~ (c < d)
  BY <1>1, SlotsType DEF Candidates
<1>3. ~ (d < c)
  BY <1>1, SlotsType DEF Candidates
<1> QED BY <1>1, <1>2, <1>3

LEMMA Appended ==
    ASSUME NEW S, NEW t \in Seq(S), NEW e \in S
    PROVE  /\ Append(t, e) \in Seq(S)
           /\ Len(t) \in Nat
           /\ Len(Append(t, e)) = Len(t) + 1
           /\ \A i \in 1 .. Len(t) : Append(t, e)[i] = t[i]
           /\ Append(t, e)[Len(t) + 1] = e
OBVIOUS

\* Meeting the candidate at c extends the walk up to the next candidate.
LEMMA WalkOn ==
    ASSUME NEW p \in Providers, NEW t \in Seq(Providers \X TrailKinds),
           NEW c \in Candidates(p), NEW kind \in TrailKinds, Walked(p, t, c),
           NEW n \in Nat, c < n, \A k \in Candidates(p) : k > c => n <= k
    PROVE  Walked(p, Append(t, <<Slots(p)[c], kind>>), n)
<1> DEFINE e == <<Slots(p)[c], kind>>
           u == Append(t, e)
<1>0. e \in Providers \X TrailKinds /\ e[1] = Slots(p)[c] /\ c \in Nat
  BY CandidatesType
<1>1. /\ Len(t) \in Nat /\ Len(u) = Len(t) + 1
      /\ \A i \in 1 .. Len(t) : u[i] = t[i]
      /\ u[Len(t) + 1][1] = Slots(p)[c]
  <2> HIDE DEF e
  <2> QED BY <1>0, Appended
<1> HIDE DEF u
<1>2. \A i \in 1 .. Len(t) : t[i][1] # Slots(p)[c]
  <2> SUFFICES ASSUME NEW i \in 1 .. Len(t), t[i][1] = Slots(p)[c] PROVE FALSE
    OBVIOUS
  <2>1. PICK d \in Candidates(p) : d < c /\ t[i][1] = Slots(p)[d]
    BY DEF Walked
  <2>2. d = c
    BY <2>1, CandidatesDiffer
  <2> QED BY <1>0, <2>1, <2>2
<1>3. NoRepeats(u)
  <2> SUFFICES ASSUME NEW i \in 1 .. Len(u), NEW j \in 1 .. Len(u), u[i][1] = u[j][1]
               PROVE  i = j
    BY DEF NoRepeats
  <2>1. CASE i \in 1 .. Len(t) /\ j \in 1 .. Len(t)
    BY <1>1, <2>1 DEF Walked, NoRepeats
  <2>2. CASE i = Len(t) + 1 \/ j = Len(t) + 1
    <3>1. i \in 1 .. Len(t) \/ i = Len(t) + 1
      BY <1>1
    <3>2. j \in 1 .. Len(t) \/ j = Len(t) + 1
      BY <1>1
    <3> QED BY <1>1, <1>2, <2>2, <3>1, <3>2
  <2> QED BY <1>1, <2>1, <2>2
<1>4. ASSUME NEW i \in 1 .. Len(u)
      PROVE  \E d \in Candidates(p) : d < n /\ u[i][1] = Slots(p)[d]
  <2>1. CASE i \in 1 .. Len(t)
    <3>1. PICK d \in Candidates(p) : d < c /\ t[i][1] = Slots(p)[d]
      BY <2>1 DEF Walked
    <3>2. d \in Nat
      BY CandidatesType
    <3> QED BY <1>0, <1>1, <2>1, <3>1, <3>2
  <2>2. CASE i = Len(t) + 1
    BY <1>1, <2>2
  <2> QED BY <1>1, <2>1, <2>2
<1>5. ASSUME NEW d \in Candidates(p), d < n
      PROVE  \E i \in 1 .. Len(u) : u[i][1] = Slots(p)[d]
  <2>0. d \in Nat
    BY CandidatesType
  <2>1. CASE d < c
    <3>1. PICK i \in 1 .. Len(t) : t[i][1] = Slots(p)[d]
      BY <2>1 DEF Walked
    <3>2. i \in 1 .. Len(u)
      BY <1>1
    <3> QED BY <1>1, <3>1, <3>2
  <2>2. CASE d = c
    <3>1. Len(t) + 1 \in 1 .. Len(u)
      BY <1>1
    <3> QED BY <1>1, <2>2, <3>1
  <2> QED BY <1>0, <1>5, <2>0, <2>1, <2>2
<1>6. InOrder(p, u)
  <2> SUFFICES ASSUME NEW i \in 1 .. Len(u)
               PROVE  \E a \in Candidates(p) :
                        /\ u[i][1] = Slots(p)[a]
                        /\ \A d \in Candidates(p) : d < a =>
                             \E j \in 1 .. (i - 1) : u[j][1] = Slots(p)[d]
    BY DEF InOrder
  <2>1. CASE i \in 1 .. Len(t)
    <3>1. PICK a \in Candidates(p) :
            /\ t[i][1] = Slots(p)[a]
            /\ \A d \in Candidates(p) : d < a => \E j \in 1 .. (i - 1) : t[j][1] = Slots(p)[d]
      BY <2>1 DEF Walked, InOrder
    <3>2. u[i][1] = Slots(p)[a]
      BY <1>1, <2>1, <3>1
    <3>3. ASSUME NEW d \in Candidates(p), d < a
          PROVE  \E j \in 1 .. (i - 1) : u[j][1] = Slots(p)[d]
      <4>1. PICK j \in 1 .. (i - 1) : t[j][1] = Slots(p)[d]
        BY <3>1, <3>3
      <4>2. j \in 1 .. Len(t)
        BY <1>1, <2>1
      <4> QED BY <1>1, <4>1, <4>2
    <3> QED BY <3>2, <3>3
  <2>2. CASE i = Len(t) + 1
    <3>1. u[i][1] = Slots(p)[c]
      BY <1>1, <2>2
    <3>2. ASSUME NEW d \in Candidates(p), d < c
          PROVE  \E j \in 1 .. (i - 1) : u[j][1] = Slots(p)[d]
      <4>1. PICK j \in 1 .. Len(t) : t[j][1] = Slots(p)[d]
        BY <3>2 DEF Walked
      <4>2. j \in 1 .. (i - 1)
        BY <1>1, <2>2
      <4> QED BY <1>1, <4>1, <4>2
    <3> QED BY <3>1, <3>2
  <2> QED BY <1>1, <2>1, <2>2
<1> QED BY <1>3, <1>4, <1>5, <1>6 DEF Walked, u

\* A request that is not touched keeps its trail.
LEMMA TrailUntouched ==
    ASSUME NEW w \in Workers, TrailInv(w),
           pc'[w] = pc[w] \/ (pc[w] # "idle" /\ pc'[w] # "idle"),
           primary'[w] = primary[w], index'[w] = index[w],
           trail'[w] = trail[w], outcome'[w] = outcome[w]
    PROVE  TrailInv(w)'
BY DEF TrailInv, IsLastCandidate

\* The candidate a request is at is logged.
LEMMA TrailLogged ==
    ASSUME TypeOK, NEW w \in Workers, NEW kind \in TrailKinds, Log(w, kind),
           pc[w] # "idle", TrailInv(w)
    PROVE  /\ trail'[w] \in Seq(Providers \X TrailKinds)
           /\ Len(trail[w]) \in Nat
           /\ Len(trail'[w]) = Len(trail[w]) + 1
           /\ \A i \in 1 .. Len(trail[w]) : trail'[w][i][2] \in Passed
           /\ trail'[w][Len(trail'[w])][2] = kind
           /\ \A n \in Nat : index[w] < n /\ (\A k \in Candidates(primary[w]) : k > index[w] => n <= k)
                 => Walked(primary[w], trail'[w], n)
<1> DEFINE e == <<CandidateProvider(w), kind>>
<1>1. e \in Providers \X TrailKinds /\ e[2] = kind
  BY CandidateProviderType
<1>2. trail'[w] = Append(trail[w], e) /\ trail[w] \in Seq(Providers \X TrailKinds)
  BY DEF Log, TypeOK
<1>3. \A i \in 1 .. Len(trail[w]) : trail[w][i][2] \in Passed
  BY DEF TrailInv
<1>4. ASSUME NEW n \in Nat, index[w] < n, \A k \in Candidates(primary[w]) : k > index[w] => n <= k
      PROVE  Walked(primary[w], trail'[w], n)
  <2>1. /\ primary[w] \in Providers /\ index[w] \in Candidates(primary[w])
        /\ Walked(primary[w], trail[w], index[w])
        /\ e = <<Slots(primary[w])[index[w]], kind>>
    BY DEF TypeOK, TrailInv, CandidateProvider
  <2> HIDE DEF e
  <2> QED BY <1>2, <1>4, <2>1, WalkOn
<1> HIDE DEF e
<1>5. /\ trail'[w] \in Seq(Providers \X TrailKinds)
      /\ Len(trail[w]) \in Nat /\ Len(trail'[w]) = Len(trail[w]) + 1
      /\ \A i \in 1 .. Len(trail[w]) : trail'[w][i] = trail[w][i]
      /\ trail'[w][Len(trail[w]) + 1] = e
  BY <1>1, <1>2, Appended
<1> QED BY <1>1, <1>3, <1>4, <1>5

\* The loop returns the answer of the candidate it logged.
LEMMA TrailReturned ==
    ASSUME TypeOK, NEW w \in Workers, NEW kind \in TrailKinds, Log(w, kind),
           pc[w] # "idle", TrailInv(w), NEW r, Return(w, r), UNCHANGED primary,
           r = Answer(kind), kind \in Passed => IsLastCandidate(w)
    PROVE  TrailInv(w)'
<1>1. /\ pc'[w] = "idle" /\ outcome'[w] = r /\ index' = index
      /\ index[w] \in Nat /\ Candidates(primary[w]) \subseteq Nat
  BY CandidatesType DEF Return, TypeOK
<1>2. Walked(primary[w], trail'[w], index[w] + 1)
  BY <1>1, TrailLogged
<1>3. \A i \in 1 .. (Len(trail'[w]) - 1) : trail'[w][i][2] \in Passed
  BY TrailLogged
<1>4. trail'[w][Len(trail'[w])][2] = kind
  BY TrailLogged
<1>5. IsLastCandidate(w)' <=> IsLastCandidate(w)
  BY <1>1 DEF IsLastCandidate
<1> QED BY <1>1, <1>2, <1>3, <1>4, <1>5 DEF TrailInv

\* The loop goes on past a candidate it may go past.
LEMMA TrailContinued ==
    ASSUME TypeOK, NEW w \in Workers, NEW kind \in TrailKinds \cap Passed, Log(w, kind),
           pc[w] # "idle", TrailInv(w), ~ IsLastCandidate(w), Continue(w), UNCHANGED primary
    PROVE  TrailInv(w)'
<1>1. Candidates(primary[w]) \subseteq Nat /\ index[w] \in Nat
  BY CandidatesType DEF TypeOK
<1>2. \E j \in Candidates(primary[w]) : j > index[w]
  BY <1>1 DEF IsLastCandidate
<1>3. PICK n \in Candidates(primary[w]) :
        /\ n > index[w]
        /\ \A k \in Candidates(primary[w]) : k > index[w] => n <= k
        /\ index' = [index EXCEPT ![w] = n]
  BY <1>2 DEF Continue
<1>4. pc'[w] = "checking" /\ index'[w] = n /\ n \in Nat
  BY <1>1, <1>2, <1>3 DEF Continue, TypeOK
<1>5. Walked(primary[w], trail'[w], n)
  BY <1>1, <1>3, <1>4, TrailLogged
<1>6. \A i \in 1 .. Len(trail'[w]) : trail'[w][i][2] \in Passed
  <2> SUFFICES ASSUME NEW i \in 1 .. Len(trail'[w]) PROVE trail'[w][i][2] \in Passed
    OBVIOUS
  <2>1. i \in 1 .. Len(trail[w]) \/ i = Len(trail'[w])
    BY TrailLogged
  <2> QED BY <2>1, TrailLogged
<1>7. \A i \in 1 .. (Len(trail'[w]) - 1) : trail'[w][i][2] \in Passed
  <2>1. Len(trail[w]) \in Nat /\ Len(trail'[w]) = Len(trail[w]) + 1
    BY TrailLogged
  <2> QED BY <1>6, <2>1
<1> QED BY <1>4, <1>5, <1>6, <1>7 DEF TrailInv

LEMMA TrailHolds == Spec => [](\A w \in Workers : TrailInv(w))
<1>1. Init => \A w \in Workers : TrailInv(w)
  <2> SUFFICES ASSUME Init, NEW w \in Workers PROVE TrailInv(w)
    OBVIOUS
  <2>1. trail[w] = <<>> /\ pc[w] = "idle"
    BY DEF Init
  <2> QED BY <2>1 DEF TrailInv
<1>2. TypeOK /\ (\A w \in Workers : TrailInv(w)) /\ [Next]_vars => (\A w \in Workers : TrailInv(w))'
  <2> SUFFICES ASSUME TypeOK, \A w \in Workers : TrailInv(w), [Next]_vars,
                      NEW v \in Workers
               PROVE  TrailInv(v)'
    OBVIOUS
  <2>0. TrailInv(v)
    OBVIOUS
  <2>1. CASE UNCHANGED vars \/ Tick
    BY <2>0, <2>1, TrailUntouched DEF vars, Tick, requestVars
  <2>2. ASSUME NEW w \in Workers, w # v,
               \/ \E p \in Providers : StartRequest(w, p)
               \/ SkipCandidate(w) \/ StartCall(w) \/ CallSucceeds(w)
               \/ \E kind \in FailureKinds : CallFails(w, kind)
               \/ CallUnmapped(w) \/ Disconnect(w)
        PROVE  TrailInv(v)'
    <3>1. /\ pc'[v] = pc[v] /\ primary'[v] = primary[v] /\ index'[v] = index[v]
          /\ trail'[v] = trail[v] /\ outcome'[v] = outcome[v]
      BY <2>2 DEF TypeOK, StartRequest, SkipCandidate, StartCall, CallSucceeds, CallFails,
                  CallUnmapped, Disconnect, Log, Return, Continue
    <3> QED BY <2>0, <3>1, TrailUntouched
  <2>3. ASSUME NEW p \in Providers, StartRequest(v, p)
        PROVE  TrailInv(v)'
    <3>1. /\ pc'[v] = "checking" /\ primary'[v] = p /\ index'[v] = 1 /\ trail'[v] = <<>>
      BY <2>3 DEF StartRequest, TypeOK
    <3>2. \A c \in Candidates(p) : ~ (c < 1)
      BY SlotsType DEF Candidates
    <3> QED BY <3>1, <3>2 DEF TrailInv, Walked, NoRepeats, InOrder
  <2>4. CASE SkipCandidate(v)
    <3>1. /\ pc[v] # "idle" /\ Log(v, "open") /\ UNCHANGED primary
          /\ "open" \in TrailKinds \cap Passed /\ Answer("open") = "circuit_open"
      BY <2>4 DEF SkipCandidate, TrailKinds, Passed, Answer
    <3>2. CASE IsLastCandidate(v) /\ Return(v, "circuit_open")
      BY <2>0, <3>1, <3>2, TrailReturned
    <3>3. CASE ~ IsLastCandidate(v) /\ Continue(v)
      BY <2>0, <3>1, <3>3, TrailContinued
    <3> QED BY <2>4, <3>2, <3>3 DEF SkipCandidate
  <2>5. CASE StartCall(v)
    <3>1. /\ pc[v] # "idle" /\ pc'[v] # "idle"
          /\ UNCHANGED <<primary, index, trail, outcome>>
      BY <2>5 DEF StartCall, TypeOK
    <3> QED BY <2>0, <3>1, TrailUntouched
  <2>6. CASE CallSucceeds(v)
    <3>1. /\ pc[v] # "idle" /\ Log(v, "ok") /\ UNCHANGED primary /\ Return(v, "ok")
          /\ "ok" \in TrailKinds \ Passed /\ Answer("ok") = "ok"
      BY <2>6 DEF CallSucceeds, TrailKinds, Passed, Answer, FailureKinds
    <3> QED BY <2>0, <3>1, TrailReturned
  <2>7. ASSUME NEW kind \in FailureKinds, CallFails(v, kind)
        PROVE  TrailInv(v)'
    <3>1. /\ pc[v] # "idle" /\ Log(v, kind) /\ UNCHANGED primary
          /\ kind \in TrailKinds /\ Answer(kind) = "provider_error"
          /\ kind # "permanent" <=> kind \in TrailKinds \cap Passed
      BY <2>7 DEF CallFails, TrailKinds, FailureKinds, Passed, Answer
    <3>2. CASE (kind = "permanent" \/ IsLastCandidate(v)) /\ Return(v, "provider_error")
      BY <2>0, <3>1, <3>2, TrailReturned
    <3>3. CASE kind # "permanent" /\ ~ IsLastCandidate(v) /\ Continue(v)
      BY <2>0, <3>1, <3>3, TrailContinued
    <3> QED BY <2>7, <3>2, <3>3 DEF CallFails
  <2>8. CASE CallUnmapped(v)
    <3>1. /\ pc[v] # "idle" /\ Log(v, "unmapped") /\ UNCHANGED primary /\ Return(v, "unmapped")
          /\ "unmapped" \in TrailKinds \ Passed /\ Answer("unmapped") = "unmapped"
      BY <2>8 DEF CallUnmapped, TrailKinds, Passed, Answer, FailureKinds
    <3> QED BY <2>0, <3>1, TrailReturned
  <2>9. CASE Disconnect(v)
    BY <2>0, <2>9, TrailUntouched DEF Disconnect
  <2> QED
    BY <2>1, <2>2, <2>3, <2>4, <2>5, <2>6, <2>7, <2>8, <2>9 DEF Next
<1> QED BY <1>1, <1>2, TypeCorrect, PTL DEF Spec

\* A request meets each of its candidates at most once, none before the ones
\* that precede it in the candidate list, goes past one only when its breaker is
\* open or it failed transiently, returns the answer of the last one it met, and
\* gives up on an open breaker or a transient failure only after it has met
\* every candidate (generateWithFallback, streamWithFallback).
THEOREM FallbackIsJustified == Spec => []FallbackJustified
<1>1. TypeOK /\ (\A w \in Workers : TrailInv(w)) => FallbackJustified
  <2> SUFFICES ASSUME TypeOK, NEW w \in Workers, TrailInv(w)
               PROVE  LET t == trail[w]
                          p == primary[w]
                      IN
                      /\ NoRepeats(t)
                      /\ InOrder(p, t)
                      /\ \A i \in 1 .. (Len(t) - 1) : t[i][2] \in Passed
                      /\ pc[w] = "idle" /\ t # <<>> =>
                           LET last == t[Len(t)][2] IN
                           /\ outcome[w] = "ok" <=> last = "ok"
                           /\ outcome[w] = "unmapped" <=> last = "unmapped"
                           /\ outcome[w] = "circuit_open" <=> last = "open"
                           /\ outcome[w] = "provider_error" <=> last \in FailureKinds
                           /\ last \in Passed =>
                                \A c \in Candidates(p) : \E i \in 1 .. Len(t) : t[i][1] = Slots(p)[c]
    BY DEF FallbackJustified, NoRepeats, InOrder, Passed
  <2>1. NoRepeats(trail[w]) /\ InOrder(primary[w], trail[w])
    <3>1. CASE trail[w] = <<>>
      BY <3>1 DEF NoRepeats, InOrder
    <3>2. CASE trail[w] # <<>>
      BY <3>2 DEF TrailInv, Walked
    <3> QED BY <3>1, <3>2
  <2>2. ASSUME pc[w] = "idle", trail[w] # <<>>, trail[w][Len(trail[w])][2] \in Passed
        PROVE  \A c \in Candidates(primary[w]) : \E i \in 1 .. Len(trail[w]) :
                 trail[w][i][1] = Slots(primary[w])[c]
    <3>1. Walked(primary[w], trail[w], index[w] + 1) /\ IsLastCandidate(w)
      BY <2>2 DEF TrailInv
    <3>2. \A c \in Candidates(primary[w]) : c < index[w] + 1
      <4>1. Candidates(primary[w]) \subseteq Nat /\ index[w] \in Nat
        BY CandidatesType DEF TypeOK
      <4> QED BY <3>1, <4>1 DEF IsLastCandidate
    <3> QED BY <3>1, <3>2, Zenon DEF Walked
  <2>3. \A i \in 1 .. (Len(trail[w]) - 1) : trail[w][i][2] \in Passed
    BY DEF TrailInv
  <2>4. ASSUME pc[w] = "idle", trail[w] # <<>>
        PROVE  LET last == trail[w][Len(trail[w])][2] IN
               /\ outcome[w] = "ok" <=> last = "ok"
               /\ outcome[w] = "unmapped" <=> last = "unmapped"
               /\ outcome[w] = "circuit_open" <=> last = "open"
               /\ outcome[w] = "provider_error" <=> last \in FailureKinds
    <3>1. outcome[w] = Answer(trail[w][Len(trail[w])][2])
      BY <2>4, Zenon DEF TrailInv
    <3>2. trail[w][Len(trail[w])] \in Providers \X TrailKinds
      <4>1. trail[w] \in Seq(Providers \X TrailKinds)
        BY DEF TypeOK
      <4> QED BY <2>4, <4>1
    <3>3. trail[w][Len(trail[w])][2] \in TrailKinds
      BY <3>2
    <3> QED BY <3>1, <3>3 DEF Answer, TrailKinds, FailureKinds
  <2> QED BY <2>1, <2>2, <2>3, <2>4, Zenon
<1> QED BY <1>1, TrailHolds, TypeCorrect, PTL

\* The conversation of a session whose provider opts out of cross-provider
\* fallback goes to no other provider (crossProviderDisabled).
THEOREM NoCrossProviderLeaks == Spec => []NoCrossProviderLeak
<1>1. TypeOK /\ (\A w \in Workers : TrailInv(w)) => NoCrossProviderLeak
  <2> SUFFICES ASSUME TypeOK, NEW w \in Workers, TrailInv(w),
                      primary[w] \in CrossProviderDisabled, NEW i \in 1 .. Len(trail[w])
               PROVE  trail[w][i][1] = primary[w]
    BY DEF NoCrossProviderLeak
  <2>1. trail[w] # <<>>
    OBVIOUS
  <2>2. PICK c \in Candidates(primary[w]) : trail[w][i][1] = Slots(primary[w])[c]
    BY <2>1 DEF TrailInv, Walked
  <2>3. Slots(primary[w]) = <<primary[w]>>
    BY DEF Slots
  <2>4. c = 1
    BY <2>3 DEF Candidates
  <2> QED BY <2>2, <2>3, <2>4
<1> QED BY <1>1, TrailHolds, TypeCorrect, PTL
==============================================================================
