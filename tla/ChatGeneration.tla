--------------------------- MODULE ChatGeneration ----------------------------
(***************************************************************************)
(* Provider execution of a chat turn: the candidate loop shared by         *)
(* generateWithFallback and streamWithFallback                             *)
(* (internal/chat/service_fallback_helpers.go) over the candidates of      *)
(* internal/chat/provider_fallback.go, against the circuit breaker of      *)
(* module ProviderCircuit.                                                 *)
(*                                                                         *)
(* Every worker is the goroutine of one HTTP or MCP request at a time; the *)
(* requests of a ChatService share its breaker and nothing else.  A        *)
(* provider call is two steps, because other requests run while it is in   *)
(* flight: StartCall, then CallSucceeds, CallFails or CallUnmapped.        *)
(***************************************************************************)
EXTENDS ProviderCircuit, Sequences, FiniteSets

CONSTANTS
    Workers,                \* concurrent requests
    FallbackOrder,          \* fallbackOrder, repetitions allowed
    CrossProviderDisabled   \* disableCrossProviderFor

ASSUME WorkersAssumption == IsFiniteSet(Workers)
ASSUME FallbackOrderAssumption == FallbackOrder \in Seq(Providers)
ASSUME CrossProviderAssumption == CrossProviderDisabled \subseteq Providers

VARIABLES
    pc,         \* "idle" | "checking" (top of the loop) | "calling"
    primary,    \* prepared.Session.Provider
    index,      \* position of the current candidate in Slots(primary)
    cancelled,  \* the client is gone: the request's context is cancelled
    trail,      \* history: <<provider, what happened>> of this request
    outcome     \* what the loop returned

requestVars == <<pc, primary, index, cancelled, trail, outcome>>
vars == <<consecutiveFailures, openFor, pc, primary, index, cancelled, trail, outcome>>

------------------------------------------------------------------------------
(* Candidates.                                                             *)

\* Mutant of Slots: the opt-out is not consulted.
SlotsIgnoringOptOut(p) == <<p>> \o FallbackOrder

\* The providers Candidates walks for a session: its own, then the fallback
\* order unless the session's provider opts out of cross-provider fallback.
Slots(p) == IF p \in CrossProviderDisabled THEN <<p>> ELSE <<p>> \o FallbackOrder

\* Mutant of Candidates: providers already seen are kept.
CandidatesWithRepeats(p) == 1 .. Len(Slots(p))

\* The positions it keeps: the first occurrence of each provider ("seen").
Candidates(p) ==
    {i \in 1 .. Len(Slots(p)) : \A j \in 1 .. (i - 1) : Slots(p)[j] # Slots(p)[i]}

CandidateProvider(w) == Slots(primary[w])[index[w]]

\* isLastFallbackCandidate
IsLastCandidate(w) == \A j \in Candidates(primary[w]) : j <= index[w]

------------------------------------------------------------------------------

\* How a provider call fails: an error of the request (auth, invalid request),
\* an upstream error, a call cut off because the request's context was
\* cancelled.
FailureKinds == {"permanent", "transient", "cut_off"}

\* What the adapters make of it.  A cancelled call comes back from Do as an
\* error like any other and becomes a ProviderAPIError, a transient code.
ProviderErrorKind(kind) == IF kind = "cut_off" THEN "transient" ELSE kind

TrailKinds == FailureKinds \cup {"ok", "open", "unmapped"}
Outcomes == {"none", "ok", "circuit_open", "provider_error", "unmapped", "exhausted"}

Init ==
    /\ CircuitInit
    /\ pc = [w \in Workers |-> "idle"]
    /\ primary \in [Workers -> Providers]
    /\ index = [w \in Workers |-> 1]
    /\ cancelled = [w \in Workers |-> FALSE]
    /\ trail = [w \in Workers |-> <<>>]
    /\ outcome = [w \in Workers |-> "none"]

\* A prepared message reaches the loop: a session with provider p.
StartRequest(w, p) ==
    /\ pc[w] = "idle"
    /\ pc' = [pc EXCEPT ![w] = "checking"]
    /\ primary' = [primary EXCEPT ![w] = p]
    /\ index' = [index EXCEPT ![w] = 1]
    /\ trail' = [trail EXCEPT ![w] = <<>>]
    /\ outcome' = [outcome EXCEPT ![w] = "none"]
    /\ UNCHANGED <<consecutiveFailures, openFor, cancelled>>

Return(w, result) ==
    /\ pc' = [pc EXCEPT ![w] = "idle"]
    /\ outcome' = [outcome EXCEPT ![w] = result]
    /\ cancelled' = [cancelled EXCEPT ![w] = FALSE]
    /\ UNCHANGED index

\* "continue": on to the next candidate, or out of the loop to the trailing
\* "provider execution failed" when there is none.
Continue(w) ==
    IF \E j \in Candidates(primary[w]) : j > index[w]
    THEN /\ pc' = [pc EXCEPT ![w] = "checking"]
         /\ \E j \in Candidates(primary[w]) :
              /\ j > index[w]
              /\ \A k \in Candidates(primary[w]) : k > index[w] => j <= k
              /\ index' = [index EXCEPT ![w] = j]
         /\ UNCHANGED <<cancelled, outcome>>
    ELSE Return(w, "exhausted")

Log(w, kind) ==
    trail' = [trail EXCEPT ![w] = Append(@, <<CandidateProvider(w), kind>>)]

\* Mutant of SkipCandidate: the refusal is reported to the breaker, whose
\* transient codes include provider_circuit_open.
SkipCandidateReported(w) ==
    /\ pc[w] = "checking"
    /\ IsOpen(CandidateProvider(w))
    /\ openFor' = [openFor EXCEPT ![CandidateProvider(w)] = Cooldown]
    /\ Log(w, "open")
    /\ IF IsLastCandidate(w) THEN Return(w, "circuit_open") ELSE Continue(w)
    /\ UNCHANGED <<primary, consecutiveFailures>>

\* checkCircuitForCandidate when the breaker refuses: the last candidate ends
\* the request with provider_circuit_open, any other is skipped.  The refusal
\* is counted as a metric but not reported to the breaker.
SkipCandidate(w) ==
    /\ pc[w] = "checking"
    /\ AllowFalse(CandidateProvider(w))
    /\ Log(w, "open")
    /\ IF IsLastCandidate(w) THEN Return(w, "circuit_open") ELSE Continue(w)
    /\ UNCHANGED primary

\* checkCircuitForCandidate when it admits, then resolveCandidateAdapter.
StartCall(w) ==
    /\ pc[w] = "checking"
    /\ AllowTrue(CandidateProvider(w))
    /\ pc' = [pc EXCEPT ![w] = "calling"]
    /\ UNCHANGED <<primary, index, cancelled, trail, outcome>>

\* adapter.Generate returned nil: recordCandidateSuccess.  A call that was
\* answered before its client left counts as one that ended before Disconnect.
CallSucceeds(w) ==
    /\ pc[w] = "calling"
    /\ ~cancelled[w]
    /\ RecordResult(CandidateProvider(w), "ok")
    /\ Log(w, "ok")
    /\ Return(w, "ok")
    /\ UNCHANGED primary

\* adapter.Generate returned a provider error: mapCandidateError and
\* recordCandidateFailure, which stops on a permanent error or at the last
\* candidate.
CallFails(w, kind) ==
    /\ pc[w] = "calling"
    /\ kind = "cut_off" => cancelled[w]
    /\ RecordResult(CandidateProvider(w), ProviderErrorKind(kind))
    /\ Log(w, kind)
    /\ IF kind = "permanent" \/ IsLastCandidate(w)
       THEN Return(w, "provider_error")
       ELSE Continue(w)
    /\ UNCHANGED primary

\* An error MapProviderError has no mapping for, or no adapter registered for
\* the provider: returned as it is, the breaker is not told.
CallUnmapped(w) ==
    /\ pc[w] = "calling"
    /\ Log(w, "unmapped")
    /\ Return(w, "unmapped")
    /\ UNCHANGED <<primary, consecutiveFailures, openFor>>

\* The client goes away while its request runs.
Disconnect(w) ==
    /\ pc[w] # "idle"
    /\ ~cancelled[w]
    /\ cancelled' = [cancelled EXCEPT ![w] = TRUE]
    /\ UNCHANGED <<consecutiveFailures, openFor, pc, primary, index, trail, outcome>>

Tick == CircuitTick /\ UNCHANGED requestVars

Next ==
    \/ Tick
    \/ \E w \in Workers :
        \/ \E p \in Providers : StartRequest(w, p)
        \/ SkipCandidate(w)
        \/ StartCall(w)
        \/ CallSucceeds(w)
        \/ \E kind \in FailureKinds : CallFails(w, kind)
        \/ CallUnmapped(w)
        \/ Disconnect(w)

Spec == Init /\ [][Next]_vars

(***************************************************************************)
(* Time passes.  Nothing is assumed of provider calls (http.DefaultClient  *)
(* has no timeout), of clients sending requests, or of the scheduler.      *)
(***************************************************************************)
FairSpec == Spec /\ WF_vars(Tick)
------------------------------------------------------------------------------
(* Properties.                                                             *)

TypeOK ==
    /\ CircuitTypeOK
    /\ pc \in [Workers -> {"idle", "checking", "calling"}]
    /\ primary \in [Workers -> Providers]
    /\ index \in [Workers -> Nat]
    /\ \A w \in Workers : index[w] \in Candidates(primary[w])
    /\ cancelled \in [Workers -> BOOLEAN]
    /\ trail \in [Workers -> Seq(Providers \X TrailKinds)]
    /\ outcome \in [Workers -> Outcomes]

\* The calls in flight to a provider.
InFlight(p) == {w \in Workers : pc[w] = "calling" /\ CandidateProvider(w) = p}

\* The failure count has a ceiling: Threshold - 1 before the breaker opens,
\* plus the calls that were already in flight then.  No call is admitted while
\* it is open, so the count cannot creep up over repeated cooldowns and each
\* opening is extended by at most as many late failures as there were calls in
\* flight.
FailuresBounded ==
    \A p \in Providers :
        consecutiveFailures[p] + Cardinality(InFlight(p)) <= (Threshold - 1) + Cardinality(Workers)

\* The loop always ends inside an iteration: the "provider execution failed"
\* answer after it (lines 59-63 and 110-114) is dead code, because the last
\* candidate returns whether it is refused, fails or succeeds.
LoopNeverFallsThrough == \A w \in Workers : outcome[w] # "exhausted"

\* A request meets each provider at most once, and meets one only after all the
\* candidates before it: none is skipped and none is tried out of turn.  It goes
\* past a candidate only because its breaker was open or its call failed
\* transiently.  The answer it returns is the one the last candidate it met
\* gave, and it gives up on an open breaker or a transient failure only after
\* it has met every candidate.
FallbackJustified ==
    \A w \in Workers :
        LET t == trail[w]
            p == primary[w]
        IN
        /\ \A i, j \in 1 .. Len(t) : t[i][1] = t[j][1] => i = j
        /\ \A i \in 1 .. Len(t) : \E c \in Candidates(p) :
             /\ t[i][1] = Slots(p)[c]
             /\ \A d \in Candidates(p) : d < c => \E j \in 1 .. (i - 1) : t[j][1] = Slots(p)[d]
        /\ \A i \in 1 .. (Len(t) - 1) : t[i][2] \in {"open", "transient", "cut_off"}
        /\ pc[w] = "idle" /\ t # <<>> =>
             LET last == t[Len(t)][2] IN
             /\ outcome[w] = "ok" <=> last = "ok"
             /\ outcome[w] = "unmapped" <=> last = "unmapped"
             /\ outcome[w] = "circuit_open" <=> last = "open"
             /\ outcome[w] = "provider_error" <=> last \in FailureKinds
             /\ last \in {"open", "transient", "cut_off"} =>
                  \A c \in Candidates(p) : \E i \in 1 .. Len(t) : t[i][1] = Slots(p)[c]

\* A session of a provider that opts out of cross-provider fallback never
\* sends its conversation to another provider.
NoCrossProviderLeak ==
    \A w \in Workers : primary[w] \in CrossProviderDisabled =>
        \A i \in 1 .. Len(trail[w]) : trail[w][i][1] = primary[w]

\* An open breaker admits calls again, whatever requests keep arriving and
\* whether or not the calls in flight ever come back.
CircuitReadmits == \A p \in Providers : IsOpen(p) ~> ~IsOpen(p)
==============================================================================
