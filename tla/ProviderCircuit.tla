--------------------------- MODULE ProviderCircuit ---------------------------
(***************************************************************************)
(* The in-process circuit breaker of internal/chat/provider_circuit.go.    *)
(*                                                                         *)
(* SimpleProviderCircuitPolicy keeps, per provider, the number of          *)
(* consecutive transient failures and the instant until which calls are    *)
(* refused (openUntil, the zero time when the breaker is closed).  Both    *)
(* methods hold the policy's mutex from the first read to the last write,  *)
(* so each is one atomic step.                                             *)
(*                                                                         *)
(* Time is relative: openFor[p] is how many clock ticks remain until       *)
(* openUntil.  NoTime stands for the zero time, 0 for an instant that has  *)
(* passed, a positive number for an instant in the future.  Only the       *)
(* comparison of openUntil with the current time matters to the code, so   *)
(* nothing is lost and the clock needs no bound.                           *)
(***************************************************************************)
EXTENDS Integers

CONSTANTS
    Providers,      \* models.ChatProvider values
    Threshold,      \* failureThreshold (3 in production)
    Cooldown        \* cooldown, in clock ticks (30s in production)

ASSUME ThresholdAssumption == Threshold \in Nat \ {0}
ASSUME CooldownAssumption == Cooldown \in Nat \ {0}

VARIABLES
    consecutiveFailures,    \* [Providers -> Nat]
    openFor                 \* [Providers -> {NoTime} \cup 0..Cooldown]

circuitVars == <<consecutiveFailures, openFor>>

NoTime == -1

\* byProvider is an empty map: every provider reads as the zero state.
CircuitInit ==
    /\ consecutiveFailures = [p \in Providers |-> 0]
    /\ openFor = [p \in Providers |-> NoTime]

\* state.openUntil.After(now)
IsOpen(p) == openFor[p] > 0

Closed(p) ==
    /\ consecutiveFailures' = [consecutiveFailures EXCEPT ![p] = 0]
    /\ openFor' = [openFor EXCEPT ![p] = NoTime]

\* Mutant of AllowTrue: expiry clears the deadline but not the count.
AllowTrueKeepsCount(p) ==
    /\ ~IsOpen(p)
    /\ openFor' = [openFor EXCEPT ![p] = NoTime]
    /\ UNCHANGED consecutiveFailures

\* Allow(p) returning true: an expired breaker is reset, without a half-open
\* probe, and a closed one is left alone.
AllowTrue(p) ==
    /\ ~IsOpen(p)
    /\ IF openFor[p] = NoTime THEN UNCHANGED circuitVars ELSE Closed(p)

\* Allow(p) returning false.
AllowFalse(p) ==
    /\ IsOpen(p)
    /\ UNCHANGED circuitVars

\* Mutant of RecordResult: a late success or permanent failure clears the
\* count but leaves the deadline.
RecordResultKeepsDeadline(p, kind) ==
    IF kind # "transient"
    THEN /\ consecutiveFailures' = [consecutiveFailures EXCEPT ![p] = 0]
         /\ UNCHANGED openFor
    ELSE /\ consecutiveFailures' = [consecutiveFailures EXCEPT ![p] = @ + 1]
         /\ openFor' = IF consecutiveFailures[p] + 1 >= Threshold
                       THEN [openFor EXCEPT ![p] = Cooldown]
                       ELSE openFor

\* RecordResult(p, errorCode), where the error code is absent ("ok"), outside
\* transientProviderErrorCodes ("permanent") or in it ("transient").  Note what it does not look at: whether the
\* breaker is open.  A late success closes an open breaker, a late transient
\* failure pushes openUntil further out.
RecordResult(p, kind) ==
    IF kind # "transient"
    THEN Closed(p)
    ELSE /\ consecutiveFailures' = [consecutiveFailures EXCEPT ![p] = @ + 1]
         /\ openFor' = IF consecutiveFailures[p] + 1 >= Threshold
                       THEN [openFor EXCEPT ![p] = Cooldown]
                       ELSE openFor

\* One tick of the clock nowUTC reads.
CircuitTick ==
    /\ \E p \in Providers : IsOpen(p)
    /\ openFor' = [p \in Providers |-> IF IsOpen(p) THEN openFor[p] - 1 ELSE openFor[p]]
    /\ UNCHANGED consecutiveFailures

CircuitTypeOK ==
    /\ consecutiveFailures \in [Providers -> Nat]
    /\ openFor \in [Providers -> {NoTime} \cup (0 .. Cooldown)]

\* The two fields of circuitProviderState never disagree: openUntil is set
\* exactly while the failure count is at or above the threshold.  RecordResult
\* and Allow each write both fields; forgetting one of them in any branch
\* leaves a breaker that opens on the first failure or never opens again.
BreakerConsistent ==
    \A p \in Providers : (openFor[p] # NoTime) <=> (consecutiveFailures[p] >= Threshold)
==============================================================================
