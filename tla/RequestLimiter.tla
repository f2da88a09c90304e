---------------------------- MODULE RequestLimiter ----------------------------
(***************************************************************************)
(* The RequestRateLimiter in front of the MCP transport                    *)
(* (internal/auth/request_limiter.go, enforceTransportRateLimit of         *)
(* internal/api/mcp_stream.go), for one key.  Every request reads the      *)
(* clock and then consumes one event of the shared row, or, when the store *)
(* fails, of the state of its own instance.                                *)
(***************************************************************************)
EXTENDS RateLimitWindow

CONSTANTS
    Requests,       \* requests in flight at the same time
    MaxRequests,
    BlockDuration   \* 0: blocked until the window ends

ASSUME LimiterAssumption == MaxRequests \in Nat \ {0} /\ BlockDuration \in Nat

VARIABLES
    request,        \* requests: instance and the clock they read
    admitted        \* history: how many requests the row admitted in its window

limiterVars == <<row, local, request, now, outages, admitted>>

\* blockedUntilFor
BlockedUntilFor(startedAt, at) ==
    IF BlockDuration > 0 THEN at + BlockDuration ELSE startedAt + Window

\* Mutant of Allows: the count is compared before this request is added.
AllowsOneMore(state, at) ==
    LET normalized == NormalizeState(state, at, TRUE)
    IN  ~ IsBlocked(normalized, at) /\ normalized.count <= MaxRequests

\* The verdict of consumeDistributed and consumeLocal.
Allows(state, at) ==
    LET normalized == NormalizeState(state, at, TRUE)
    IN  ~ IsBlocked(normalized, at) /\ normalized.count + 1 <= MaxRequests

\* Mutant of Consumed: a refused request extends the block.
ConsumedExtends(state, at) ==
    LET normalized == NormalizeState(state, at, TRUE)
        count == normalized.count + 1
    IN  IF IsBlocked(normalized, at) \/ count > MaxRequests
        THEN [normalized EXCEPT !.count = MaxRequests + 1,
                !.blockedUntil = BlockedUntilFor(normalized.startedAt, at)]
        ELSE [normalized EXCEPT !.count = count]

\* Mutant of Consumed: the block starts with the last request admitted.
ConsumedBlocksEarly(state, at) ==
    LET normalized == NormalizeState(state, at, TRUE)
        count == normalized.count + 1
    IN  IF IsBlocked(normalized, at)
        THEN normalized
        ELSE [normalized EXCEPT !.count = count,
                !.blockedUntil = IF count >= MaxRequests
                                 THEN BlockedUntilFor(normalized.startedAt, at) ELSE @]

\* What consumeDistributed and consumeLocal leave: a blocked state is left
\* alone, else the request counts and the first one too many starts a block.
Consumed(state, at) ==
    LET normalized == NormalizeState(state, at, TRUE)
        count == normalized.count + 1
    IN  IF IsBlocked(normalized, at)
        THEN normalized
        ELSE [normalized EXCEPT !.count = count,
                !.blockedUntil = IF count > MaxRequests
                                 THEN BlockedUntilFor(normalized.startedAt, at) ELSE @]

------------------------------------------------------------------------------

LimiterInit ==
    /\ row = ZeroState
    /\ local = [i \in Instances |-> ZeroState]
    /\ request = [r \in Requests |-> Idle]
    /\ now = 0
    /\ outages = 0
    /\ admitted = 0

\* Consume reads the clock.
Consume(r, i) ==
    /\ request[r] = Idle
    /\ request' = [request EXCEPT ![r] = [pc |-> "consume", instance |-> i, at |-> now]]
    /\ UNCHANGED <<row, local, now, outages, admitted>>

\* What the row has admitted before this request, in the window the request
\* falls in.
AdmittedBefore(at) == IF NormalizeState(row, at, TRUE) = row THEN admitted ELSE 0

\* consumeDistributed, the store answers.
ConsumeDistributed(r) ==
    /\ request[r].pc = "consume"
    /\ row' = Consumed(row, request[r].at)
    /\ admitted' = IF Allows(row, request[r].at)
                   THEN AdmittedBefore(request[r].at) + 1 ELSE AdmittedBefore(request[r].at)
    /\ request' = [request EXCEPT ![r] = Idle]
    /\ UNCHANGED <<local, now, outages>>

\* The store fails, before the transaction commits or when it has committed:
\* consumeLocal decides.
ConsumeLocal(r, committed) ==
    LET at == request[r].at
        i == request[r].instance
    IN  /\ request[r].pc = "consume"
        /\ StoreFails(committed, Consumed(row, at))
        /\ local' = [local EXCEPT ![i] = Consumed(@, at)]
        /\ request' = [request EXCEPT ![r] = Idle]
        /\ admitted' = IF committed THEN AdmittedBefore(at) ELSE admitted
        /\ UNCHANGED now

\* An instance restarts: its requests and its own state are gone.
LimiterRestart(i) ==
    /\ local' = [local EXCEPT ![i] = ZeroState]
    /\ request' = [r \in Requests |->
         IF request[r] # Idle /\ request[r].instance = i THEN Idle ELSE request[r]]
    /\ UNCHANGED <<row, now, outages, admitted>>

LimiterTick ==
    /\ now < MaxTime
    /\ \A r \in Requests : request[r] # Idle => now + 1 - request[r].at < MaxDelay
    /\ now' = now + 1
    /\ UNCHANGED <<row, local, request, outages, admitted>>

LimiterNext ==
    \/ \E r \in Requests, i \in Instances : Consume(r, i)
    \/ \E r \in Requests : ConsumeDistributed(r)
    \/ \E r \in Requests, committed \in BOOLEAN : ConsumeLocal(r, committed)
    \/ \E i \in Instances : LimiterRestart(i)
    \/ LimiterTick

LimiterSpec == LimiterInit /\ [][LimiterNext]_limiterVars

------------------------------------------------------------------------------
(* Properties.                                                             *)

LimiterTypeOK ==
    /\ row \in States
    /\ local \in [Instances -> States]
    /\ request \in [Requests -> [pc : {"consume"}, instance : Instances, at : Nat] \cup {Idle}]
    /\ now \in Nat
    /\ outages \in 0 .. MaxOutages
    /\ admitted \in Nat

\* A state is over the limit by at most one event, and exactly then it carries
\* a block.
OverLimit(state) ==
    /\ state.count <= MaxRequests + 1
    /\ state.count > MaxRequests <=> state.blockedUntil # NoTime

\* The shared row and every instance's own state count the request that is one
\* too many, block, and count no more until the block or the window is over,
\* in whatever order requests with older and newer clocks get the row.
OverLimitIsBlocked == OverLimit(row) /\ \A i \in Instances : OverLimit(local[i])

\* While the key is blocked, traffic can neither prolong nor lift the block: no
\* request, also none that read the clock earlier, changes the row
\* (consumeDistributed).
BlockIsStable ==
    [][IsBlocked(row, now) /\ ~ WindowOver(row, now) => row' = row]_limiterVars

\* No window admits more than MaxRequests requests through the shared row, although
\* requests reach it with clocks out of order and a commit whose answer is lost
\* counts a request that the row did not admit (consumeDistributed).
AdmissionsBounded == admitted <= MaxRequests /\ admitted <= row.count
==============================================================================
