--------------------------- MODULE RateLimitWindow ---------------------------
(***************************************************************************)
(* The counter row that the login guard and the request limiter share      *)
(* (internal/auth/ratelimit.go, rate_limit_state): events since the start  *)
(* of a window, and the end of a block.  MutateState runs a mutator under  *)
(* a row lock, so an update of a row is one step; a row that is not there  *)
(* is inserted first, with the caller's clock as its start, which is what  *)
(* normalizing the zero state gives.                                       *)
(***************************************************************************)
EXTENDS Integers

CONSTANTS
    Window,
    Instances,      \* API processes
    MaxDelay,       \* bound: a step of a request takes less than this
    MaxOutages,     \* bound: how often the store fails
    MaxTime         \* bound: the clock

ASSUME WindowAssumption == Window \in Nat \ {0}
ASSUME BoundsAssumption == MaxDelay \in Nat \ {0} /\ MaxOutages \in Nat /\ MaxTime \in Nat

VARIABLES
    row,            \* the key's row of rate_limit_state
    local,          \* what every instance keeps for the key in memory
    now,
    outages         \* store failures so far

Idle == [pc |-> "idle"]         \* no request
NoTime == -1                    \* the zero time.Time, a NULL column

ZeroState == [count |-> 0, startedAt |-> NoTime, blockedUntil |-> NoTime]

States == [count : Nat, startedAt : Nat \cup {NoTime}, blockedUntil : Nat \cup {NoTime}]

FreshWindow(at) == [count |-> 0, startedAt |-> at, blockedUntil |-> NoTime]

WindowOver(state, at) == state.startedAt = NoTime \/ at - state.startedAt >= Window

BlockOver(state, at) == state.blockedUntil # NoTime /\ at >= state.blockedUntil

IsBlocked(state, at) == state.blockedUntil # NoTime /\ at < state.blockedUntil

\* Mutant of NormalizeState: an unfinished block is dropped.
NormalizeDropsBlock(state, at, resetCountOnBlockExpiry) ==
    IF WindowOver(state, at) THEN FreshWindow(at) ELSE [state EXCEPT !.blockedUntil = NoTime]

\* normalizeDistributedWindowState
NormalizeState(state, at, resetCountOnBlockExpiry) ==
    CASE WindowOver(state, at) -> FreshWindow(at)
      [] ~ WindowOver(state, at) /\ BlockOver(state, at) ->
           IF resetCountOnBlockExpiry
           THEN FreshWindow(at)
           ELSE [state EXCEPT !.blockedUntil = NoTime]
      [] OTHER -> state

\* The store fails before the transaction commits or when it has committed.
StoreFails(committed, next) ==
    /\ outages < MaxOutages
    /\ outages' = outages + 1
    /\ row' = IF committed THEN next ELSE row
==============================================================================
