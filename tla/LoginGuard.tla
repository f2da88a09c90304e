------------------------------ MODULE LoginGuard ------------------------------
(***************************************************************************)
(* POST /login behind the LoginAttemptGuard (internal/auth/login_guard.go, *)
(* handleLoginSubmit of internal/api/session_ui.go), for one attempt key   *)
(* (user name and client address; keys share nothing).                     *)
(*                                                                         *)
(* A login checks the key, verifies the password and registers the result  *)
(* in separate steps, and each step reads the clock before it gets the     *)
(* row lock.  The API runs in several instances that share the row of      *)
(* rate_limit_state; when the store fails, an instance falls back to a     *)
(* state of its own, which a restart forgets.                              *)
(***************************************************************************)
EXTENDS RateLimitWindow, Sequences, FiniteSets

CONSTANTS
    Logins,         \* login requests in flight at the same time
    MaxAttempts, Lockout

ASSUME GuardAssumption == MaxAttempts \in Nat \ {0} /\ Lockout \in Nat \ {0}
ASSUME LoginsAssumption == IsFiniteSet(Logins)

VARIABLE login      \* requests: step, instance and the clock the step read

guardVars == <<row, local, login, now, outages>>

Empty == [failures |-> <<>>, lockoutUntil |-> NoTime]
Steps == {"check", "verify", "register", "succeed"}

At(l, i, step) == login' = [login EXCEPT ![l] = [pc |-> step, instance |-> i, at |-> now]]
End(l) == login' = [login EXCEPT ![l] = Idle]

\* activeFailures
ActiveFailures(failures, at) == SelectSeq(failures, LAMBDA t : t >= at - Window)

------------------------------------------------------------------------------
(* The in-process guard.                                                   *)

\* checkLocal: what it leaves.
CheckLocalState(state, at) ==
    LET active == ActiveFailures(state.failures, at)
    IN  IF at < state.lockoutUntil
        THEN [state EXCEPT !.failures = active]
        ELSE [failures |-> active, lockoutUntil |-> NoTime]

\* registerFailureLocal
RegisterFailureLocal(state, at) ==
    LET failures == Append(ActiveFailures(state.failures, at), at)
    IN  [failures |-> failures,
         lockoutUntil |-> IF Len(failures) >= MaxAttempts THEN at + Lockout ELSE state.lockoutUntil]

------------------------------------------------------------------------------
(* The shared guard.                                                       *)

\* Mutant of RegisterFailureState: the threshold is exceeded, not reached.
RegisterFailureOneLate(state, at) ==
    LET normalized == NormalizeState(state, at, FALSE)
        count == normalized.count + 1
    IN  [normalized EXCEPT !.count = count,
           !.blockedUntil = IF count > MaxAttempts THEN at + Lockout ELSE @]

\* Mutant of RegisterFailureState: the row blocks from the first failure on.
RegisterFailureBlocks(state, at) ==
    LET normalized == NormalizeState(state, at, FALSE)
    IN  [normalized EXCEPT !.count = @ + 1, !.blockedUntil = at + Lockout]

\* registerFailureDistributed
RegisterFailureState(state, at) ==
    LET normalized == NormalizeState(state, at, FALSE)
        count == normalized.count + 1
    IN  [normalized EXCEPT !.count = count,
           !.blockedUntil = IF count >= MaxAttempts THEN at + Lockout ELSE @]

------------------------------------------------------------------------------

GuardInit ==
    /\ row = ZeroState
    /\ local = [i \in Instances |-> Empty]
    /\ login = [l \in Logins |-> Idle]
    /\ now = 0
    /\ outages = 0

\* handleLoginSubmit, at an instance: Check reads the clock.
HandleLoginSubmit(l, i) ==
    /\ login[l] = Idle
    /\ At(l, i, "check")
    /\ UNCHANGED <<row, local, now, outages>>

\* The check's verdict: on to the password, or 429.
Verdict(l, allowed) ==
    IF allowed THEN At(l, login[l].instance, "verify") ELSE End(l)

\* Check, the store answers.
CheckDistributed(l) ==
    /\ login[l].pc = "check"
    /\ row' = NormalizeState(row, login[l].at, FALSE)
    /\ Verdict(l, ~ IsBlocked(row', login[l].at))
    /\ UNCHANGED <<local, now, outages>>

\* Check, the store fails: the instance decides.
CheckLocal(l, committed) ==
    LET at == login[l].at
        i == login[l].instance
    IN  /\ login[l].pc = "check"
        /\ StoreFails(committed, NormalizeState(row, at, FALSE))
        /\ local' = [local EXCEPT ![i] = CheckLocalState(@, at)]
        /\ Verdict(l, ~ at < local[i].lockoutUntil)
        /\ UNCHANGED now

\* authenticateUILoginRecord: the password is right, or it is wrong or the
\* user could not be looked up.  RegisterFailure reads the clock anew.
Authenticate(l, authenticated) ==
    /\ login[l].pc = "verify"
    /\ At(l, login[l].instance, IF authenticated THEN "succeed" ELSE "register")
    /\ local' = IF authenticated THEN [local EXCEPT ![login[l].instance] = Empty] ELSE local
    /\ UNCHANGED <<row, now, outages>>

\* RegisterFailure, the store answers.
RegisterFailureDistributed(l) ==
    /\ login[l].pc = "register"
    /\ row' = RegisterFailureState(row, login[l].at)
    /\ End(l)
    /\ UNCHANGED <<local, now, outages>>

\* RegisterFailure, the store fails: the instance counts.
RegisterFailureFallback(l, committed) ==
    LET at == login[l].at
        i == login[l].instance
    IN  /\ login[l].pc = "register"
        /\ StoreFails(committed, RegisterFailureState(row, at))
        /\ local' = [local EXCEPT ![i] = RegisterFailureLocal(@, at)]
        /\ End(l)
        /\ UNCHANGED now

\* RegisterSuccess after the instance has forgotten the key: DeleteState, whose
\* error is ignored.
DeleteState(l) ==
    /\ login[l].pc = "succeed"
    /\ \/ row' = ZeroState /\ UNCHANGED outages
       \/ StoreFails(FALSE, row)
    /\ End(l)
    /\ UNCHANGED <<local, now>>

\* An instance restarts: its requests and its own state are gone.
GuardRestart(i) ==
    /\ local' = [local EXCEPT ![i] = Empty]
    /\ login' = [l \in Logins |->
         IF login[l] # Idle /\ login[l].instance = i THEN Idle ELSE login[l]]
    /\ UNCHANGED <<row, now, outages>>

GuardTick ==
    /\ now < MaxTime
    /\ \A l \in Logins : login[l] # Idle => now + 1 - login[l].at < MaxDelay
    /\ now' = now + 1
    /\ UNCHANGED <<row, local, login, outages>>

GuardNext ==
    \/ \E l \in Logins, i \in Instances : HandleLoginSubmit(l, i)
    \/ \E l \in Logins : CheckDistributed(l)
    \/ \E l \in Logins, committed \in BOOLEAN : CheckLocal(l, committed)
    \/ \E l \in Logins, authenticated \in BOOLEAN : Authenticate(l, authenticated)
    \/ \E l \in Logins : RegisterFailureDistributed(l)
    \/ \E l \in Logins, committed \in BOOLEAN : RegisterFailureFallback(l, committed)
    \/ \E l \in Logins : DeleteState(l)
    \/ \E i \in Instances : GuardRestart(i)
    \/ GuardTick

GuardSpec == GuardInit /\ [][GuardNext]_guardVars

------------------------------------------------------------------------------
(* Properties.                                                             *)

GuardTypeOK ==
    /\ row \in States
    /\ local \in [Instances -> [failures : Seq(Nat), lockoutUntil : Nat \cup {NoTime}]]
    /\ login \in [Logins -> [pc : Steps, instance : Instances, at : Nat] \cup {Idle}]
    /\ now \in Nat
    /\ outages \in 0 .. MaxOutages

Admitted(l) == login[l].pc = "check" /\ login'[l].pc = "verify"

\* The row blocks a key only on evidence: a block stands next to at least
\* MaxAttempts failures of the same window, whatever the interleaving of
\* checks, late failures and deletions (registerFailureDistributed).
BlockHasEvidence == row.blockedUntil # NoTime => row.count >= MaxAttempts

\* Passwords tried against the shared row are bounded: because a check and the
\* failure it leads to are separate steps, every request in flight when the
\* threshold is reached may still fail, and every check the store did not
\* answer may add one, but no more than those.  Holds when a lockout outlasts a
\* window and the time a step may take (by default 900 s against 300 s).
FailuresPerWindowBounded ==
    row.count <= MaxAttempts - 1 + Cardinality(Logins) + outages

\* A check that reads the clock at t would refuse.
BlockedAt(state, t) == ~ WindowOver(state, t) /\ IsBlocked(state, t)

\* What a check writes back decides nothing: from now on the key is blocked at
\* exactly the times it was, also when the check read the clock long before it
\* got the row (checkDistributed).
CheckDecidesNothing ==
    [][\A l \in Logins : login[l].pc = "check" /\ login'[l] # login[l] =>
         \A t \in now .. MaxTime + Lockout :
            BlockedAt(row', t) <=> BlockedAt(row, t)]_guardVars

\* "Lockout duration after max attempts" (docs/env-reference.md): nobody is
\* admitted before the end of the block.  The window's end drops it.
LockoutLasts ==
    [][\A l \in Logins : Admitted(l) => ~ IsBlocked(row, login[l].at)]_guardVars
==============================================================================
