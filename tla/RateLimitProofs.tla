--------------------------- MODULE RateLimitProofs ---------------------------
(***************************************************************************)
(* Proofs about the two users of the shared counter row, LoginGuard and    *)
(* RequestLimiter, for every threshold, window, lockout or block duration  *)
(* and delay, and for any number of logins, requests and instances.  Each  *)
(* has a specification of its own over the state of RateLimitWindow        *)
(* (GuardSpec, LimiterSpec); a key belongs to one of them.                 *)
(***************************************************************************)
EXTENDS LoginGuard, RequestLimiter, FiniteSetTheorems, TLAPS

LEMMA FreshWindowState ==
    ASSUME NEW at \in Nat
    PROVE  /\ FreshWindow(at) \in States
           /\ FreshWindow(at).count = 0
           /\ FreshWindow(at).startedAt = at
           /\ FreshWindow(at).blockedUntil = NoTime
BY DEF FreshWindow, States, NoTime

------------------------------------------------------------------------------
(* What the login guard does to a row.                                     *)

\* What is blocked has its evidence, of any state of the row.
Evidence(state) == state.blockedUntil # NoTime => state.count >= MaxAttempts

\* Normalizing without resetCountOnBlockExpiry leaves a state, starts a window
\* or drops a block that is over.
LEMMA GuardNormalized ==
    ASSUME NEW state \in States, NEW at \in Nat
    PROVE  LET n == NormalizeState(state, at, FALSE) IN
           \/ WindowOver(state, at) /\ n = FreshWindow(at)
           \/ /\ ~ WindowOver(state, at) /\ BlockOver(state, at)
              /\ n = [state EXCEPT !.blockedUntil = NoTime]
           \/ ~ WindowOver(state, at) /\ n = state
BY DEF NormalizeState

LEMMA NormalizedState ==
    ASSUME NEW state \in States, NEW at \in Nat, Evidence(state)
    PROVE  NormalizeState(state, at, FALSE) \in States /\ Evidence(NormalizeState(state, at, FALSE))
<1> DEFINE n == NormalizeState(state, at, FALSE)
<1>1. CASE n = FreshWindow(at)
  BY <1>1, FreshWindowState DEF Evidence
<1>2. CASE n = [state EXCEPT !.blockedUntil = NoTime]
  BY <1>2 DEF Evidence, States
<1>3. CASE n = state
  BY <1>3
<1> QED BY <1>1, <1>2, <1>3, GuardNormalized

\* A failure that is counted keeps the evidence: a block starts only where the
\* threshold is reached.
LEMMA FailureState ==
    ASSUME NEW state \in States, NEW at \in Nat, Evidence(state)
    PROVE  RegisterFailureState(state, at) \in States /\ Evidence(RegisterFailureState(state, at))
<1> DEFINE n == NormalizeState(state, at, FALSE)
           until == IF n.count + 1 >= MaxAttempts THEN at + Lockout ELSE n.blockedUntil
           next == RegisterFailureState(state, at)
<1>1. n \in States /\ Evidence(n)
  BY NormalizedState
<1>2. next = [n EXCEPT !.count = n.count + 1, !.blockedUntil = until]
  BY <1>1 DEF RegisterFailureState, States
<1> HIDE DEF n, next
<1>3. n.count \in Nat /\ n.blockedUntil \in Nat \cup {NoTime}
  BY <1>1 DEF States
<1>4. until \in Nat \cup {NoTime} /\ (until # NoTime => n.count + 1 >= MaxAttempts)
  BY <1>1, <1>3, GuardAssumption DEF Evidence
<1> HIDE DEF until
<1>5. next \in States
  <2>1. n.count + 1 \in Nat
    BY <1>3
  <2> QED BY <1>1, <1>2, <1>4, <2>1 DEF States
<1>6. next.count = n.count + 1 /\ next.blockedUntil = until
  BY <1>1, <1>2 DEF States
<1> QED BY <1>4, <1>5, <1>6 DEF next, Evidence

\* A check that read the clock at `at' moves no moment from then on in or out
\* of the block.
LEMMA NormalizingDecidesNothing ==
    ASSUME NEW state \in States, NEW at \in Nat, NEW t \in Nat, at <= t
    PROVE  BlockedAt(NormalizeState(state, at, FALSE), t) <=> BlockedAt(state, t)
<1> DEFINE n == NormalizeState(state, at, FALSE)
<1>0. state.startedAt \in Nat \cup {NoTime} /\ state.blockedUntil \in Nat \cup {NoTime}
  BY DEF States
<1>1. CASE WindowOver(state, at) /\ n = FreshWindow(at)
  <2>1. WindowOver(state, t)
    BY <1>0, <1>1, WindowAssumption DEF WindowOver, NoTime
  <2>2. ~ IsBlocked(n, t)
    BY <1>1, FreshWindowState DEF IsBlocked
  <2> QED BY <2>1, <2>2 DEF BlockedAt
<1>2. CASE BlockOver(state, at) /\ n = [state EXCEPT !.blockedUntil = NoTime]
  <2>1. ~ IsBlocked(state, t)
    BY <1>0, <1>2 DEF BlockOver, IsBlocked, NoTime
  <2>2. n.blockedUntil = NoTime
    BY <1>2 DEF States
  <2> QED BY <2>1, <2>2 DEF BlockedAt, IsBlocked
<1>3. CASE n = state
  BY <1>3
<1> QED BY <1>1, <1>2, <1>3, GuardNormalized

------------------------------------------------------------------------------
(* The invariant of the login guard.                                       *)

LoginRecords == [pc : Steps, instance : Instances, at : Nat]

\* A step never reads a clock that is to come.
LoginClocksRead == \A l \in Logins : login[l] # Idle => login[l].at <= now

GuardInv ==
    /\ row \in States
    /\ Evidence(row)
    /\ login \in [Logins -> LoginRecords \cup {Idle}]
    /\ now \in Nat
    /\ LoginClocksRead

LEMMA UnderWay ==
    ASSUME GuardInv, NEW l \in Logins, login[l].pc \in Steps
    PROVE  /\ login[l].instance \in Instances
           /\ login[l].at \in Nat
           /\ login[l].at <= now
<1>1. Idle.pc \notin Steps
  BY DEF Idle, Steps
<1>2. login[l] \in LoginRecords /\ login[l] # Idle
  BY <1>1 DEF GuardInv
<1> QED BY <1>2 DEF GuardInv, LoginRecords, LoginClocksRead

\* A request goes on with a clock read now, or ends.
LEMMA StepOfLogin ==
    ASSUME GuardInv, NEW l \in Logins, now' = now,
           \/ \E i \in Instances, step \in Steps : At(l, i, step)
           \/ End(l)
    PROVE  login' \in [Logins -> LoginRecords \cup {Idle}] /\ LoginClocksRead'
<1>1. ASSUME NEW i \in Instances, NEW step \in Steps, At(l, i, step)
      PROVE  login' \in [Logins -> LoginRecords \cup {Idle}] /\ LoginClocksRead'
  <2> DEFINE q == [pc |-> step, instance |-> i, at |-> now]
  <2>1. q \in LoginRecords /\ q.at = now
    BY DEF GuardInv, LoginRecords
  <2>2. login' = [login EXCEPT ![l] = q]
    BY <1>1 DEF At
  <2> HIDE DEF q
  <2> QED BY <2>1, <2>2 DEF GuardInv, LoginClocksRead, LoginRecords
<1>2. CASE End(l)
  BY <1>2 DEF End, GuardInv, LoginClocksRead, LoginRecords
<1> QED BY <1>1, <1>2

\* What one step may do to the row.
RowStep ==
    \/ row' = row
    \/ row' = ZeroState
    \/ \E l \in Logins :
         /\ login[l].pc \in Steps
         /\ \/ row' = NormalizeState(row, login[l].at, FALSE)
            \/ row' = RegisterFailureState(row, login[l].at) /\ login[l].pc = "register"

LEMMA RowStepKeeps ==
    ASSUME GuardInv, RowStep
    PROVE  row' \in States /\ Evidence(row)'
<1>1. row \in States /\ Evidence(row)
  BY DEF GuardInv
<1>2. ZeroState \in States /\ Evidence(ZeroState)
  BY DEF ZeroState, States, Evidence, NoTime
<1>3. ASSUME NEW l \in Logins, login[l].pc \in Steps
      PROVE  /\ NormalizeState(row, login[l].at, FALSE) \in States
             /\ Evidence(NormalizeState(row, login[l].at, FALSE))
             /\ RegisterFailureState(row, login[l].at) \in States
             /\ Evidence(RegisterFailureState(row, login[l].at))
  BY <1>1, <1>3, UnderWay, NormalizedState, FailureState
<1>4. row' \in States /\ Evidence(row')
  BY <1>1, <1>2, <1>3 DEF RowStep
<1> QED BY <1>4 DEF Evidence

LEMMA InitGuardInv == GuardInit => GuardInv
<1> SUFFICES ASSUME GuardInit PROVE GuardInv
  OBVIOUS
<1>1. row \in States /\ Evidence(row)
  BY DEF GuardInit, ZeroState, States, Evidence, NoTime
<1>2. login \in [Logins -> LoginRecords \cup {Idle}] /\ LoginClocksRead
  BY DEF GuardInit, LoginClocksRead
<1> QED BY <1>1, <1>2 DEF GuardInit, GuardInv

LEMMA NextGuardInv == GuardInv /\ [GuardNext]_guardVars => GuardInv'
<1> SUFFICES ASSUME GuardInv, [GuardNext]_guardVars PROVE GuardInv'
  OBVIOUS
<1>0. now \in Nat
  BY DEF GuardInv
\* A step of a login: its effects on the row and on the request.
<1>s. ASSUME NEW l \in Logins, RowStep, now' = now,
             \/ \E i \in Instances, step \in Steps : At(l, i, step)
             \/ End(l)
      PROVE  GuardInv'
  <2>1. row' \in States /\ Evidence(row)'
    BY <1>s, RowStepKeeps
  <2>2. login' \in [Logins -> LoginRecords \cup {Idle}] /\ LoginClocksRead'
    BY <1>s, StepOfLogin
  <2> QED BY <1>0, <1>s, <2>1, <2>2 DEF GuardInv, LoginRecords
<1>v. ASSUME NEW l \in Logins, NEW allowed, login[l].pc \in Steps, Verdict(l, allowed)
      PROVE  (\E i \in Instances, step \in Steps : At(l, i, step)) \/ End(l)
  <2>1. login[l].instance \in Instances /\ "verify" \in Steps
    BY <1>v, UnderWay DEF Steps
  <2> QED BY <1>v, <2>1 DEF Verdict
<1>1. ASSUME NEW l \in Logins, NEW i \in Instances, HandleLoginSubmit(l, i)
      PROVE  GuardInv'
  <2>1. "check" \in Steps
    BY DEF Steps
  <2> QED BY <1>1, <1>s, <2>1 DEF HandleLoginSubmit, RowStep
<1>2. ASSUME NEW l \in Logins, CheckDistributed(l)
      PROVE  GuardInv'
  <2>1. login[l].pc \in Steps
    BY <1>2 DEF CheckDistributed, Steps
  <2>2. RowStep /\ now' = now /\ Verdict(l, ~ IsBlocked(row', login[l].at))
    BY <1>2, <2>1 DEF CheckDistributed, RowStep
  <2> QED BY <1>s, <1>v, <2>1, <2>2
<1>3. ASSUME NEW l \in Logins, NEW committed \in BOOLEAN, CheckLocal(l, committed)
      PROVE  GuardInv'
  <2>1. login[l].pc \in Steps
    BY <1>3 DEF CheckLocal, Steps
  <2>2. RowStep /\ now' = now
    BY <1>3, <2>1 DEF CheckLocal, StoreFails, RowStep
  <2>3. Verdict(l, ~ login[l].at < local[login[l].instance].lockoutUntil)
    BY <1>3 DEF CheckLocal
  <2> QED BY <1>s, <1>v, <2>1, <2>2, <2>3
<1>4. ASSUME NEW l \in Logins, NEW authenticated \in BOOLEAN, Authenticate(l, authenticated)
      PROVE  GuardInv'
  <2>1. login[l].pc \in Steps /\ {"succeed", "register"} \subseteq Steps
    BY <1>4 DEF Authenticate, Steps
  <2>2. login[l].instance \in Instances
    BY <2>1, UnderWay
  <2>3. RowStep /\ now' = now
    BY <1>4 DEF Authenticate, RowStep
  <2>4. \E step \in Steps : At(l, login[l].instance, step)
    BY <1>4, <2>1 DEF Authenticate
  <2> QED BY <1>s, <2>2, <2>3, <2>4
<1>5. ASSUME NEW l \in Logins, RegisterFailureDistributed(l)
      PROVE  GuardInv'
  <2>1. RowStep /\ now' = now /\ End(l)
    BY <1>5 DEF RegisterFailureDistributed, RowStep, Steps
  <2> QED BY <1>s, <2>1
<1>6. ASSUME NEW l \in Logins, NEW committed \in BOOLEAN, RegisterFailureFallback(l, committed)
      PROVE  GuardInv'
  <2>1. RowStep /\ now' = now /\ End(l)
    BY <1>6 DEF RegisterFailureFallback, StoreFails, RowStep, Steps
  <2> QED BY <1>s, <2>1
<1>7. ASSUME NEW l \in Logins, DeleteState(l)
      PROVE  GuardInv'
  <2>1. RowStep /\ now' = now /\ End(l)
    BY <1>7 DEF DeleteState, StoreFails, RowStep
  <2> QED BY <1>s, <2>1
<1>8. ASSUME NEW i \in Instances, GuardRestart(i)
      PROVE  GuardInv'
  <2>1. \A l \in Logins : login'[l] = Idle \/ login'[l] = login[l]
    BY <1>8 DEF GuardRestart
  <2>2. login' \in [Logins -> LoginRecords \cup {Idle}]
    BY <1>8 DEF GuardRestart, GuardInv, LoginRecords
  <2>3. UNCHANGED <<row, now>>
    BY <1>8 DEF GuardRestart
  <2> QED BY <2>1, <2>2, <2>3 DEF GuardInv, LoginClocksRead, LoginRecords, Evidence
<1>9. CASE GuardTick
  <2>1. now' = now + 1 /\ UNCHANGED <<row, login>>
    BY <1>9 DEF GuardTick
  <2>2. LoginClocksRead'
    <3> SUFFICES ASSUME NEW l \in Logins, login[l] # Idle
                 PROVE  login[l].at <= now + 1
      BY <2>1 DEF LoginClocksRead
    <3>1. login[l] \in LoginRecords
      BY DEF GuardInv
    <3>2. login[l].at \in Nat /\ login[l].at <= now
      BY <3>1 DEF GuardInv, LoginRecords, LoginClocksRead
    <3> QED BY <1>0, <3>2
  <2> QED BY <1>0, <2>1, <2>2 DEF GuardInv, LoginRecords, Evidence
<1>10. CASE UNCHANGED guardVars
  BY <1>10 DEF GuardInv, LoginClocksRead, LoginRecords, Evidence, guardVars
<1> QED
  BY <1>1, <1>2, <1>3, <1>4, <1>5, <1>6, <1>7, <1>8, <1>9, <1>10 DEF GuardNext

LEMMA GuardInvHolds == GuardSpec => []GuardInv
BY InitGuardInv, NextGuardInv, PTL DEF GuardSpec

------------------------------------------------------------------------------
(* The theorems.                                                           *)

\* The row blocks a key only next to MaxAttempts failures of its window
\* (registerFailureDistributed), for any number of logins in flight.
THEOREM BlocksHaveEvidence == GuardSpec => []BlockHasEvidence
<1>1. GuardInv => BlockHasEvidence
  BY DEF GuardInv, Evidence, BlockHasEvidence
<1> QED BY <1>1, GuardInvHolds, PTL

\* A check leaves the key blocked at exactly the times to come at which it was
\* blocked before (checkDistributed), whatever clock it had read.
THEOREM ChecksDecideNothing == GuardSpec => CheckDecidesNothing
<1>1. GuardInv /\ [GuardNext]_guardVars =>
        [\A l \in Logins : login[l].pc = "check" /\ login'[l] # login[l] =>
           \A t \in now .. MaxTime + Lockout : BlockedAt(row', t) <=> BlockedAt(row, t)]_guardVars
  <2> SUFFICES ASSUME GuardInv, [GuardNext]_guardVars, NEW l \in Logins, login[l].pc = "check",
                      login'[l] # login[l], NEW t \in now .. MaxTime + Lockout
               PROVE  BlockedAt(row', t) <=> BlockedAt(row, t)
    OBVIOUS
  <2>1. now \in Nat /\ row \in States /\ t \in Nat /\ now <= t
    BY GuardAssumption DEF GuardInv
  <2>2. login[l].at \in Nat /\ login[l].at <= t
    BY <2>1, UnderWay DEF Steps
  <2>3. row' = row \/ row' = NormalizeState(row, login[l].at, FALSE)
    <3>1. ASSUME NEW m \in Logins, NEW q, login' = [login EXCEPT ![m] = q]
          PROVE  m = l
      BY <3>1 DEF GuardInv
    <3>2. ASSUME NEW m \in Logins, CheckDistributed(m)
          PROVE  row' = NormalizeState(row, login[l].at, FALSE)
      BY <3>1, <3>2 DEF CheckDistributed, Verdict, At, End
    <3>3. ASSUME NEW m \in Logins, NEW committed \in BOOLEAN, CheckLocal(m, committed)
          PROVE  row' = row \/ row' = NormalizeState(row, login[l].at, FALSE)
      BY <3>1, <3>3 DEF CheckLocal, StoreFails, Verdict, At, End
    <3>4. ASSUME NEW m \in Logins, RegisterFailureDistributed(m)
          PROVE  FALSE
      BY <3>1, <3>4 DEF RegisterFailureDistributed, End
    <3>5. ASSUME NEW m \in Logins, NEW committed \in BOOLEAN, RegisterFailureFallback(m, committed)
          PROVE  FALSE
      BY <3>1, <3>5 DEF RegisterFailureFallback, End
    <3>6. ASSUME NEW m \in Logins, DeleteState(m)
          PROVE  FALSE
      BY <3>1, <3>6 DEF DeleteState, End
    <3> QED
      BY <3>2, <3>3, <3>4, <3>5, <3>6 DEF GuardNext, HandleLoginSubmit, Authenticate, GuardRestart, GuardTick, guardVars
  <2> QED BY <2>1, <2>2, <2>3, NormalizingDecidesNothing
<1> QED
  BY <1>1, GuardInvHolds, PTL DEF GuardSpec, CheckDecidesNothing

------------------------------------------------------------------------------
(* Failures per window.                                                     *)

\* A block outlasts the window it was set in, whatever clock set it.
LockoutOutlastsWindow == Lockout >= Window + MaxDelay - 1

\* At the threshold the row is blocked to the end of its window.
Locked(state) ==
    state.count >= MaxAttempts =>
        state.startedAt # NoTime /\ state.blockedUntil >= state.startedAt + Window

\* The logins that may still register a failure.
Pending == {l \in Logins : login[l].pc \in {"verify", "register"}}

\* No step takes longer than MaxDelay.
Punctual == \A l \in Logins : login[l] # Idle => now - login[l].at < MaxDelay

\* FailuresPerWindowBounded, with the failures still to come.
WindowBound ==
    row.count + Cardinality(Pending) <= MaxAttempts - 1 + Cardinality(Logins) + outages

WindowInv ==
    /\ outages \in Nat
    /\ row.startedAt <= now
    /\ Punctual
    /\ Locked(row)
    /\ WindowBound

\* Normalizing starts a window or leaves count, start and block alone: no
\* block ends before its window.
LEMMA NormalizedLocked ==
    ASSUME NEW state \in States, NEW at \in Nat, Locked(state)
    PROVE  LET n == NormalizeState(state, at, FALSE) IN
           \/ n = FreshWindow(at)
           \/ /\ n \in States /\ n.count = state.count /\ n.startedAt = state.startedAt
              /\ state.startedAt # NoTime
              /\ n.count >= MaxAttempts => n = state /\ IsBlocked(n, at)
<1> DEFINE n == NormalizeState(state, at, FALSE)
<1>0. /\ state.startedAt \in Nat \cup {NoTime} /\ state.blockedUntil \in Nat \cup {NoTime}
      /\ state.count \in Nat
  BY DEF States
<1>1. CASE ~ WindowOver(state, at)
  <2>1. state.startedAt # NoTime /\ at < state.startedAt + Window
    BY <1>0, <1>1, WindowAssumption DEF WindowOver
  <2>2. state.count >= MaxAttempts => IsBlocked(state, at) /\ ~ BlockOver(state, at)
    BY <1>0, <2>1, WindowAssumption DEF Locked, IsBlocked, BlockOver, NoTime
  <2>3. CASE BlockOver(state, at) /\ n = [state EXCEPT !.blockedUntil = NoTime]
    <3>1. n \in States /\ n.count = state.count /\ n.startedAt = state.startedAt
      BY <2>3 DEF States
    <3> QED BY <1>0, <2>1, <2>2, <2>3, <3>1
  <2>4. CASE n = state
    BY <2>1, <2>2, <2>4
  <2> QED BY <1>1, <2>3, <2>4, GuardNormalized
<1> QED BY <1>1, GuardNormalized

LEMMA NormalizedKeepsLock ==
    ASSUME NEW state \in States, NEW at \in Nat, Locked(state)
    PROVE  LET n == NormalizeState(state, at, FALSE) IN
           /\ Locked(n)
           /\ n.count = 0 \/ n.count = state.count
           /\ n.startedAt = at \/ n.startedAt = state.startedAt
           /\ n.count >= MaxAttempts => IsBlocked(n, at)
<1> DEFINE n == NormalizeState(state, at, FALSE)
<1>1. CASE n = FreshWindow(at)
  <2>1. n.count = 0 /\ n.startedAt = at
    BY <1>1, FreshWindowState
  <2>2. ~ (0 >= MaxAttempts)
    BY GuardAssumption
  <2> QED BY <2>1, <2>2 DEF Locked
<1>2. CASE /\ n \in States /\ n.count = state.count /\ n.startedAt = state.startedAt
           /\ n.count >= MaxAttempts => n = state /\ IsBlocked(n, at)
  BY <1>2 DEF Locked
<1> QED BY <1>1, <1>2, NormalizedLocked

\* A counted failure blocks to the end of the window as soon as the threshold
\* is reached, also when its clock was read before the window began.
LEMMA FailureLocks ==
    ASSUME LockoutOutlastsWindow,
           NEW state \in States, NEW at \in Nat, Locked(state),
           at + MaxDelay - 1 >= state.startedAt
    PROVE  LET next == RegisterFailureState(state, at) IN
           /\ Locked(next)
           /\ next.count = 1 \/ next.count = state.count + 1
           /\ next.startedAt = at \/ next.startedAt = state.startedAt
<1> DEFINE n == NormalizeState(state, at, FALSE)
           until == IF n.count + 1 >= MaxAttempts THEN at + Lockout ELSE n.blockedUntil
           next == RegisterFailureState(state, at)
<1>0. state.startedAt \in Nat \cup {NoTime} /\ state.count \in Nat
  BY DEF States
<1>1. /\ n \in States
      /\ n.count = 0 \/ n.count = state.count
      /\ n.startedAt = at \/ (n.startedAt = state.startedAt /\ state.startedAt # NoTime)
  BY FreshWindowState, NormalizedLocked
<1>2. next = [n EXCEPT !.count = n.count + 1, !.blockedUntil = until]
  BY <1>1 DEF RegisterFailureState, States
<1> HIDE DEF n, next
<1>3. /\ next.count = n.count + 1 /\ next.startedAt = n.startedAt
      /\ next.blockedUntil = until /\ n.count \in Nat
  BY <1>1, <1>2 DEF States
<1>4. n.startedAt # NoTime
  BY <1>1 DEF NoTime
<1>5. at + Lockout >= n.startedAt + Window
  BY <1>0, <1>1, WindowAssumption, GuardAssumption, BoundsAssumption DEF LockoutOutlastsWindow, NoTime
<1>6. Locked(next)
  BY <1>3, <1>4, <1>5 DEF Locked
<1> QED BY <1>0, <1>1, <1>3, <1>6 DEF next

LEMMA PendingSize ==
    /\ IsFiniteSet(Pending)
    /\ Cardinality(Pending) \in Nat
    /\ Cardinality(Logins) \in Nat
    /\ Cardinality(Pending) <= Cardinality(Logins)
<1>1. Pending \subseteq Logins
  BY DEF Pending
<1> QED BY <1>1, LoginsAssumption, FS_Subset, FS_CardinalityType

\* What a step of a login does to Pending.
LEMMA PendingChanges ==
    ASSUME GuardInv, NEW l \in Logins, NEW q, login' = [login EXCEPT ![l] = q]
    PROVE  /\ Cardinality(Pending') \in Nat
           /\ Cardinality(Pending') <= Cardinality(Logins)
           /\ Cardinality(Pending') <= Cardinality(Pending) + 1
           /\ l \in Pending \/ q.pc \notin {"verify", "register"} =>
                 Cardinality(Pending') <= Cardinality(Pending)
           /\ l \in Pending /\ q.pc \notin {"verify", "register"} =>
                 /\ Cardinality(Pending') = Cardinality(Pending) - 1
                 /\ Cardinality(Pending') < Cardinality(Logins)
<1> DEFINE S == Pending
           T == Pending'
<1>0. login'[l] = q /\ \A m \in Logins : m # l => login'[m] = login[m]
  BY DEF GuardInv
<1>1. T = IF q.pc \in {"verify", "register"} THEN S \cup {l} ELSE S \ {l}
  BY <1>0 DEF Pending
<1>2. /\ IsFiniteSet(S) /\ Cardinality(S) \in Nat /\ Cardinality(Logins) \in Nat
      /\ T \subseteq Logins /\ Cardinality(S) <= Cardinality(Logins)
      /\ l \in S <=> l \in Pending
  BY PendingSize DEF Pending
<1> HIDE DEF S, T
<1>3. IsFiniteSet(T) /\ Cardinality(T) \in Nat /\ Cardinality(T) <= Cardinality(Logins)
  BY <1>2, LoginsAssumption, FS_Subset, FS_CardinalityType
<1>4. /\ Cardinality(S \cup {l}) = IF l \in S THEN Cardinality(S) ELSE Cardinality(S) + 1
      /\ Cardinality(S \ {l}) = IF l \in S THEN Cardinality(S) - 1 ELSE Cardinality(S)
  BY <1>2, FS_AddElement, FS_RemoveElement
<1>5. /\ Cardinality(T) \in Nat
      /\ Cardinality(T) <= Cardinality(Logins)
      /\ Cardinality(T) <= Cardinality(S) + 1
      /\ l \in S \/ q.pc \notin {"verify", "register"} => Cardinality(T) <= Cardinality(S)
      /\ l \in S /\ q.pc \notin {"verify", "register"} =>
             Cardinality(T) = Cardinality(S) - 1 /\ Cardinality(T) < Cardinality(Logins)
  BY <1>1, <1>2, <1>3, <1>4
<1> QED BY <1>2, <1>5 DEF S, T

\* A step of one login.
LEMMA WindowStep ==
    ASSUME GuardInv, WindowInv, NEW l \in Logins, NEW q, login' = [login EXCEPT ![l] = q],
           q = Idle \/ q.at = now, now' = now, outages' \in Nat,
           Locked(row'), row'.startedAt <= now, WindowBound'
    PROVE  WindowInv'
<1>1. login'[l] = q /\ \A m \in Logins : m # l => login'[m] = login[m]
  BY DEF GuardInv
<1>2. Punctual'
  <2> SUFFICES ASSUME NEW m \in Logins, login'[m] # Idle
               PROVE  now' - login'[m].at < MaxDelay
    BY DEF Punctual
  <2>1. CASE m = l
    <3>1. login'[m].at = now /\ now \in Nat
      BY <1>1, <2>1 DEF GuardInv
    <3> QED BY <3>1, BoundsAssumption
  <2>2. CASE m # l
    BY <1>1, <2>2 DEF WindowInv, Punctual
  <2> QED BY <2>1, <2>2
<1>3. row'.startedAt <= now' /\ Locked(row)'
  BY DEF Locked
<1> QED BY <1>2, <1>3 DEF WindowInv

\* What the clock of a request under way can be.
LEMMA ClockUnderWay ==
    ASSUME GuardInv, WindowInv, NEW l \in Logins, login[l].pc \in Steps
    PROVE  /\ login[l].at \in Nat /\ login[l].at <= now
           /\ login[l].at + MaxDelay - 1 >= row.startedAt
           /\ login[l].instance \in Instances
<1>1. login[l] # Idle
  BY DEF Idle, Steps
<1>2. now - login[l].at < MaxDelay /\ row.startedAt <= now
  BY <1>1 DEF WindowInv, Punctual
<1>3. row.startedAt \in Int /\ now \in Nat
  BY DEF GuardInv, States, NoTime
<1> QED BY <1>2, <1>3, UnderWay, BoundsAssumption

\* The numbers WindowInv is about.
LEMMA Numbers ==
    ASSUME GuardInv, WindowInv
    PROVE  /\ row \in States /\ row.count \in Nat /\ row.startedAt \in Int /\ now \in Nat
           /\ Locked(row) /\ row.startedAt <= now /\ outages \in Nat
           /\ Cardinality(Pending) \in Nat /\ Cardinality(Logins) \in Nat
           /\ row.count + Cardinality(Pending) <= MaxAttempts - 1 + Cardinality(Logins) + outages
           /\ MaxAttempts \in Nat /\ MaxAttempts >= 1
BY PendingSize, GuardAssumption DEF GuardInv, WindowInv, WindowBound, States, NoTime

LEMMA NextWindowInv ==
    ASSUME LockoutOutlastsWindow, GuardInv, WindowInv, [GuardNext]_guardVars
    PROVE  WindowInv'
<1>n. /\ row \in States /\ row.count \in Nat /\ row.startedAt \in Int /\ now \in Nat
      /\ Locked(row) /\ row.startedAt <= now /\ outages \in Nat
      /\ Cardinality(Pending) \in Nat /\ Cardinality(Logins) \in Nat
      /\ row.count + Cardinality(Pending) <= MaxAttempts - 1 + Cardinality(Logins) + outages
      /\ MaxAttempts \in Nat /\ MaxAttempts >= 1
  BY Numbers
\* A normalized row, for the clock of a request under way.
<1>r. ASSUME NEW l \in Logins, login[l].pc \in Steps
      PROVE  LET n == NormalizeState(row, login[l].at, FALSE) IN
             /\ Locked(n) /\ n.startedAt <= now
             /\ n.count \in Nat /\ n.count <= row.count
             /\ n.count >= MaxAttempts => IsBlocked(n, login[l].at)
  <2> DEFINE n == NormalizeState(row, login[l].at, FALSE)
  <2>1. /\ Locked(n)
        /\ n.count = 0 \/ n.count = row.count
        /\ n.startedAt = login[l].at \/ n.startedAt = row.startedAt
        /\ n.count >= MaxAttempts => IsBlocked(n, login[l].at)
    BY <1>n, <1>r, ClockUnderWay, NormalizedKeepsLock
  <2>2. login[l].at <= now
    BY <1>r, ClockUnderWay
  <2> HIDE DEF n
  <2>3. n.startedAt <= now /\ n.count \in Nat /\ n.count <= row.count
    BY <1>n, <2>1, <2>2
  <2> QED BY <2>1, <2>3 DEF n
\* The row with one more failure.
<1>f. ASSUME NEW l \in Logins, login[l].pc \in Steps
      PROVE  LET next == RegisterFailureState(row, login[l].at) IN
             /\ Locked(next) /\ next.startedAt <= now
             /\ next.count = 1 \/ next.count = row.count + 1
  BY <1>n, <1>f, ClockUnderWay, FailureLocks
<1>e. Idle.pc \notin {"verify", "register"}
  BY DEF Idle
<1>1. ASSUME NEW l \in Logins, NEW i \in Instances, HandleLoginSubmit(l, i)
      PROVE  WindowInv'
  <2> DEFINE q == [pc |-> "check", instance |-> i, at |-> now]
  <2>1. /\ login' = [login EXCEPT ![l] = q] /\ q.at = now
        /\ q.pc \notin {"verify", "register"} /\ UNCHANGED <<row, now, outages>>
    BY <1>1 DEF HandleLoginSubmit, At
  <2> HIDE DEF q
  <2>2. Cardinality(Pending') \in Nat /\ Cardinality(Pending') <= Cardinality(Pending)
    BY <2>1, PendingChanges
  <2>3. WindowBound'
    BY <1>n, <2>1, <2>2 DEF WindowBound
  <2> QED BY <1>n, <2>1, <2>3, WindowStep
<1>2. ASSUME NEW l \in Logins, CheckDistributed(l)
      PROVE  WindowInv'
  <2>0. login[l].pc \in Steps /\ row' = NormalizeState(row, login[l].at, FALSE)
        /\ UNCHANGED <<now, outages>> /\ Verdict(l, ~ IsBlocked(row', login[l].at))
    BY <1>2 DEF CheckDistributed, Steps
  <2>u. outages' = outages
    BY <2>0
  <2>1. /\ Locked(row') /\ row'.startedAt <= now
        /\ row'.count \in Nat /\ row'.count <= row.count
        /\ row'.count >= MaxAttempts => IsBlocked(row', login[l].at)
    BY <1>r, <2>0
  <2>2. CASE ~ IsBlocked(row', login[l].at)
    <3> DEFINE q == [pc |-> "verify", instance |-> login[l].instance, at |-> now]
    <3>1. login' = [login EXCEPT ![l] = q] /\ q.at = now
      BY <2>0, <2>2 DEF Verdict, At
    <3> HIDE DEF q
    <3>2. Cardinality(Pending') \in Nat /\ Cardinality(Pending') <= Cardinality(Logins)
      BY <3>1, PendingChanges
    <3>3. row'.count <= MaxAttempts - 1
      BY <1>n, <2>1, <2>2
    <3>4. WindowBound'
      BY <1>n, <2>u, <2>1, <3>2, <3>3 DEF WindowBound
    <3> QED BY <1>n, <2>0, <2>1, <3>1, <3>4, WindowStep
  <2>3. CASE IsBlocked(row', login[l].at)
    <3>1. login' = [login EXCEPT ![l] = Idle]
      BY <2>0, <2>3 DEF Verdict, End
    <3>2. Cardinality(Pending') \in Nat /\ Cardinality(Pending') <= Cardinality(Pending)
      BY <1>e, <3>1, PendingChanges
    <3>3. WindowBound'
      BY <1>n, <2>u, <2>1, <3>2 DEF WindowBound
    <3> QED BY <1>n, <2>0, <2>1, <3>1, <3>3, WindowStep
  <2> QED BY <2>2, <2>3
<1>3. ASSUME NEW l \in Logins, NEW committed \in BOOLEAN, CheckLocal(l, committed)
      PROVE  WindowInv'
  <2>0. /\ login[l].pc \in Steps /\ now' = now /\ outages' = outages + 1
        /\ row' = row \/ row' = NormalizeState(row, login[l].at, FALSE)
        /\ Verdict(l, ~ login[l].at < local[login[l].instance].lockoutUntil)
    BY <1>3 DEF CheckLocal, StoreFails, Steps
  <2>1. /\ Locked(row') /\ row'.startedAt <= now
        /\ row'.count \in Nat /\ row'.count <= row.count
    <3>1. CASE row' = row
      BY <1>n, <3>1
    <3>2. CASE row' = NormalizeState(row, login[l].at, FALSE)
      BY <1>r, <2>0, <3>2
    <3> QED BY <2>0, <3>1, <3>2
  <2>2. PICK q : login' = [login EXCEPT ![l] = q] /\ (q = Idle \/ q.at = now)
    BY <2>0 DEF Verdict, At, End
  <2>3. Cardinality(Pending') \in Nat /\ Cardinality(Pending') <= Cardinality(Pending) + 1
    BY <2>2, PendingChanges
  <2>4. WindowBound'
    BY <1>n, <2>0, <2>1, <2>3 DEF WindowBound
  <2>5. outages' \in Nat
    BY <1>n, <2>0
  <2> QED BY <2>0, <2>1, <2>2, <2>4, <2>5, WindowStep
<1>4. ASSUME NEW l \in Logins, NEW authenticated \in BOOLEAN, Authenticate(l, authenticated)
      PROVE  WindowInv'
  <2> DEFINE step == IF authenticated THEN "succeed" ELSE "register"
             q == [pc |-> step, instance |-> login[l].instance, at |-> now]
  <2>1. login' = [login EXCEPT ![l] = q] /\ q.at = now
    BY <1>4 DEF Authenticate, At
  <2> HIDE DEF q
  <2>2. l \in Pending /\ UNCHANGED <<row, now, outages>>
    BY <1>4 DEF Authenticate, Pending
  <2>3. Cardinality(Pending') \in Nat /\ Cardinality(Pending') <= Cardinality(Pending)
    BY <2>1, <2>2, PendingChanges
  <2>4. WindowBound'
    BY <1>n, <2>2, <2>3 DEF WindowBound
  <2> QED BY <1>n, <2>1, <2>2, <2>4, WindowStep
\* A failure is registered, or its statement fails.
<1>5. ASSUME NEW l \in Logins, login[l].pc = "register", End(l), now' = now,
             outages' \in Nat, outages' >= outages,
             row' = row \/ row' = RegisterFailureState(row, login[l].at)
      PROVE  WindowInv'
  <2>1. login' = [login EXCEPT ![l] = Idle] /\ l \in Pending /\ login[l].pc \in Steps
    BY <1>5 DEF End, Pending, Steps
  <2>2. /\ Cardinality(Pending') \in Nat
        /\ Cardinality(Pending') = Cardinality(Pending) - 1
        /\ Cardinality(Pending') < Cardinality(Logins)
    BY <1>e, <2>1, PendingChanges
  <2>3. /\ Locked(row') /\ row'.startedAt <= now
        /\ row'.count = row.count \/ row'.count = 1 \/ row'.count = row.count + 1
    BY <1>n, <1>f, <1>5, <2>1
  <2>4. WindowBound'
    BY <1>n, <1>5, <2>2, <2>3 DEF WindowBound
  <2> QED BY <1>5, <2>1, <2>3, <2>4, WindowStep
<1>6. ASSUME NEW l \in Logins, RegisterFailureDistributed(l)
      PROVE  WindowInv'
  BY <1>n, <1>5, <1>6 DEF RegisterFailureDistributed
<1>7. ASSUME NEW l \in Logins, NEW committed \in BOOLEAN, RegisterFailureFallback(l, committed)
      PROVE  WindowInv'
  <2>1. /\ login[l].pc = "register" /\ End(l) /\ now' = now /\ outages' = outages + 1
        /\ row' = row \/ row' = RegisterFailureState(row, login[l].at)
    BY <1>7 DEF RegisterFailureFallback, StoreFails
  <2> QED BY <1>n, <1>5, <2>1
<1>8. ASSUME NEW l \in Logins, DeleteState(l)
      PROVE  WindowInv'
  <2>1. /\ login' = [login EXCEPT ![l] = Idle] /\ now' = now
        /\ row' = row \/ row' = ZeroState
        /\ outages' = outages \/ outages' = outages + 1
    BY <1>8 DEF DeleteState, StoreFails, End
  <2>2. /\ Locked(row') /\ row'.startedAt <= now
        /\ row'.count \in Nat /\ row'.count <= row.count
    <3>1. ZeroState.count = 0 /\ ZeroState.startedAt = -1
      BY DEF ZeroState, NoTime
    <3>2. Locked(ZeroState)
      BY <1>n, <3>1 DEF Locked
    <3> QED BY <1>n, <2>1, <3>1, <3>2
  <2>3. Cardinality(Pending') \in Nat /\ Cardinality(Pending') <= Cardinality(Pending)
    BY <1>e, <2>1, PendingChanges
  <2>4. WindowBound'
    BY <1>n, <2>1, <2>2, <2>3 DEF WindowBound
  <2>5. outages' \in Nat
    BY <1>n, <2>1
  <2> QED BY <2>1, <2>2, <2>4, <2>5, WindowStep
<1>9. ASSUME NEW i \in Instances, GuardRestart(i)
      PROVE  WindowInv'
  <2>1. /\ \A l \in Logins : login'[l] = Idle \/ login'[l] = login[l]
        /\ UNCHANGED <<row, now, outages>>
    BY <1>9 DEF GuardRestart
  <2> DEFINE S == Pending
             T == Pending'
  <2>2. T \subseteq S /\ IsFiniteSet(S)
    BY <1>e, <2>1, PendingSize DEF Pending
  <2>3. Cardinality(T) \in Nat /\ Cardinality(T) <= Cardinality(S)
    <3> HIDE DEF S, T
    <3> QED BY <2>2, FS_Subset, FS_CardinalityType
  <2>4. Punctual'
    BY <2>1 DEF WindowInv, Punctual
  <2>5. WindowBound'
    BY <1>n, <2>1, <2>3 DEF WindowBound
  <2> QED BY <1>n, <2>1, <2>4, <2>5 DEF WindowInv, Locked
<1>10. CASE GuardTick
  <2>1. now' = now + 1 /\ UNCHANGED <<row, login, outages>>
    BY <1>10 DEF GuardTick
  <2>2. Punctual'
    <3> SUFFICES ASSUME NEW l \in Logins, login'[l] # Idle
                 PROVE  now' - login'[l].at < MaxDelay
      BY DEF Punctual
    <3>1. now + 1 - login[l].at < MaxDelay
      BY <1>10, <2>1 DEF GuardTick
    <3>2. login[l] \in LoginRecords
      BY <2>1 DEF GuardInv
    <3> QED BY <1>n, <2>1, <3>1, <3>2 DEF LoginRecords
  <2>3. WindowBound'
    BY <2>1 DEF WindowInv, WindowBound, Pending
  <2>4. row'.startedAt <= now'
    BY <1>n, <2>1
  <2> QED BY <1>n, <2>1, <2>2, <2>3, <2>4 DEF WindowInv, Locked
<1>11. CASE UNCHANGED guardVars
  BY <1>11 DEF guardVars, WindowInv, Locked, Pending, Punctual, WindowBound
<1> QED
  BY <1>1, <1>2, <1>3, <1>4, <1>6, <1>7, <1>8, <1>9, <1>10, <1>11 DEF GuardNext

LEMMA InitWindowInv == GuardInit => WindowInv
<1> SUFFICES ASSUME GuardInit PROVE WindowInv
  OBVIOUS
<1>1. row.count = 0 /\ row.startedAt = -1 /\ now = 0 /\ outages = 0
  BY DEF GuardInit, ZeroState, NoTime
<1>2. Locked(row)
  BY <1>1, GuardAssumption DEF Locked
<1>3. Punctual
  BY DEF GuardInit, Punctual
<1>4. WindowBound
  BY <1>1, PendingSize, GuardAssumption DEF WindowBound
<1> QED BY <1>1, <1>2, <1>3, <1>4 DEF WindowInv

\* Passwords tried against the shared row of one window are bounded by the
\* threshold, the logins in flight and the store's failures, when a lockout
\* outlasts a window and the delay of a step (registerFailureDistributed).
THEOREM FailuresPerWindowAreBounded ==
    LockoutOutlastsWindow => (GuardSpec => []FailuresPerWindowBounded)
<1> SUFFICES ASSUME LockoutOutlastsWindow PROVE GuardSpec => []FailuresPerWindowBounded
  OBVIOUS
<1>1. GuardInv /\ WindowInv /\ [GuardNext]_guardVars => WindowInv'
  BY NextWindowInv
<1>2. GuardInv /\ WindowInv => FailuresPerWindowBounded
  BY Numbers DEF FailuresPerWindowBounded
<1> QED BY <1>1, <1>2, InitWindowInv, GuardInvHolds, PTL DEF GuardSpec

------------------------------------------------------------------------------
(* What the limiter does to a row or to the state of an instance.  OverLimit *)
(* is inductive for one state as it stands.                                *)

LEMMA FreshWindowLimit ==
    ASSUME NEW at \in Nat
    PROVE  OverLimit(FreshWindow(at))
BY FreshWindowState, LimiterAssumption DEF OverLimit

\* Normalizing a state leaves it, or starts a window.
LEMMA LimiterNormalized ==
    ASSUME NEW state \in States, NEW at \in Nat
    PROVE  \/ /\ NormalizeState(state, at, TRUE) = state
              /\ ~ WindowOver(state, at)
              /\ ~ BlockOver(state, at)
           \/ /\ NormalizeState(state, at, TRUE) = FreshWindow(at)
              /\ WindowOver(state, at) \/ BlockOver(state, at)
BY DEF NormalizeState

\* One event more, and the block it starts.
Counted(state, at) ==
    [state EXCEPT !.count = @ + 1,
       !.blockedUntil = IF state.count + 1 > MaxRequests
                        THEN BlockedUntilFor(state.startedAt, at) ELSE @]

LEMMA CountedState ==
    ASSUME NEW state \in States, NEW at \in Nat, OverLimit(state),
           state.startedAt # NoTime, state.blockedUntil = NoTime
    PROVE  Counted(state, at) \in States /\ OverLimit(Counted(state, at))
<1>1. state.count \in Nat /\ state.startedAt \in Nat /\ state.count <= MaxRequests
  BY LimiterAssumption DEF States, OverLimit, NoTime
<1>2. BlockedUntilFor(state.startedAt, at) \in Nat
  BY <1>1, LimiterAssumption, WindowAssumption DEF BlockedUntilFor
<1> DEFINE until == IF state.count + 1 > MaxRequests
                    THEN BlockedUntilFor(state.startedAt, at) ELSE NoTime
           next == Counted(state, at)
<1>3. until \in Nat \cup {NoTime}
  BY <1>2
<1>4. next.count = state.count + 1
  BY DEF Counted, States
<1>5. next.blockedUntil = until
  BY DEF Counted, States
<1>6. next \in States
  <2>1. next = [state EXCEPT !.count = state.count + 1, !.blockedUntil = until]
    BY DEF Counted, States
  <2> HIDE DEF next, until
  <2>2. state.count + 1 \in Nat
    BY <1>1
  <2> QED BY <1>3, <2>1, <2>2 DEF States
<1>7. until # NoTime <=> state.count + 1 > MaxRequests
  BY <1>2 DEF NoTime
<1> HIDE DEF next, until
<1>8. OverLimit(next)
  BY <1>1, <1>4, <1>5, <1>7, LimiterAssumption DEF OverLimit
<1> QED BY <1>6, <1>8 DEF next

\* Consuming an event keeps a state well-formed and over the limit by at most
\* the one event that started its block.
LEMMA ConsumedState ==
    ASSUME NEW state \in States, NEW at \in Nat, OverLimit(state)
    PROVE  Consumed(state, at) \in States /\ OverLimit(Consumed(state, at))
<1> DEFINE n == NormalizeState(state, at, TRUE)
<1>0. \/ n = state /\ ~ WindowOver(state, at) /\ ~ BlockOver(state, at)
      \/ n = FreshWindow(at)
  BY LimiterNormalized
<1>1. Consumed(state, at) = IF IsBlocked(n, at) THEN n
        ELSE [n EXCEPT !.count = n.count + 1,
                !.blockedUntil = IF n.count + 1 > MaxRequests
                                 THEN BlockedUntilFor(n.startedAt, at) ELSE @]
  BY DEF Consumed
<1> HIDE DEF n
<1>2. n \in States /\ OverLimit(n)
  BY <1>0, FreshWindowState, FreshWindowLimit
<1>3. n.startedAt # NoTime
  <2>1. at # NoTime
    BY DEF NoTime
  <2> QED BY <1>0, <2>1, FreshWindowState, FreshWindowLimit DEF WindowOver
<1>4. CASE IsBlocked(n, at)
  BY <1>1, <1>2, <1>4
<1>5. CASE ~ IsBlocked(n, at)
  <2>1. n.blockedUntil = NoTime
    <3>1. CASE n = state /\ ~ BlockOver(state, at)
      <4>1. state.blockedUntil \in Nat \cup {NoTime}
        BY DEF States
      <4> QED BY <1>5, <3>1, <4>1 DEF IsBlocked, BlockOver, NoTime
    <3> QED BY <1>0, <3>1, FreshWindowState, FreshWindowLimit
  <2>2. Consumed(state, at) = Counted(n, at)
    BY <1>1, <1>5 DEF Counted
  <2> QED BY <1>2, <1>3, <2>1, <2>2, CountedState
<1> QED BY <1>4, <1>5

\* Of a state blocked and in its window, as seen by now, a request that read
\* the clock earlier changes nothing.
LEMMA BlockedUnchanged ==
    ASSUME NEW state \in States, NEW t \in Nat, NEW at \in Nat, at <= t,
           IsBlocked(state, t), ~ WindowOver(state, t)
    PROVE  Consumed(state, at) = state
<1>1. state.blockedUntil \in Nat \cup {NoTime} /\ state.startedAt \in Nat \cup {NoTime}
  BY DEF States
<1>2. IsBlocked(state, at) /\ ~ BlockOver(state, at)
  BY <1>1 DEF IsBlocked, BlockOver, NoTime
<1>3. ~ WindowOver(state, at)
  BY <1>1, WindowAssumption DEF WindowOver, NoTime
<1>4. NormalizeState(state, at, TRUE) = state
  BY <1>2, <1>3, LimiterNormalized
<1> QED BY <1>2, <1>4 DEF Consumed

\* What the row has admitted never exceeds what it has counted, and a request
\* is admitted only where one more fits.
LEMMA ConsumedAdmits ==
    ASSUME row \in States, admitted \in Nat, AdmissionsBounded, NEW at \in Nat
    PROVE  LET before == AdmittedBefore(at)
               count == Consumed(row, at).count
           IN  /\ before \in Nat /\ before <= MaxRequests /\ before <= count
               /\ Allows(row, at) => before + 1 <= MaxRequests /\ before + 1 <= count
<1> DEFINE n == NormalizeState(row, at, TRUE)
           before == AdmittedBefore(at)
<1>1. n \in States
  BY LimiterNormalized, FreshWindowState, FreshWindowLimit
<1>2. n.count \in Nat
  BY <1>1 DEF States
<1>3. before \in Nat /\ before <= MaxRequests /\ before <= n.count
  <2>1. before = IF n = row THEN admitted ELSE 0
    BY DEF AdmittedBefore
  <2> HIDE DEF n, before
  <2>2. CASE n = row
    BY <2>1, <2>2 DEF AdmissionsBounded
  <2>3. CASE n # row
    <3>1. before = 0
      BY <2>1, <2>3
    <3> QED BY <1>2, <3>1, LimiterAssumption
  <2> QED BY <2>2, <2>3
<1>4. Consumed(row, at).count = IF IsBlocked(n, at) THEN n.count ELSE n.count + 1
  <2> DEFINE until == IF n.count + 1 > MaxRequests
                      THEN BlockedUntilFor(n.startedAt, at) ELSE n.blockedUntil
  <2>1. Consumed(row, at) = IF IsBlocked(n, at) THEN n
          ELSE [n EXCEPT !.count = n.count + 1, !.blockedUntil = until]
    BY DEF Consumed
  <2> HIDE DEF n, until
  <2> QED BY <1>1, <2>1 DEF States
<1>5. Allows(row, at) => ~ IsBlocked(n, at) /\ n.count + 1 <= MaxRequests
  BY DEF Allows
<1> HIDE DEF n, before
<1>6. before <= Consumed(row, at).count
  BY <1>2, <1>3, <1>4
<1>7. Allows(row, at) => before + 1 <= MaxRequests /\ before + 1 <= Consumed(row, at).count
  BY <1>2, <1>3, <1>4, <1>5, LimiterAssumption
<1> QED BY <1>3, <1>6, <1>7 DEF before

------------------------------------------------------------------------------
(* The invariant of the limiter.                                           *)

RequestRecords == [pc : {"consume"}, instance : Instances, at : Nat]

\* A request in flight read the clock in the past.
RequestClocksRead == \A r \in Requests : request[r] # Idle => request[r].at <= now

LimiterInv == LimiterTypeOK /\ OverLimitIsBlocked /\ RequestClocksRead /\ AdmissionsBounded

LEMMA InFlightRequest ==
    ASSUME LimiterTypeOK, RequestClocksRead, NEW r \in Requests, request[r].pc = "consume"
    PROVE  /\ request[r].instance \in Instances
           /\ request[r].at \in Nat
           /\ request[r].at <= now
<1>1. Idle.pc # "consume"
  BY DEF Idle
<1>2. request[r] \in RequestRecords /\ request[r] # Idle
  BY <1>1 DEF LimiterTypeOK, RequestRecords
<1> QED BY <1>2 DEF RequestRecords, RequestClocksRead

LEMMA InitLimiterInv == LimiterInit => LimiterInv
<1> SUFFICES ASSUME LimiterInit PROVE LimiterInv
  OBVIOUS
<1>1. ZeroState \in States /\ OverLimit(ZeroState)
  BY LimiterAssumption DEF ZeroState, States, OverLimit, NoTime
<1>2. LimiterTypeOK
  <2> USE BoundsAssumption
  <2> QED BY <1>1 DEF LimiterInit, LimiterTypeOK
<1>3. OverLimitIsBlocked
  BY <1>1 DEF LimiterInit, OverLimitIsBlocked
<1>4. RequestClocksRead
  BY DEF LimiterInit, RequestClocksRead
<1>5. AdmissionsBounded
  BY LimiterAssumption DEF LimiterInit, AdmissionsBounded, ZeroState
<1> QED BY <1>2, <1>3, <1>4, <1>5 DEF LimiterInv

\* A request that ends leaves the others as they are.
LEMMA EndOfRequest ==
    ASSUME LimiterInv, NEW r \in Requests, request' = [request EXCEPT ![r] = Idle], now' = now
    PROVE  /\ request' \in [Requests -> RequestRecords \cup {Idle}]
           /\ RequestClocksRead'
BY DEF LimiterInv, LimiterTypeOK, RequestRecords, RequestClocksRead

LEMMA NextLimiterInv == LimiterInv /\ [LimiterNext]_limiterVars => LimiterInv'
<1> SUFFICES ASSUME LimiterInv, [LimiterNext]_limiterVars PROVE LimiterInv'
  OBVIOUS
<1>0. LimiterTypeOK /\ OverLimitIsBlocked /\ RequestClocksRead /\ AdmissionsBounded
  BY DEF LimiterInv
<1>1. ASSUME NEW r \in Requests, NEW i \in Instances, Consume(r, i)
      PROVE  LimiterInv'
  <2> DEFINE q == [pc |-> "consume", instance |-> i, at |-> now]
  <2>1. q \in RequestRecords /\ q.at = now
    BY <1>0 DEF RequestRecords, LimiterTypeOK
  <2>2. request' = [request EXCEPT ![r] = q] /\ UNCHANGED <<row, local, now, outages, admitted>>
    BY <1>1 DEF Consume
  <2> HIDE DEF q
  <2>3. LimiterTypeOK'
    BY <1>0, <2>1, <2>2 DEF LimiterTypeOK, RequestRecords
  <2>4. RequestClocksRead'
    BY <1>0, <2>1, <2>2 DEF RequestClocksRead, LimiterTypeOK
  <2>5. OverLimitIsBlocked'
    BY <1>0, <2>2 DEF OverLimitIsBlocked
  <2>6. AdmissionsBounded'
    BY <1>0, <2>2 DEF AdmissionsBounded
  <2> QED BY <2>3, <2>4, <2>5, <2>6 DEF LimiterInv
<1>2. ASSUME NEW r \in Requests, ConsumeDistributed(r)
      PROVE  LimiterInv'
  <2>1. /\ row' = Consumed(row, request[r].at)
        /\ request' = [request EXCEPT ![r] = Idle]
        /\ UNCHANGED <<local, now, outages>>
        /\ request[r].pc = "consume"
    BY <1>2 DEF ConsumeDistributed
  <2>2. row' \in States /\ OverLimit(row')
    BY <1>0, <2>1, InFlightRequest, ConsumedState DEF LimiterTypeOK, OverLimitIsBlocked
  <2>3. admitted' \in Nat /\ AdmissionsBounded'
    <3> DEFINE before == AdmittedBefore(request[r].at)
    <3>1. /\ before \in Nat /\ before <= MaxRequests /\ before <= row'.count
          /\ Allows(row, request[r].at) => before + 1 <= MaxRequests /\ before + 1 <= row'.count
      BY <1>0, <2>1, InFlightRequest, ConsumedAdmits DEF LimiterTypeOK
    <3>2. admitted' = IF Allows(row, request[r].at) THEN before + 1 ELSE before
      BY <1>2 DEF ConsumeDistributed
    <3> HIDE DEF before
    <3> QED BY <3>1, <3>2 DEF AdmissionsBounded
  <2>4. request' \in [Requests -> RequestRecords \cup {Idle}] /\ RequestClocksRead'
    BY <2>1, EndOfRequest
  <2>5. LimiterTypeOK'
    BY <1>0, <2>1, <2>2, <2>3, <2>4 DEF LimiterTypeOK, RequestRecords
  <2>6. OverLimitIsBlocked'
    BY <1>0, <2>1, <2>2 DEF OverLimitIsBlocked
  <2> QED BY <2>3, <2>4, <2>5, <2>6 DEF LimiterInv
<1>3. ASSUME NEW r \in Requests, NEW committed \in BOOLEAN, ConsumeLocal(r, committed)
      PROVE  LimiterInv'
  <2> DEFINE i == request[r].instance
             at == request[r].at
  <2>1. /\ row' = Consumed(row, at) \/ row' = row
        /\ local' = [local EXCEPT ![i] = Consumed(local[i], at)]
        /\ request' = [request EXCEPT ![r] = Idle]
        /\ UNCHANGED now
        /\ outages < MaxOutages /\ outages' = outages + 1
        /\ request[r].pc = "consume"
    BY <1>3 DEF ConsumeLocal, StoreFails
  <2>2. i \in Instances /\ at \in Nat
    BY <1>0, <2>1, InFlightRequest
  <2>a. \/ row' = row /\ admitted' = admitted
        \/ row' = Consumed(row, at) /\ admitted' = AdmittedBefore(at)
    BY <1>3 DEF ConsumeLocal, StoreFails
  <2> HIDE DEF i, at
  <2>b. admitted' \in Nat /\ AdmissionsBounded'
    <3>1. CASE row' = row /\ admitted' = admitted
      BY <1>0, <3>1 DEF LimiterTypeOK, AdmissionsBounded
    <3>2. CASE row' = Consumed(row, at) /\ admitted' = AdmittedBefore(at)
      BY <1>0, <2>2, <3>2, ConsumedAdmits DEF LimiterTypeOK, AdmissionsBounded
    <3> QED BY <2>a, <3>1, <3>2
  <2>3. row' \in States /\ OverLimit(row')
    BY <1>0, <2>1, <2>2, ConsumedState DEF LimiterTypeOK, OverLimitIsBlocked
  <2>4. Consumed(local[i], at) \in States /\ OverLimit(Consumed(local[i], at))
    BY <1>0, <2>2, ConsumedState DEF LimiterTypeOK, OverLimitIsBlocked
  <2>5. local' \in [Instances -> States] /\ \A j \in Instances : OverLimit(local'[j])
    BY <1>0, <2>1, <2>2, <2>4 DEF LimiterTypeOK, OverLimitIsBlocked
  <2>6. request' \in [Requests -> RequestRecords \cup {Idle}] /\ RequestClocksRead'
    BY <2>1, EndOfRequest
  <2>7. outages' \in 0 .. MaxOutages
    BY <1>0, <2>1, BoundsAssumption DEF LimiterTypeOK
  <2>8. LimiterTypeOK'
    BY <1>0, <2>1, <2>3, <2>5, <2>6, <2>7, <2>b DEF LimiterTypeOK, RequestRecords
  <2> QED BY <2>3, <2>5, <2>6, <2>8, <2>b DEF LimiterInv, OverLimitIsBlocked
<1>4. ASSUME NEW i \in Instances, LimiterRestart(i)
      PROVE  LimiterInv'
  <2>1. ZeroState \in States /\ OverLimit(ZeroState)
    BY LimiterAssumption DEF ZeroState, States, OverLimit, NoTime
  <2>2. local' \in [Instances -> States] /\ \A j \in Instances : OverLimit(local'[j])
    BY <1>0, <1>4, <2>1 DEF LimiterRestart, LimiterTypeOK, OverLimitIsBlocked
  <2>3. \A r \in Requests : request'[r] = Idle \/ request'[r] = request[r]
    BY <1>4 DEF LimiterRestart
  <2>4. request' \in [Requests -> RequestRecords \cup {Idle}]
    BY <1>0, <1>4 DEF LimiterRestart, LimiterTypeOK, RequestRecords
  <2>5. UNCHANGED <<row, now, outages, admitted>>
    BY <1>4 DEF LimiterRestart
  <2>6. LimiterTypeOK'
    BY <1>0, <2>2, <2>4, <2>5 DEF LimiterTypeOK, RequestRecords
  <2>7. RequestClocksRead'
    BY <1>0, <2>3, <2>5 DEF RequestClocksRead
  <2> QED BY <1>0, <2>2, <2>5, <2>6, <2>7 DEF LimiterInv, OverLimitIsBlocked, AdmissionsBounded
<1>5. CASE LimiterTick
  <2>1. now' = now + 1 /\ UNCHANGED <<row, local, request, outages, admitted>>
    BY <1>5 DEF LimiterTick
  <2>2. LimiterTypeOK'
    BY <1>0, <2>1 DEF LimiterTypeOK
  <2>3. RequestClocksRead'
    <3> SUFFICES ASSUME NEW r \in Requests, request[r] # Idle
                 PROVE  request[r].at <= now + 1
      BY <2>1 DEF RequestClocksRead
    <3>1. request[r] \in RequestRecords /\ now \in Nat
      BY <1>0 DEF LimiterTypeOK, RequestRecords
    <3>2. request[r].at \in Nat /\ request[r].at <= now
      BY <1>0, <3>1 DEF RequestRecords, RequestClocksRead
    <3> QED BY <3>1, <3>2
  <2> QED BY <1>0, <2>1, <2>2, <2>3 DEF LimiterInv, OverLimitIsBlocked, AdmissionsBounded
<1>6. CASE UNCHANGED limiterVars
  BY <1>0, <1>6 DEF LimiterInv, LimiterTypeOK, OverLimitIsBlocked, RequestClocksRead, AdmissionsBounded, limiterVars
<1> QED
  BY <1>1, <1>2, <1>3, <1>4, <1>5, <1>6 DEF LimiterNext

LEMMA LimiterInvHolds == LimiterSpec => []LimiterInv
BY InitLimiterInv, NextLimiterInv, PTL DEF LimiterSpec

------------------------------------------------------------------------------
(* The theorems.                                                           *)

\* Rows, local states and requests in flight keep their types.
THEOREM LimiterTypeCorrect == LimiterSpec => []LimiterTypeOK
BY LimiterInvHolds, PTL DEF LimiterInv

\* The shared row and the fallback states carry a block exactly when they have
\* counted the one request too many, however requests interleave.
THEOREM OverLimitAlwaysBlocked == LimiterSpec => []OverLimitIsBlocked
BY LimiterInvHolds, PTL DEF LimiterInv

\* No window admits more than MaxRequests requests through the shared row, for
\* any number of requests and instances (consumeDistributed).
THEOREM AdmissionsAreBounded == LimiterSpec => []AdmissionsBounded
BY LimiterInvHolds, PTL DEF LimiterInv

\* While the key is blocked no request prolongs or lifts the block, whatever
\* clock it read.
THEOREM BlockStands == LimiterSpec => BlockIsStable
<1>1. LimiterInv /\ [LimiterNext]_limiterVars => [IsBlocked(row, now) /\ ~ WindowOver(row, now) => row' = row]_limiterVars
  <2> SUFFICES ASSUME LimiterInv, [LimiterNext]_limiterVars, IsBlocked(row, now), ~ WindowOver(row, now)
               PROVE  row' = row
    OBVIOUS
  <2>0. LimiterTypeOK /\ RequestClocksRead /\ row \in States /\ now \in Nat
    BY DEF LimiterInv, LimiterTypeOK
  <2>1. ASSUME NEW r \in Requests, request[r].pc = "consume"
        PROVE  Consumed(row, request[r].at) = row
    BY <2>0, <2>1, InFlightRequest, BlockedUnchanged
  <2> QED
    BY <2>1 DEF LimiterNext, limiterVars, Consume, ConsumeDistributed, ConsumeLocal, StoreFails, LimiterRestart, LimiterTick
<1> QED
  BY <1>1, LimiterInvHolds, PTL DEF LimiterSpec, BlockIsStable
==============================================================================
