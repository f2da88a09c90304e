------------------------- MODULE ProjectAccessProofs -------------------------
(***************************************************************************)
(* Proofs about ProjectAccess, for any users, projects and requests: the   *)
(* membership table never contradicts the owners, removals stick, only     *)
(* managers change members and grants are justified.                       *)
(***************************************************************************)
EXTENDS ProjectAccess, TLAPS

USE RoleAssumption, AbsentAssumption

\* The steps at which a request is going to change a membership row it was
\* allowed to change by prepareProjectMemberMutation.
Mutations == {"add", "read", "update", "revoke"}

\* What a request in flight still knows to be true although the statement it
\* learned it from is over, because a project keeps its owner for good.
Current(r) ==
    /\ req[r].pc = "ownerRow" =>
          req[r].held \in Users /\ owner[req[r].project] = req[r].held
    /\ req[r].pc \in Mutations =>
          /\ Exists(req[r].project)
          /\ req[r].target # owner[req[r].project]
          /\ Role[req[r].actor] = "admin" \/ owner[req[r].project] = req[r].actor

\* A resolution that found no project to see has found a right to create it.
Justified(r) ==
    \/ req[r].pc \in {"ensure", "autocreate", "granted"}
    \/ req[r].pc = "ownerRow" /\ req[r].resolves
    => req[r].project \in entitled[r]

\* Rows are written for projects only.
RowsOfProjects ==
    \A p \in Projects, u \in Users : ~ Exists(p) => member[p][u] = "none"

\* The inductive invariant.
AccessInv ==
    /\ TypeOK
    /\ \A r \in Requests : Current(r) /\ Justified(r)
    /\ RowsOfProjects
    /\ OwnershipCoherent

\* A project that has an owner keeps it.
OwnersStay == \A p \in Projects : Exists(p) => owner'[p] = owner[p]

------------------------------------------------------------------------------
(* Requests and statements.                                                *)

LEMMA InFlightRecord ==
    ASSUME TypeOK, NEW r \in Requests, req[r].pc # "idle"
    PROVE  req[r] \in RequestRecords
BY DEF TypeOK, Idle

LEMMA IdleHasNoStep ==
    ASSUME NEW q \in RequestRecords
    PROVE  q.pc # "idle" /\ q # Idle
BY DEF RequestRecords, Steps, Idle

LEMMA BeginRecord ==
    ASSUME NEW pc \in Steps, NEW u \in Users, NEW p \in Projects
    PROVE  /\ Begin(pc, u, p) \in RequestRecords
           /\ Begin(pc, u, p).pc = pc
           /\ Begin(pc, u, p).actor = u
           /\ Begin(pc, u, p).project = p
BY DEF Begin, RequestRecords, Assignable

LEMMA Upserted ==
    ASSUME TypeOK, NEW p \in Projects, NEW u \in Users, UpsertProject(p, u)
    PROVE  /\ owner' \in [Projects -> Users \cup {NoUser}]
           /\ OwnersStay
           /\ owner'[p] \in Users
           /\ \A o \in Projects : o # p => owner'[o] = owner[o]
BY DEF TypeOK, UpsertProject, OwnersStay, Exists

\* A request that does not move keeps what it knows.
LEMMA OthersKeep ==
    ASSUME AccessInv, OwnersStay, Witness,
           NEW s \in Requests, req'[s] = req[s]
    PROVE  Current(s)' /\ Justified(s)'
<1>1. CASE req[s].pc = "idle"
  BY <1>1 DEF Current, Justified, Mutations
<1>2. CASE req[s].pc # "idle"
  <2>1. req[s] \in RequestRecords /\ req[s] # Idle
    BY <1>2, InFlightRecord, IdleHasNoStep DEF AccessInv
  <2>2. req[s].project \in Projects
    BY <2>1 DEF RequestRecords
  <2>3. Current(s) /\ Justified(s)
    BY DEF AccessInv
  <2>4. Exists(req[s].project) => owner'[req[s].project] = owner[req[s].project]
    BY <2>2 DEF OwnersStay
  <2>5. Current(s)'
    BY <2>3, <2>4 DEF Current, Exists
  <2>6. entitled[s] \subseteq entitled'[s]
    BY <2>1 DEF Witness
  <2>7. Justified(s)'
    BY <2>3, <2>6 DEF Justified
  <2> QED BY <2>5, <2>7
<1> QED BY <1>1, <1>2

\* A request that is over knows nothing.
LEMMA IdleKnows ==
    ASSUME NEW r \in Requests, req'[r] = Idle
    PROVE  Current(r)' /\ Justified(r)'
BY DEF Current, Justified, Mutations, Idle

LEMMA WitnessType ==
    ASSUME TypeOK, Witness
    PROVE  entitled' \in [Requests -> SUBSET Projects]
BY DEF TypeOK, Witness, EntitledProjects

\* The history of a request in flight has what it is entitled to now.
LEMMA EntitledNow ==
    ASSUME Witness, NEW r \in Requests, req'[r] # Idle,
           NEW p \in Projects, Entitled(req[r].actor, p)'
    PROVE  p \in entitled'[r]
BY DEF Witness, EntitledProjects

\* What the history has stays there while the request is in flight.
LEMMA EntitledBefore ==
    ASSUME Witness, NEW r \in Requests, req'[r] # Idle,
           NEW p \in entitled[r]
    PROVE  p \in entitled'[r]
BY DEF Witness

\* One request moves, the others stay where they are.
LEMMA MoveKeeps ==
    ASSUME AccessInv, Witness, OwnersStay,
           NEW r \in Requests, NEW q \in RequestRecords \cup {Idle},
           req' = [req EXCEPT ![r] = q],
           owner' \in [Projects -> Users \cup {NoUser}],
           member' \in [Projects -> [Users -> MemberRows]],
           default' \in [Users -> Projects \cup {NoProject}],
           q # Idle => Current(r)' /\ Justified(r)',
           RowsOfProjects', OwnershipCoherent'
    PROVE  AccessInv'
<1>1. req' \in [Requests -> RequestRecords \cup {Idle}] /\ req'[r] = q
  BY DEF AccessInv, TypeOK
<1>2. entitled' \in [Requests -> SUBSET Projects]
  BY WitnessType DEF AccessInv
<1>3. ASSUME NEW s \in Requests
      PROVE  Current(s)' /\ Justified(s)'
  <2>1. CASE s = r
    BY <1>1, <2>1, IdleKnows
  <2>2. CASE s # r
    <3>1. req'[s] = req[s]
      BY <2>2 DEF AccessInv, TypeOK
    <3> QED BY <3>1, OthersKeep
  <2> QED BY <2>1, <2>2
<1>4. \A s \in Requests : (req[s].pc = "ownerRow")' => (req[s].held \in Users)'
  BY <1>3 DEF Current
<1>5. TypeOK'
  BY <1>1, <1>2, <1>4 DEF TypeOK
<1> QED BY <1>3, <1>5 DEF AccessInv

\* A move that writes no row of the projects and their members.
LEMMA QuietMoveKeeps ==
    ASSUME AccessInv, Witness, UNCHANGED <<owner, member>>,
           NEW r \in Requests, NEW q \in RequestRecords \cup {Idle},
           req' = [req EXCEPT ![r] = q],
           default' \in [Users -> Projects \cup {NoProject}],
           q # Idle => Current(r)' /\ Justified(r)'
    PROVE  AccessInv'
<1>1. OwnersStay /\ RowsOfProjects' /\ OwnershipCoherent'
  BY DEF OwnersStay, AccessInv, RowsOfProjects, OwnershipCoherent, Exists
<1> QED BY <1>1, MoveKeeps DEF AccessInv, TypeOK

\* A move that writes one row of the members of an existing project.
LEMMA RowMoveKeeps ==
    ASSUME AccessInv, Witness, UNCHANGED <<owner, default>>,
           NEW r \in Requests, NEW q \in RequestRecords \cup {Idle},
           req' = [req EXCEPT ![r] = q],
           NEW p \in Projects, NEW u \in Users, NEW row \in MemberRows,
           member' = [member EXCEPT ![p][u] = row],
           Exists(p), row = "owner" <=> owner[p] = u,
           q # Idle => Current(r)' /\ Justified(r)'
    PROVE  AccessInv'
<1>1. member' \in [Projects -> [Users -> MemberRows]]
  BY DEF AccessInv, TypeOK
<1>2. \A o \in Projects, v \in Users :
        member'[o][v] = IF o = p /\ v = u THEN row ELSE member[o][v]
  BY DEF AccessInv, TypeOK
<1>3. OwnersStay /\ RowsOfProjects' /\ OwnershipCoherent'
  BY <1>2 DEF OwnersStay, AccessInv, RowsOfProjects, OwnershipCoherent, Exists
<1> QED BY <1>1, <1>3, MoveKeeps DEF AccessInv, TypeOK

\* A move that creates a project unless there is one.
LEMMA UpsertMoveKeeps ==
    ASSUME AccessInv, Witness, UNCHANGED <<member, default>>,
           NEW r \in Requests, NEW q \in RequestRecords \cup {Idle},
           req' = [req EXCEPT ![r] = q],
           NEW p \in Projects, NEW u \in Users, UpsertProject(p, u),
           q # Idle => Current(r)' /\ Justified(r)'
    PROVE  AccessInv'
<1>1. /\ owner' \in [Projects -> Users \cup {NoUser}]
      /\ OwnersStay
      /\ owner'[p] \in Users
      /\ \A o \in Projects : o # p => owner'[o] = owner[o]
  BY Upserted DEF AccessInv
<1>2. RowsOfProjects'
  BY <1>1 DEF AccessInv, RowsOfProjects, Exists
<1>3. OwnershipCoherent'
  BY <1>1 DEF AccessInv, RowsOfProjects, OwnershipCoherent, OwnersStay, Exists
<1> QED BY <1>1, <1>2, <1>3, MoveKeeps DEF AccessInv, TypeOK

------------------------------------------------------------------------------
(* The invariant is inductive, action by action.                           *)

\* The record a request goes on with at the next step.
LEMMA GotoRecord ==
    ASSUME TypeOK, NEW r \in Requests, req[r].pc # "idle", NEW pc \in Steps, Goto(r, pc)
    PROVE  \E q \in RequestRecords :
             /\ req' = [req EXCEPT ![r] = q]
             /\ req'[r] = q /\ q # Idle /\ q.pc = pc
             /\ q.actor = req[r].actor /\ q.project = req[r].project
             /\ q.target = req[r].target /\ q.role = req[r].role
             /\ q.held = req[r].held /\ q.resolves = req[r].resolves
<1> DEFINE q == [req[r] EXCEPT !.pc = pc]
<1>1. req[r] \in RequestRecords
  BY InFlightRecord
<1>2. /\ q \in RequestRecords
      /\ q.pc = pc
      /\ q.actor = req[r].actor /\ q.project = req[r].project
      /\ q.target = req[r].target /\ q.role = req[r].role
      /\ q.held = req[r].held /\ q.resolves = req[r].resolves
  BY <1>1 DEF RequestRecords
<1>3. req' = [req EXCEPT ![r] = q]
  BY DEF Goto
<1>4. req'[r] = q
  BY <1>3 DEF TypeOK
<1> HIDE DEF q
<1> QED BY <1>2, <1>3, <1>4, IdleHasNoStep

LEMMA FinishKeeps ==
    ASSUME AccessInv, Witness, UNCHANGED <<owner, member>>,
           NEW r \in Requests, Finish(r),
           default' \in [Users -> Projects \cup {NoProject}]
    PROVE  AccessInv'
BY QuietMoveKeeps DEF Finish

LEMMA CreateProjectKeeps ==
    ASSUME AccessInv, Witness, NEW r \in Requests,
           NEW u \in Users, NEW p \in Projects, NEW o \in Users, CreateProject(r, u, p, o)
    PROVE  AccessInv'
<1> DEFINE q == [Begin("ownerRow", u, p) EXCEPT !.held = owner'[p], !.resolves = FALSE]
<1>1. UpsertProject(p, o) /\ req' = [req EXCEPT ![r] = q] /\ UNCHANGED <<member, default>>
  BY DEF CreateProject
<1>2. owner'[p] \in Users
  BY <1>1, Upserted DEF AccessInv
<1>3. /\ q \in RequestRecords
      /\ q.pc = "ownerRow" /\ q.project = p /\ q.held = owner'[p] /\ ~ q.resolves
  BY <1>2 DEF Begin, RequestRecords, Assignable, Steps
<1> HIDE DEF q
<1>4. req'[r] = q
  BY <1>1 DEF AccessInv, TypeOK
<1>5. Current(r)' /\ Justified(r)'
  BY <1>2, <1>3, <1>4 DEF Current, Justified, Mutations
<1> QED BY <1>1, <1>3, <1>5, UpsertMoveKeeps

LEMMA OwnerRowKeeps ==
    ASSUME AccessInv, Witness, NEW r \in Requests, OwnerRow(r)
    PROVE  AccessInv'
<1>1. req[r] \in RequestRecords /\ req[r].pc = "ownerRow"
  BY InFlightRecord DEF AccessInv, OwnerRow
<1>2. /\ req[r].project \in Projects
      /\ req[r].held \in Users /\ owner[req[r].project] = req[r].held
  BY <1>1 DEF RequestRecords, AccessInv, Current
<1>3. /\ member' = [member EXCEPT ![req[r].project][req[r].held] = "owner"]
      /\ UNCHANGED <<owner, default>>
      /\ Exists(req[r].project)
      /\ "owner" \in MemberRows
  BY <1>2 DEF OwnerRow, AddOrRestore, Exists, MemberRows
<1>4. CASE req[r].resolves
  <2>1. Goto(r, "granted") /\ "granted" \in Steps
    BY <1>4 DEF OwnerRow, Steps
  <2>2. PICK q \in RequestRecords :
          /\ req' = [req EXCEPT ![r] = q]
          /\ req'[r] = q /\ q # Idle /\ q.pc = "granted"
          /\ q.project = req[r].project
    BY <1>1, <2>1, GotoRecord DEF AccessInv
  <2>3. q.project \in entitled[r]
    BY <1>1, <1>4, <2>2 DEF AccessInv, Justified
  <2>4. Current(r)' /\ Justified(r)'
    BY <2>2, <2>3, EntitledBefore DEF Current, Justified, Mutations
  <2> QED BY <1>2, <1>3, <2>2, <2>4, RowMoveKeeps
<1>5. CASE ~ req[r].resolves
  <2>1. req' = [req EXCEPT ![r] = Idle]
    BY <1>5 DEF OwnerRow, Finish
  <2> QED BY <1>2, <1>3, <2>1, RowMoveKeeps
<1> QED BY <1>4, <1>5

LEMMA ResolveExplicitKeeps ==
    ASSUME AccessInv, Witness, NEW r \in Requests,
           NEW u \in Users, NEW p \in Projects, ResolveExplicit(r, u, p)
    PROVE  AccessInv'
<1>0. UNCHANGED <<owner, member, default>> /\ {"granted", "lookup"} \subseteq Steps
  BY DEF ResolveExplicit, Steps
<1>1. CASE /\ Visible(u, p) /\ CanWriteVisibleProject(u, p)
           /\ req' = [req EXCEPT ![r] = Begin("granted", u, p)]
  <2>1. req'[r] = Begin("granted", u, p)
    BY <1>1 DEF AccessInv, TypeOK
  <2>2. /\ req'[r] \in RequestRecords /\ req'[r] # Idle
        /\ req'[r].pc = "granted" /\ req'[r].actor = u /\ req'[r].project = p
    BY <1>0, <2>1, BeginRecord, IdleHasNoStep
  <2>3. Entitled(req[r].actor, p)'
    BY <1>0, <1>1, <2>2 DEF Entitled, Visible, CanWriteVisibleProject, Exists, ProjectRole
  <2>4. Current(r)' /\ Justified(r)'
    BY <2>2, <2>3, EntitledNow DEF Current, Justified, Mutations
  <2> QED BY <1>0, <1>1, <2>1, <2>2, <2>4, QuietMoveKeeps DEF AccessInv, TypeOK
<1>2. CASE req' = [req EXCEPT ![r] = Begin("lookup", u, p)]
  <2>1. req'[r] = Begin("lookup", u, p)
    BY <1>2 DEF AccessInv, TypeOK
  <2>2. req'[r] \in RequestRecords /\ req'[r].pc = "lookup"
    BY <1>0, <2>1, BeginRecord
  <2>3. Current(r)' /\ Justified(r)'
    BY <2>2 DEF Current, Justified, Mutations
  <2> QED BY <1>0, <1>2, <2>1, <2>2, <2>3, QuietMoveKeeps DEF AccessInv, TypeOK
<1> QED BY <1>1, <1>2 DEF ResolveExplicit

LEMMA LookupKeeps ==
    ASSUME AccessInv, Witness, NEW r \in Requests, Lookup(r)
    PROVE  AccessInv'
<1>0. req[r].pc = "lookup" /\ UNCHANGED <<owner, member, default>> /\ "ensure" \in Steps
  BY DEF Lookup, Steps
<1>1. CASE ~ Exists(req[r].project) /\ CanCreateProject(req[r].actor)
  <2>1. Goto(r, "ensure")
    BY <1>1 DEF Lookup
  <2>2. PICK q \in RequestRecords :
          /\ req' = [req EXCEPT ![r] = q]
          /\ req'[r] = q /\ q # Idle /\ q.pc = "ensure"
          /\ q.actor = req[r].actor /\ q.project = req[r].project
    BY <1>0, <2>1, GotoRecord DEF AccessInv
  <2>3. q.project \in Projects
    BY DEF RequestRecords
  <2>4. Entitled(req[r].actor, q.project)'
    BY <1>0, <1>1, <2>2 DEF Entitled, Exists
  <2>5. Current(r)' /\ Justified(r)'
    BY <2>2, <2>3, <2>4, EntitledNow DEF Current, Justified, Mutations
  <2> QED BY <1>0, <2>2, <2>5, QuietMoveKeeps DEF AccessInv, TypeOK
<1>2. CASE ~ (~ Exists(req[r].project) /\ CanCreateProject(req[r].actor))
  BY <1>0, <1>2, FinishKeeps DEF Lookup, AccessInv, TypeOK
<1> QED BY <1>1, <1>2

\* EnsureProjectExists and AutoCreate go on with the owner they have read.
LEMMA HeldRecord ==
    ASSUME TypeOK, NEW r \in Requests, req[r].pc # "idle", NEW o \in Users,
           req' = [req EXCEPT ![r].pc = "ownerRow", ![r].held = o]
    PROVE  \E q \in RequestRecords :
             /\ req' = [req EXCEPT ![r] = q]
             /\ req'[r] = q /\ q # Idle
             /\ q.pc = "ownerRow" /\ q.held = o /\ q.project = req[r].project
<1> DEFINE q == [req[r] EXCEPT !.pc = "ownerRow", !.held = o]
<1>1. req[r] \in RequestRecords
  BY InFlightRecord
<1>2. /\ q \in RequestRecords
      /\ q.pc = "ownerRow" /\ q.held = o /\ q.project = req[r].project
  BY <1>1 DEF RequestRecords, Steps
<1>3. req' = [req EXCEPT ![r] = q] /\ req'[r] = q
  BY DEF TypeOK
<1> HIDE DEF q
<1> QED BY <1>2, <1>3, IdleHasNoStep

LEMMA EnsureKeeps ==
    ASSUME AccessInv, Witness, NEW r \in Requests, EnsureProjectExists(r)
    PROVE  AccessInv'
<1>0. /\ req[r].pc = "ensure" /\ UNCHANGED <<owner, member, default>>
      /\ "autocreate" \in Steps
  BY DEF EnsureProjectExists, Steps
<1>1. req[r].project \in Projects /\ req[r].project \in entitled[r]
  BY <1>0, InFlightRecord DEF RequestRecords, AccessInv, Justified
<1>2. CASE Exists(req[r].project)
  <2>1. owner[req[r].project] \in Users
    BY <1>1, <1>2 DEF AccessInv, TypeOK, Exists
  <2>2. PICK q \in RequestRecords :
          /\ req' = [req EXCEPT ![r] = q]
          /\ req'[r] = q /\ q # Idle
          /\ q.pc = "ownerRow" /\ q.held = owner[req[r].project] /\ q.project = req[r].project
    BY <1>0, <1>2, <2>1, HeldRecord DEF EnsureProjectExists, AccessInv
  <2>3. Current(r)' /\ Justified(r)'
    BY <1>0, <1>1, <2>1, <2>2, EntitledBefore DEF Current, Justified, Mutations
  <2> QED BY <1>0, <2>2, <2>3, QuietMoveKeeps DEF AccessInv, TypeOK
<1>3. CASE ~ Exists(req[r].project)
  <2>1. Goto(r, "autocreate")
    BY <1>3 DEF EnsureProjectExists
  <2>2. PICK q \in RequestRecords :
          /\ req' = [req EXCEPT ![r] = q]
          /\ req'[r] = q /\ q # Idle
          /\ q.pc = "autocreate" /\ q.project = req[r].project
    BY <1>0, <2>1, GotoRecord DEF AccessInv
  <2>3. Current(r)' /\ Justified(r)'
    BY <1>1, <2>2, EntitledBefore DEF Current, Justified, Mutations
  <2> QED BY <1>0, <2>2, <2>3, QuietMoveKeeps DEF AccessInv, TypeOK
<1> QED BY <1>2, <1>3

LEMMA AutoCreateKeeps ==
    ASSUME AccessInv, Witness, NEW r \in Requests, AutoCreate(r)
    PROVE  AccessInv'
<1>0. /\ req[r].pc = "autocreate" /\ UNCHANGED <<member, default>>
      /\ UpsertProject(req[r].project, req[r].actor)
  BY DEF AutoCreate
<1>1. /\ req[r].project \in Projects /\ req[r].actor \in Users
      /\ req[r].project \in entitled[r]
  BY <1>0, InFlightRecord DEF RequestRecords, AccessInv, Justified
<1>2. owner'[req[r].project] \in Users
  BY <1>0, <1>1, Upserted DEF AccessInv
<1>3. PICK q \in RequestRecords :
        /\ req' = [req EXCEPT ![r] = q]
        /\ req'[r] = q /\ q # Idle
        /\ q.pc = "ownerRow" /\ q.held = owner'[req[r].project] /\ q.project = req[r].project
  <2>1. req' = [req EXCEPT ![r].pc = "ownerRow", ![r].held = owner'[req[r].project]]
    BY DEF AutoCreate
  <2> DEFINE o == owner'[req[r].project]
  <2>2. o \in Users /\ req' = [req EXCEPT ![r].pc = "ownerRow", ![r].held = o]
    BY <1>2, <2>1
  <2>3. \E q \in RequestRecords :
             /\ req' = [req EXCEPT ![r] = q]
             /\ req'[r] = q /\ q # Idle
             /\ q.pc = "ownerRow" /\ q.held = o /\ q.project = req[r].project
    <3> HIDE DEF o
    <3> QED BY <1>0, <2>2, HeldRecord DEF AccessInv
  <2> QED BY <2>3
<1>4. Current(r)' /\ Justified(r)'
  BY <1>1, <1>2, <1>3, EntitledBefore DEF Current, Justified, Mutations
<1> QED BY <1>0, <1>1, <1>3, <1>4, UpsertMoveKeeps

LEMMA ResolveDefaultKeeps ==
    ASSUME AccessInv, Witness, NEW r \in Requests, NEW u \in Users, ResolveDefault(r, u)
    PROVE  AccessInv'
<1>1. /\ default[u] \in Projects /\ UNCHANGED <<owner, member, default>>
      /\ req' = [req EXCEPT ![r] = Begin("default", u, default[u])]
      /\ "default" \in Steps
  BY DEF ResolveDefault, AccessInv, TypeOK, Steps
<1>2. req'[r] = Begin("default", u, default[u])
  BY <1>1 DEF AccessInv, TypeOK
<1>3. req'[r] \in RequestRecords /\ req'[r].pc = "default"
  BY <1>1, <1>2, BeginRecord
<1>4. Current(r)' /\ Justified(r)'
  BY <1>3 DEF Current, Justified, Mutations
<1> QED BY <1>1, <1>2, <1>3, <1>4, QuietMoveKeeps DEF AccessInv, TypeOK

LEMMA CheckDefaultKeeps ==
    ASSUME AccessInv, Witness, NEW r \in Requests, CheckDefault(r)
    PROVE  AccessInv'
<1>0. req[r].pc = "default" /\ UNCHANGED <<owner, member, default>> /\ "granted" \in Steps
  BY DEF CheckDefault, Steps
<1> DEFINE writable == /\ Visible(req[r].actor, req[r].project)
                       /\ CanWriteVisibleProject(req[r].actor, req[r].project)
<1>1. CASE writable
  <2>1. Goto(r, "granted")
    BY <1>1 DEF CheckDefault
  <2>2. PICK q \in RequestRecords :
          /\ req' = [req EXCEPT ![r] = q]
          /\ req'[r] = q /\ q # Idle /\ q.pc = "granted"
          /\ q.actor = req[r].actor /\ q.project = req[r].project
    BY <1>0, <2>1, GotoRecord DEF AccessInv
  <2>3. q.project \in Projects
    BY DEF RequestRecords
  <2>4. Entitled(req[r].actor, q.project)'
    BY <1>0, <1>1, <2>2
       DEF Entitled, Visible, CanWriteVisibleProject, Exists, ProjectRole
  <2>5. Current(r)' /\ Justified(r)'
    BY <2>2, <2>3, <2>4, EntitledNow DEF Current, Justified, Mutations
  <2> QED BY <1>0, <2>2, <2>5, QuietMoveKeeps DEF AccessInv, TypeOK
<1>2. CASE ~ writable
  BY <1>0, <1>2, FinishKeeps DEF CheckDefault, AccessInv, TypeOK
<1> QED BY <1>1, <1>2

LEMMA PrepareKeeps ==
    ASSUME AccessInv, Witness, NEW r \in Requests, NEW pc \in {"add", "read", "revoke"},
           NEW u \in Users, NEW p \in Projects, NEW t \in Users, NEW role \in Assignable,
           PrepareMemberMutation(r, pc, u, p, t, role)
    PROVE  AccessInv'
<1> DEFINE q == [Begin(pc, u, p) EXCEPT !.target = t, !.role = role]
<1>1. /\ ManagesMembers(u, p) /\ t # owner[p]
      /\ req' = [req EXCEPT ![r] = q]
      /\ UNCHANGED <<owner, member, default>>
  BY DEF PrepareMemberMutation
<1>2. /\ q \in RequestRecords /\ q.pc = pc
      /\ q.actor = u /\ q.project = p /\ q.target = t
  BY DEF Begin, RequestRecords, Steps
<1> HIDE DEF q
<1>3. req'[r] = q
  BY <1>1 DEF AccessInv, TypeOK
<1>4. Current(r)' /\ Justified(r)'
  BY <1>1, <1>2, <1>3 DEF Current, Justified, Mutations, ManagesMembers, Visible, Exists
<1> QED BY <1>1, <1>2, <1>4, QuietMoveKeeps DEF AccessInv, TypeOK

LEMMA ListMembersKeeps ==
    ASSUME AccessInv, Witness, NEW r \in Requests, NEW u \in Users, NEW p \in Projects,
           ListProjectMembers(r, u, p)
    PROVE  AccessInv'
<1> DEFINE q == [Begin("ownerRow", u, p) EXCEPT !.held = owner[p], !.resolves = FALSE]
<1>1. /\ ManagesMembers(u, p)
      /\ req' = [req EXCEPT ![r] = q]
      /\ UNCHANGED <<owner, member, default>>
  BY DEF ListProjectMembers
<1>2. owner[p] \in Users
  BY <1>1 DEF ManagesMembers, Visible, Exists, AccessInv, TypeOK
<1>3. /\ q \in RequestRecords
      /\ q.pc = "ownerRow" /\ q.project = p /\ q.held = owner[p] /\ ~ q.resolves
  BY <1>2 DEF Begin, RequestRecords, Assignable, Steps
<1> HIDE DEF q
<1>4. req'[r] = q
  BY <1>1 DEF AccessInv, TypeOK
<1>5. Current(r)' /\ Justified(r)'
  BY <1>1, <1>2, <1>3, <1>4 DEF Current, Justified, Mutations
<1> QED BY <1>1, <1>3, <1>5, QuietMoveKeeps DEF AccessInv, TypeOK

\* AddMember, UpdateMember and RemoveMember: one row of a user who is not the
\* owner, or none.
LEMMA MutationKeeps ==
    ASSUME AccessInv, Witness, NEW r \in Requests, req[r].pc \in Mutations,
           Finish(r), UNCHANGED <<owner, default>>,
           NEW row \in {"editor", "viewer", "revoked"},
           \/ member' = [member EXCEPT ![req[r].project][req[r].target] = row]
           \/ member' = member
    PROVE  AccessInv'
<1>1. /\ req[r].project \in Projects /\ req[r].target \in Users
      /\ row \in MemberRows /\ row # "owner"
  BY InFlightRecord DEF RequestRecords, MemberRows, AccessInv, Mutations
<1>2. Exists(req[r].project) /\ owner[req[r].project] # req[r].target
  BY DEF AccessInv, Current
<1>3. req' = [req EXCEPT ![r] = Idle]
  BY DEF Finish
<1>4. CASE member' = [member EXCEPT ![req[r].project][req[r].target] = row]
  BY <1>1, <1>2, <1>3, <1>4, RowMoveKeeps
<1>5. CASE member' = member
  BY <1>5, FinishKeeps DEF AccessInv, TypeOK
<1> QED BY <1>4, <1>5

LEMMA MemberStepsKeep ==
    ASSUME AccessInv, Witness, NEW r \in Requests,
           AddMember(r) \/ UpdateMember(r) \/ RemoveMember(r)
    PROVE  AccessInv'
<1>1. req[r].pc \in Mutations
  BY DEF AddMember, UpdateMember, RemoveMember, Mutations
<1>2. req[r].role \in {"editor", "viewer", "revoked"}
  BY <1>1, InFlightRecord DEF RequestRecords, Assignable, AccessInv, Mutations
<1>3. CASE AddMember(r)
  BY <1>1, <1>2, <1>3, MutationKeeps DEF AddMember, AddOrRestore
<1>4. CASE UpdateMember(r)
  BY <1>1, <1>2, <1>4, MutationKeeps DEF UpdateMember, AddOrRestore
<1>5. CASE RemoveMember(r)
  BY <1>1, <1>5, MutationKeeps DEF RemoveMember
<1> QED BY <1>3, <1>4, <1>5

LEMMA ReadMemberKeeps ==
    ASSUME AccessInv, Witness, NEW r \in Requests, ReadMember(r)
    PROVE  AccessInv'
<1>0. req[r].pc = "read" /\ UNCHANGED <<owner, member, default>> /\ "update" \in Steps
  BY DEF ReadMember, Steps
<1>1. CASE ActiveRow(r)
  <2>1. PICK q \in RequestRecords :
          /\ req' = [req EXCEPT ![r] = q]
          /\ req'[r] = q /\ q # Idle /\ q.pc = "update"
          /\ q.actor = req[r].actor /\ q.project = req[r].project /\ q.target = req[r].target
    BY <1>0, <1>1, GotoRecord DEF AccessInv, ReadMember
  <2>2. Current(r)
    BY DEF AccessInv
  <2>3. Current(r)' /\ Justified(r)'
    BY <1>0, <2>1, <2>2 DEF Current, Justified, Mutations, Exists
  <2> QED BY <1>0, <2>1, <2>3, QuietMoveKeeps DEF AccessInv, TypeOK
<1>2. CASE ~ ActiveRow(r)
  BY <1>0, <1>2, FinishKeeps DEF ReadMember, AccessInv, TypeOK
<1> QED BY <1>1, <1>2

LEMMA SetDefaultKeeps ==
    ASSUME AccessInv, Witness, NEW r \in Requests, NEW u \in Users, NEW p \in Projects,
           SetDefault(r, u, p)
    PROVE  AccessInv'
<1>1. /\ UNCHANGED <<owner, member, default>> /\ "setDefault" \in Steps
      /\ req' = [req EXCEPT ![r] = Begin("setDefault", u, p)]
  BY DEF SetDefault, Steps
<1>2. req'[r] = Begin("setDefault", u, p)
  BY <1>1 DEF AccessInv, TypeOK
<1>3. req'[r] \in RequestRecords /\ req'[r].pc = "setDefault"
  BY <1>1, <1>2, BeginRecord
<1>4. Current(r)' /\ Justified(r)'
  BY <1>3 DEF Current, Justified, Mutations
<1> QED BY <1>1, <1>2, <1>3, <1>4, QuietMoveKeeps DEF AccessInv, TypeOK

LEMMA StoreDefaultKeeps ==
    ASSUME AccessInv, Witness, NEW r \in Requests, StoreDefault(r)
    PROVE  AccessInv'
<1>1. req[r].actor \in Users /\ req[r].project \in Projects
  BY InFlightRecord DEF StoreDefault, RequestRecords, AccessInv
<1>2. default' \in [Users -> Projects \cup {NoProject}]
  BY <1>1 DEF StoreDefault, AccessInv, TypeOK
<1> QED BY <1>2, FinishKeeps DEF StoreDefault

LEMMA EndKeeps ==
    ASSUME AccessInv, Witness, NEW r \in Requests, Answer(r) \/ Fail(r)
    PROVE  AccessInv'
BY FinishKeeps DEF Answer, Fail, AccessInv, TypeOK

LEMMA InitAccessInv == Init => AccessInv
<1> SUFFICES ASSUME Init PROVE AccessInv
  OBVIOUS
<1>1. TypeOK
  BY DEF Init, TypeOK, Idle, MemberRows
<1>2. \A r \in Requests : Current(r) /\ Justified(r)
  BY DEF Init, Current, Justified, Idle, Mutations
<1>3. RowsOfProjects /\ OwnershipCoherent
  BY DEF Init, RowsOfProjects, OwnershipCoherent, Exists
<1> QED BY <1>1, <1>2, <1>3 DEF AccessInv

LEMMA NextAccessInv == AccessInv /\ [Next]_vars => AccessInv'
<1> SUFFICES ASSUME AccessInv, [Next]_vars PROVE AccessInv'
  OBVIOUS
<1>1. CASE Next
  <2>0. Witness
    BY <1>1 DEF Next
  <2>1. PICK r \in Requests : 
        \/ \E u \in Users, p \in Projects, o \in Users : CreateProject(r, u, p, o)
        \/ \E u \in Users, p \in Projects : ResolveExplicit(r, u, p)
        \/ \E u \in Users : ResolveDefault(r, u)
        \/ \E u \in Users, p \in Projects, t \in Users, role \in Assignable,
              pc \in {"add", "read", "revoke"} :
                 PrepareMemberMutation(r, pc, u, p, t, role)
        \/ \E u \in Users, p \in Projects : ListProjectMembers(r, u, p)
        \/ \E u \in Users, p \in Projects : SetDefault(r, u, p)
        \/ OwnerRow(r) \/ Lookup(r) \/ EnsureProjectExists(r) \/ AutoCreate(r)
        \/ CheckDefault(r) \/ Answer(r) \/ AddMember(r) \/ ReadMember(r)
        \/ UpdateMember(r) \/ RemoveMember(r) \/ StoreDefault(r) \/ Fail(r)
    BY <1>1 DEF Next, Step, Assignable
  <2> QED
    BY <2>0, <2>1, CreateProjectKeeps, OwnerRowKeeps, ResolveExplicitKeeps, LookupKeeps,
       EnsureKeeps, AutoCreateKeeps, ResolveDefaultKeeps, CheckDefaultKeeps, PrepareKeeps,
       ListMembersKeeps, MemberStepsKeep, ReadMemberKeeps, SetDefaultKeeps,
       StoreDefaultKeeps, EndKeeps
<1>2. CASE UNCHANGED vars
  BY <1>2 DEF vars, AccessInv, TypeOK, Current, Justified, RowsOfProjects,
              OwnershipCoherent, Exists
<1> QED BY <1>1, <1>2

LEMMA AccessInvHolds == Spec => []AccessInv
BY InitAccessInv, NextAccessInv, PTL DEF Spec

------------------------------------------------------------------------------
(* What changes a membership row.                                          *)

LEMMA MemberChange ==
    ASSUME AccessInv, Step, NEW p \in Projects, NEW u \in Users,
           member'[p][u] # member[p][u]
    PROVE  \E r \in Requests :
             /\ req[r].project = p
             /\ \/ req[r].pc = "ownerRow" /\ owner[p] = u
                \/ /\ req[r].pc \in Mutations /\ req[r].target = u
                   /\ req[r].pc = "add" \/ member[p][u] \in Active
                   /\ req'[r] = Idle
<1>1. PICK r \in Requests : OwnerRow(r) \/ AddMember(r) \/ UpdateMember(r) \/ RemoveMember(r)
  <2>1. ASSUME NEW r \in Requests, NEW v \in Users, NEW o \in Projects, NEW t \in Users,
               NEW role, NEW pc,
               \/ CreateProject(r, v, o, t) \/ ResolveExplicit(r, v, o) \/ ResolveDefault(r, v)
               \/ PrepareMemberMutation(r, pc, v, o, t, role)
               \/ ListProjectMembers(r, v, o) \/ SetDefault(r, v, o)
        PROVE  member' = member
    BY <2>1 DEF CreateProject, ResolveExplicit, ResolveDefault, PrepareMemberMutation,
                ListProjectMembers, SetDefault
  <2>2. ASSUME NEW r \in Requests,
               \/ Lookup(r) \/ EnsureProjectExists(r) \/ AutoCreate(r) \/ CheckDefault(r)
               \/ Answer(r) \/ ReadMember(r) \/ StoreDefault(r) \/ Fail(r)
        PROVE  member' = member
    BY <2>2 DEF Lookup, EnsureProjectExists, AutoCreate, CheckDefault, Answer, ReadMember,
                StoreDefault, Fail
  <2> QED BY <2>1, <2>2 DEF Step
<1>2. req[r] \in RequestRecords
  BY <1>1, InFlightRecord
     DEF OwnerRow, AddMember, UpdateMember, RemoveMember, AccessInv
<1>3. /\ req[r].project \in Projects /\ req[r].target \in Users
      /\ req[r].pc = "ownerRow" => req[r].held \in Users /\ owner[req[r].project] = req[r].held
  BY <1>2 DEF RequestRecords, AccessInv, Current
<1>4. member \in [Projects -> [Users -> MemberRows]] /\ req \in [Requests -> RequestRecords \cup {Idle}]
  BY DEF AccessInv, TypeOK
\* One cell of the table.
<1>5. ASSUME NEW v \in Users, NEW row, member' = [member EXCEPT ![req[r].project][v] = row]
      PROVE  req[r].project = p /\ v = u
  BY <1>3, <1>4, <1>5
<1>6. CASE OwnerRow(r)
  BY <1>3, <1>5, <1>6 DEF OwnerRow, AddOrRestore
<1>7. CASE AddMember(r)
  BY <1>3, <1>4, <1>5, <1>7 DEF AddMember, AddOrRestore, Finish, Mutations
<1>8. CASE UpdateMember(r)
  BY <1>3, <1>4, <1>5, <1>8 DEF UpdateMember, AddOrRestore, ActiveRow, Finish, Mutations
<1>9. CASE RemoveMember(r)
  BY <1>3, <1>4, <1>5, <1>9 DEF RemoveMember, ActiveRow, Finish, Mutations
<1> QED BY <1>1, <1>6, <1>7, <1>8, <1>9

------------------------------------------------------------------------------
(* The theorems.                                                           *)

\* Rows, requests and the history are well formed, for any users, projects
\* and requests in flight.
THEOREM TypeCorrect == Spec => []TypeOK
BY AccessInvHolds, PTL DEF AccessInv

\* project_members never contradicts projects.owner_user_id, although requests
\* write the one after they read the other (ensureCanonicalOwnerMembership,
\* prepareProjectMemberMutation).
THEOREM OwnershipIsCoherent == Spec => []OwnershipCoherent
BY AccessInvHolds, PTL DEF AccessInv

\* ResolveProjectIDForWrite grants a project only to an actor who could write
\* to it, or could have created it, at some moment of the request.
THEOREM GrantsAreJustified == Spec => []GrantsJustified
<1>1. AccessInv => GrantsJustified
  BY DEF AccessInv, Justified, GrantsJustified
<1> QED BY <1>1, AccessInvHolds, PTL

\* A revoked member comes back only through AddProjectMember, not through an
\* UpdateProjectMember that read the row before it was revoked.
THEOREM RemovalsStick == Spec => RemovalSticks
<1>1. AccessInv /\ [Next]_vars =>
        [\A p \in Projects, u \in Users :
           member[p][u] = "revoked" /\ member'[p][u] # "revoked" =>
              \E r \in Requests : req[r].pc = "add" /\ req[r].project = p /\ req[r].target = u]_vars
  <2> SUFFICES ASSUME AccessInv, Next, NEW p \in Projects, NEW u \in Users,
                      member[p][u] = "revoked", member'[p][u] # "revoked"
               PROVE  \E r \in Requests : req[r].pc = "add" /\ req[r].project = p /\ req[r].target = u
    BY DEF vars
  <2>1. PICK r \in Requests :
             /\ req[r].project = p
             /\ \/ req[r].pc = "ownerRow" /\ owner[p] = u
                \/ /\ req[r].target = u
                   /\ req[r].pc = "add" \/ member[p][u] \in Active
    BY MemberChange DEF Next
  <2>2. owner[p] # u /\ member[p][u] \notin Active
    BY DEF AccessInv, OwnershipCoherent, Active
  <2> QED BY <2>1, <2>2
<1> QED BY <1>1, AccessInvHolds, PTL DEF Spec, RemovalSticks

\* A membership row other than the owner's changes only in a request whose
\* actor is an administrator or the owner at the moment of the change
\* (requireProjectMemberManager is asked in an earlier statement).
THEOREM OnlyManagersChange == Spec => OnlyManagersChangeMembers
<1>1. AccessInv /\ [Next]_vars =>
        [\A p \in Projects, u \in Users :
          member'[p][u] # member[p][u] /\ owner[p] # u =>
             \E r \in Requests :
                 /\ req[r] # Idle /\ req'[r] = Idle
                 /\ req[r].project = p
                 /\ Role[req[r].actor] = "admin" \/ owner[p] = req[r].actor]_vars
  <2> SUFFICES ASSUME AccessInv, Next, NEW p \in Projects, NEW u \in Users,
                      member'[p][u] # member[p][u], owner[p] # u
               PROVE  \E r \in Requests :
                         /\ req[r] # Idle /\ req'[r] = Idle
                         /\ req[r].project = p
                         /\ Role[req[r].actor] = "admin" \/ owner[p] = req[r].actor
    BY DEF vars
  <2>1. PICK r \in Requests :
             req[r].project = p /\ req[r].pc \in Mutations /\ req'[r] = Idle
    BY MemberChange DEF Next
  <2>2. Role[req[r].actor] = "admin" \/ owner[p] = req[r].actor
    BY <2>1 DEF AccessInv, Current
  <2>3. req[r] # Idle
    BY <2>1 DEF Mutations, Idle
  <2> QED BY <2>1, <2>2, <2>3
<1> QED BY <1>1, AccessInvHolds, PTL DEF Spec, OnlyManagersChangeMembers
==============================================================================
