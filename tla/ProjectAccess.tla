---------------------------- MODULE ProjectAccess ----------------------------
(***************************************************************************)
(* Projects, their members and the resolution of the project a write goes  *)
(* to: internal/projects over internal/repository/project.go and           *)
(* project_membership.go.                                                  *)
(*                                                                         *)
(* Every request is a sequence of SQL statements without a transaction,    *)
(* one step each; a request begins with its first statement.  Any          *)
(* statement may fail, which ends the request (Fail).  Requests refused    *)
(* before their first statement change nothing and are left out, and so    *)
(* are the audit rows that close a membership change: no handler reads     *)
(* them back.  Names, descriptions and timestamps are left out too.        *)
(***************************************************************************)
EXTENDS Naturals

CONSTANTS
    Users,
    Role,           \* models.UserRole of every user: "admin", "analyst", "viewer"
    Projects,
    Requests,       \* requests in flight at the same time
    NoUser, NoProject

ASSUME RoleAssumption == Role \in [Users -> {"admin", "analyst", "viewer"}]
ASSUME AbsentAssumption == NoUser \notin Users /\ NoProject \notin Projects

VARIABLES
    owner,          \* projects.owner_user_id, NoUser where there is no row
    member,         \* project_members: the row of a user, by its role
    default,        \* users.default_project_id
    req,            \* the requests
    entitled        \* history: the projects a request could be granted so far

vars == <<owner, member, default, req, entitled>>

MemberRows == {"none", "owner", "editor", "viewer", "revoked"}
Active == {"owner", "editor", "viewer"}
\* validateProjectMemberRole: "owner" cannot be assigned.
Assignable == {"editor", "viewer"}

Steps == {"lookup", "ensure", "autocreate", "ownerRow", "default", "granted",
          "add", "read", "update", "revoke", "setDefault"}
Idle == [pc |-> "idle"]
\* "resolves" tells a resolution, which ends in a grant, from the other
\* requests that write the owner's row; "held" is the owner as it was read.
RequestRecords ==
    [pc : Steps, actor : Users, project : Projects, target : Users,
     role : Assignable, held : Users \cup {NoUser}, resolves : BOOLEAN]

Begin(pc, u, p) ==
    [pc |-> pc, actor |-> u, project |-> p, target |-> u, role |-> "viewer",
     held |-> NoUser, resolves |-> TRUE]

------------------------------------------------------------------------------
(* Rules of internal/projects/service.go and the visibility query.         *)

Exists(p) == owner[p] # NoUser

\* The membership_role of GetProjectForActor and ResolveActorProjectRole.
ProjectRole(u, p) ==
    IF owner[p] = u THEN "owner"
    ELSE IF member[p][u] \in Active THEN member[p][u] ELSE "none"

\* GetProjectForActor returns a row.
Visible(u, p) == Exists(p) /\ (Role[u] = "admin" \/ ProjectRole(u, p) # "none")

\* Mutant of CanWriteVisibleProject: every member may write.
AnyMemberCanWrite(u, p) == Role[u] = "admin" \/ ProjectRole(u, p) # "none"

\* canWriteVisibleProject
CanWriteVisibleProject(u, p) == Role[u] = "admin" \/ ProjectRole(u, p) \in {"owner", "editor"}

\* canCreateProject
CanCreateProject(u) == Role[u] \in {"admin", "analyst"}

\* Mutant of ManagesMembers: whoever may write manages.
WritersManage(u, p) == Exists(p) /\ CanWriteVisibleProject(u, p)

\* requireProjectMemberManager: a visible project, for an admin or its owner.
ManagesMembers(u, p) == Visible(u, p) /\ (Role[u] = "admin" \/ owner[p] = u)

\* What a resolution of p by u may rest on: the right to write to p, or that
\* there is no such project yet and u may create it.
Entitled(u, p) ==
    \/ Exists(p) /\ (Role[u] = "admin" \/ ProjectRole(u, p) \in {"owner", "editor"})
    \/ ~Exists(p) /\ CanCreateProject(u)

------------------------------------------------------------------------------
(* Statements.                                                             *)

\* CreateProject of the repository: ON CONFLICT keeps the owner.
UpsertProject(p, u) == owner' = IF Exists(p) THEN owner ELSE [owner EXCEPT ![p] = u]

\* AddOrRestoreProjectMember
AddOrRestore(p, u, role) == member' = [member EXCEPT ![p][u] = role]

Goto(r, pc) == req' = [req EXCEPT ![r].pc = pc]
Finish(r) == req' = [req EXCEPT ![r] = Idle]

------------------------------------------------------------------------------

Init ==
    /\ owner = [p \in Projects |-> NoUser]
    /\ member = [p \in Projects |-> [u \in Users |-> "none"]]
    /\ default = [u \in Users |-> NoProject]
    /\ req = [r \in Requests |-> Idle]
    /\ entitled = [r \in Requests |-> {}]

\* CreateProject: only an admin may name another owner.
CreateProject(r, u, p, o) ==
    /\ req[r] = Idle
    /\ CanCreateProject(u)
    /\ Role[u] = "admin" \/ o = u
    /\ UpsertProject(p, o)
    /\ req' = [req EXCEPT ![r] =
         [Begin("ownerRow", u, p) EXCEPT !.held = owner'[p], !.resolves = FALSE]]
    /\ UNCHANGED <<member, default>>

\* ensureCanonicalOwnerMembership, for the project record that was read; the
\* last statement of a resolution that found no visible project.
OwnerRow(r) ==
    /\ req[r].pc = "ownerRow"
    /\ AddOrRestore(req[r].project, req[r].held, "owner")
    /\ IF req[r].resolves THEN Goto(r, "granted") ELSE Finish(r)
    /\ UNCHANGED <<owner, default>>

\* resolveExplicitProjectID: ensureWritableExplicitProject.
ResolveExplicit(r, u, p) ==
    /\ req[r] = Idle
    /\ \/ /\ Visible(u, p)
          /\ CanWriteVisibleProject(u, p)
          /\ req' = [req EXCEPT ![r] = Begin("granted", u, p)]
       \/ /\ ~Visible(u, p)
          /\ req' = [req EXCEPT ![r] = Begin("lookup", u, p)]
    /\ UNCHANGED <<owner, member, default>>

\* ensureCreatableExplicitProject: lookupProjectAsAdmin sees every project.
Lookup(r) ==
    /\ req[r].pc = "lookup"
    /\ IF ~Exists(req[r].project) /\ CanCreateProject(req[r].actor)
         THEN Goto(r, "ensure")
         ELSE Finish(r)
    /\ UNCHANGED <<owner, member, default>>

\* EnsureProjectExists: the existing project, whoever created it meanwhile.
EnsureProjectExists(r) ==
    /\ req[r].pc = "ensure"
    /\ IF Exists(req[r].project)
         THEN req' = [req EXCEPT ![r].pc = "ownerRow", ![r].held = owner[req[r].project]]
         ELSE Goto(r, "autocreate")
    /\ UNCHANGED <<owner, member, default>>

\* CreateProject as EnsureProjectExists calls it.
AutoCreate(r) ==
    /\ req[r].pc = "autocreate"
    /\ UpsertProject(req[r].project, req[r].actor)
    /\ req' = [req EXCEPT ![r].pc = "ownerRow", ![r].held = owner'[req[r].project]]
    /\ UNCHANGED <<member, default>>

\* resolveDefaultProjectID: read the default, then check that it is writable.
ResolveDefault(r, u) ==
    /\ req[r] = Idle
    /\ default[u] # NoProject
    /\ req' = [req EXCEPT ![r] = Begin("default", u, default[u])]
    /\ UNCHANGED <<owner, member, default>>

CheckDefault(r) ==
    /\ req[r].pc = "default"
    /\ IF Visible(req[r].actor, req[r].project)
            /\ CanWriteVisibleProject(req[r].actor, req[r].project)
         THEN Goto(r, "granted")
         ELSE Finish(r)
    /\ UNCHANGED <<owner, member, default>>

\* The caller has the resolved project.
Answer(r) ==
    /\ req[r].pc = "granted"
    /\ Finish(r)
    /\ UNCHANGED <<owner, member, default>>

\* Mutant of PrepareMemberMutation: the target is not compared with the owner.
PrepareForAnyTarget(r, pc, u, p, t, role) ==
    /\ req[r] = Idle
    /\ ManagesMembers(u, p)
    /\ req' = [req EXCEPT ![r] = [Begin(pc, u, p) EXCEPT !.target = t, !.role = role]]
    /\ UNCHANGED <<owner, member, default>>

\* prepareProjectMemberMutation, the first statement of the three mutations.
PrepareMemberMutation(r, pc, u, p, t, role) ==
    /\ req[r] = Idle
    /\ ManagesMembers(u, p)
    /\ t # owner[p]
    /\ req' = [req EXCEPT ![r] = [Begin(pc, u, p) EXCEPT !.target = t, !.role = role]]
    /\ UNCHANGED <<owner, member, default>>

\* ListProjectMembers writes the owner's row before it lists.
ListProjectMembers(r, u, p) ==
    /\ req[r] = Idle
    /\ ManagesMembers(u, p)
    /\ req' = [req EXCEPT ![r] =
         [Begin("ownerRow", u, p) EXCEPT !.held = owner[p], !.resolves = FALSE]]
    /\ UNCHANGED <<owner, member, default>>

\* AddProjectMember
AddMember(r) ==
    /\ req[r].pc = "add"
    /\ AddOrRestore(req[r].project, req[r].target, req[r].role)
    /\ Finish(r)
    /\ UNCHANGED <<owner, default>>

ActiveRow(r) == member[req[r].project][req[r].target] \in Active

\* UpdateProjectMember reads the active row for the audit event first.
ReadMember(r) ==
    /\ req[r].pc = "read"
    /\ IF ActiveRow(r) THEN Goto(r, "update") ELSE Finish(r)
    /\ UNCHANGED <<owner, member, default>>

\* Mutant of UpdateMember: the UPDATE trusts the row that was read.
UpdateMemberAsRead(r) ==
    /\ req[r].pc = "update"
    /\ AddOrRestore(req[r].project, req[r].target, req[r].role)
    /\ Finish(r)
    /\ UNCHANGED <<owner, default>>

\* UpdateProjectMemberRole: only a row that is not revoked.
UpdateMember(r) ==
    /\ req[r].pc = "update"
    /\ IF ActiveRow(r)
         THEN AddOrRestore(req[r].project, req[r].target, req[r].role)
         ELSE UNCHANGED member
    /\ Finish(r)
    /\ UNCHANGED <<owner, default>>

\* RemoveProjectMember of the repository: an active row becomes a revoked one.
RemoveMember(r) ==
    /\ req[r].pc = "revoke"
    /\ IF ActiveRow(r)
         THEN member' = [member EXCEPT ![req[r].project][req[r].target] = "revoked"]
         ELSE UNCHANGED member
    /\ Finish(r)
    /\ UNCHANGED <<owner, default>>

\* SetDefaultProjectID
SetDefault(r, u, p) ==
    /\ req[r] = Idle
    /\ Visible(u, p)
    /\ req' = [req EXCEPT ![r] = Begin("setDefault", u, p)]
    /\ UNCHANGED <<owner, member, default>>

StoreDefault(r) ==
    /\ req[r].pc = "setDefault"
    /\ default' = [default EXCEPT ![req[r].actor] = req[r].project]
    /\ Finish(r)
    /\ UNCHANGED <<owner, member>>

\* A statement fails, the client leaves or the process goes down.
Fail(r) ==
    /\ req[r] # Idle
    /\ Finish(r)
    /\ UNCHANGED <<owner, member, default>>

EntitledProjects(r) == {p \in Projects : Entitled(req[r].actor, p)}

\* The history: what a request in flight could rest on, at any state so far.
Witness ==
    entitled' = [r \in Requests |->
        IF req'[r] = Idle THEN {}
        ELSE entitled[r] \cup EntitledProjects(r)']

Step ==
    \E r \in Requests :
        \/ \E u \in Users, p \in Projects, o \in Users : CreateProject(r, u, p, o)
        \/ \E u \in Users, p \in Projects : ResolveExplicit(r, u, p)
        \/ \E u \in Users : ResolveDefault(r, u)
        \/ \E u \in Users, p \in Projects, t \in Users, role \in Assignable :
               \/ PrepareMemberMutation(r, "add", u, p, t, role)
               \/ PrepareMemberMutation(r, "read", u, p, t, role)
        \/ \E u \in Users, p \in Projects, t \in Users :
               PrepareMemberMutation(r, "revoke", u, p, t, "viewer")
        \/ \E u \in Users, p \in Projects : ListProjectMembers(r, u, p)
        \/ \E u \in Users, p \in Projects : SetDefault(r, u, p)
        \/ OwnerRow(r) \/ Lookup(r) \/ EnsureProjectExists(r) \/ AutoCreate(r)
        \/ CheckDefault(r) \/ Answer(r) \/ AddMember(r) \/ ReadMember(r)
        \/ UpdateMember(r) \/ RemoveMember(r) \/ StoreDefault(r) \/ Fail(r)

Next == Step /\ Witness

Spec == Init /\ [][Next]_vars

------------------------------------------------------------------------------
(* Properties.                                                             *)

\* Rows and requests are well formed; a request about to write the owner's
\* row holds the record of a project that has one.
TypeOK ==
    /\ owner \in [Projects -> Users \cup {NoUser}]
    /\ member \in [Projects -> [Users -> MemberRows]]
    /\ default \in [Users -> Projects \cup {NoProject}]
    /\ req \in [Requests -> RequestRecords \cup {Idle}]
    /\ entitled \in [Requests -> SUBSET Projects]
    /\ \A r \in Requests : req[r].pc = "ownerRow" => req[r].held \in Users

\* The membership table never contradicts projects.owner_user_id, although
\* the two are written by separate statements of concurrent requests: only
\* the owner has an "owner" row, and the owner's row, once written, is never
\* demoted or revoked (prepareProjectMemberMutation checks an owner it read
\* in an earlier statement).
OwnershipCoherent ==
    \A p \in Projects, u \in Users :
        /\ member[p][u] = "owner" => owner[p] = u
        /\ owner[p] = u => member[p][u] \in {"none", "owner"}

\* A revoked member comes back only through AddProjectMember; an update that
\* read the row before it was revoked does not revive it.
RemovalSticks ==
    [][\A p \in Projects, u \in Users :
          member[p][u] = "revoked" /\ member'[p][u] # "revoked" =>
             \E r \in Requests : req[r].pc = "add" /\ req[r].project = p /\ req[r].target = u]_vars

\* Membership rows change only for an actor who is admin or owner at the
\* moment of the change, not just when it was checked; the owner's own row
\* apart, which any request may write.
OnlyManagersChangeMembers ==
    [][\A p \in Projects, u \in Users :
          member'[p][u] # member[p][u] /\ owner[p] # u =>
             \E r \in Requests :
                 /\ req[r] # Idle /\ req'[r] = Idle
                 /\ req[r].project = p
                 /\ Role[req[r].actor] = "admin" \/ owner[p] = req[r].actor]_vars

\* ResolveProjectIDForWrite grants a project only to an actor who, at some
\* moment of the request, could write to it or could have created it.
GrantsJustified ==
    \A r \in Requests : req[r].pc = "granted" => req[r].project \in entitled[r]
==============================================================================
