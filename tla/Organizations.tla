--------------------------- MODULE Organizations ---------------------------
(***************************************************************************)
(* One organization: its members and their roles, invitations, projects    *)
(* with an app, and settings (identity/service.go, httpx/projects.go,      *)
(* httpx/orgs.go, httpx/apps.go).                                          *)
(*                                                                         *)
(* A request authorizes its caller, reads what it decides on and writes,   *)
(* each in a store call of its own.  Only accepting an invitation and      *)
(* creating an organization are transactions.                              *)
(***************************************************************************)
EXTENDS FiniteSets, Integers

CONSTANTS
    Calls,
    Users,
    Founder,        \* the user who signed up or created the organization
    Projects,
    Default,        \* the default project
    GivenRoles,     \* the roles that requests ask for
    Values,         \* what a setting may be
    MaxInvites      \* bound: invitations

Invites == 1..MaxInvites
None == "none"
Roles == {"member", "admin", "owner"}
Rank == [none |-> 0, member |-> 1, admin |-> 2, owner |-> 3]

\* domain.Role.AtLeast.
AtLeast(role, min) == Rank[role] >= Rank[min]

ASSUME GivenRolesAssumption == GivenRoles \subseteq Roles
ASSUME FounderAssumption == Founder \in Users
ASSUME DefaultAssumption == Default \in Projects
ASSUME MaxInvitesAssumption == MaxInvites \in Nat

VARIABLES
    role,       \* memberships
    project,    \* the projects that exist
    access,     \* project_memberships
    app,        \* the project_id of the app's row, None without an app
    inv,        \* invitations: [status, user, role, project]
    org,        \* the organization's row: [name, cap]
    job         \* the requests under way; late (history): another request has
                \* written what this one has already decided on

tables == <<role, project, access, app, inv, org>>
orgVars == <<tables, job>>

Idle == [op |-> "idle", at |-> "", user |-> None, role |-> None, project |-> None, inv |-> 0,
         row |-> [name |-> 0, cap |-> 0], late |-> FALSE]
NoInvite == [status |-> None, user |-> None, role |-> None, project |-> None]

\* Signup and CreateOrganization: one transaction creates the organization, its
\* owner's membership and its default project.
OrgInit ==
    /\ role = [u \in Users |-> IF u = Founder THEN "owner" ELSE None]
    /\ project = {Default}
    /\ access = [p \in Projects |-> [u \in Users |-> None]]
    /\ app = None
    /\ inv = [i \in Invites |-> NoInvite]
    /\ org = [name |-> 0, cap |-> 0]
    /\ job = [r \in Calls |-> Idle]

\* Authorize: the caller has at least this role in the organization.
Authorize(u, min) == AtLeast(role[u], min)

\* AuthorizeProject: an admin of the organization, or a member of the project with
\* the role.  The organization's membership is not asked of the latter.
AuthorizeProject(u, p, min) ==
    /\ p \in project
    /\ \/ AtLeast(role[u], "admin")
       \/ AtLeast(access[p][u], min)

\* A request starts with these fields, is at another call, or ends.
Start(r, fields) ==
    /\ job[r] = Idle
    /\ job' = [job EXCEPT ![r] = [f \in DOMAIN Idle |->
                  IF f \in DOMAIN fields THEN fields[f] ELSE Idle[f]]]
At(r, op, at) == job[r].op = op /\ job[r].at = at
Advance(r, at) == job' = [job EXCEPT ![r].at = at]
Finish(r) == job' = [job EXCEPT ![r] = Idle]

\* A request ends, and those that have decided on what it has just written are late.
Overtake(r, others) ==
    job' = [q \in Calls |-> IF q = r THEN Idle
                               ELSE [job[q] EXCEPT !.late = @ \/ q \in others]]

-----------------------------------------------------------------------------
(* Members.                                                                *)

UpdateMemberRole(r) ==
    \E actor, u \in Users, to \in GivenRoles :
        /\ Authorize(actor, "owner")
        /\ Start(r, [op |-> "role", at |-> "target", user |-> u, role |-> to])
        /\ UNCHANGED tables

RemoveMember(r) ==
    \E actor, u \in Users :
        /\ Authorize(actor, "owner")
        /\ Start(r, [op |-> "remove", at |-> "target", user |-> u])
        /\ UNCHANGED tables

\* The membership is read; only an owner who stops being one makes it count.
GetMembership(r) ==
    /\ job[r].at = "target"
    /\ IF role[job[r].user] = None THEN Finish(r)
       ELSE Advance(r, IF role[job[r].user] = "owner" /\ job[r].role # "owner"
                    THEN "count" ELSE "write")
    /\ UNCHANGED tables

Owners == {u \in Users : role[u] = "owner"}

\* Mutant: one owner is thought to be enough.
countOwnersOne(r) ==
    /\ job[r].at = "count"
    /\ IF Cardinality(Owners) < 1 THEN Finish(r) ELSE Advance(r, "write")
    /\ UNCHANGED tables

countOwners(r) ==
    /\ job[r].at = "count"
    /\ IF Cardinality(Owners) <= 1 THEN Finish(r) ELSE Advance(r, "write")
    /\ UNCHANGED tables

\* UpdateMembershipRole and RemoveMembership.  Project memberships stay.
WriteMembership(r) ==
    /\ job[r].at = "write" /\ job[r].op \in {"role", "remove"}
    /\ role' = [role EXCEPT ![job[r].user] = IF @ = None THEN None ELSE job[r].role]
    /\ Overtake(r, {q \in Calls : job[q].at = "write" /\ job[q].op \in {"role", "remove"}})
    /\ UNCHANGED <<project, access, app, inv, org>>

-----------------------------------------------------------------------------
(* Invitations, to the organization or to a project.                       *)

Invite(r) ==
    \E actor, u \in Users, to \in GivenRoles, p \in {None} \union project :
        /\ Authorize(actor, "admin")
        /\ \E i \in Invites : inv[i] = NoInvite
        /\ Start(r, [op |-> "invite", at |-> "write", user |-> u, role |-> to, project |-> p])
        /\ UNCHANGED tables

CreateInvitation(r) ==
    /\ At(r, "invite", "write")
    /\ \E i \in Invites :
        /\ inv[i] = NoInvite
        /\ \A k \in Invites : k < i => inv[k] # NoInvite
        /\ inv' = [inv EXCEPT ![i] = [status |-> "pending", user |-> job[r].user,
                                      role |-> job[r].role, project |-> job[r].project]]
    /\ Finish(r)
    /\ UNCHANGED <<role, project, access, app, org>>

Accepting(i) == {q \in Calls : job[q].op = "accept" /\ job[q].inv = i}

\* Any invitation of the organization can be revoked, an accepted one too.
RevokeInvitation(r) ==
    \E actor \in Users, i \in Invites :
        /\ job[r] = Idle
        /\ Authorize(actor, "admin")
        /\ inv[i].status \in {"pending", "accepted"}
        /\ inv' = [inv EXCEPT ![i].status = "revoked"]
        /\ Overtake(r, Accepting(i))
        /\ UNCHANGED <<role, project, access, app, org>>

\* Mutant: an invitation that is not pending is accepted as well.
AcceptInvitationAgain(r) ==
    \E i \in Invites :
        /\ inv[i] # NoInvite
        /\ Start(r, [op |-> "accept", at |-> "tx", inv |-> i])
        /\ UNCHANGED tables

\* The invited user presents the token; the row is read outside the transaction.
AcceptInvitation(r) ==
    \E i \in Invites :
        /\ inv[i].status = "pending"
        /\ Start(r, [op |-> "accept", at |-> "tx", inv |-> i])
        /\ UNCHANGED tables

\* The transaction adds the membership that is missing, then the project's, and
\* writes the invitation it read as accepted.  A project membership that exists, or
\* a project that does not, fails the insert and with it the transaction.
AcceptCommit(r) ==
    LET i == job[r].inv  v == inv[i] IN
    /\ At(r, "accept", "tx")
    /\ v.project # None => v.project \in project /\ access[v.project][v.user] = None
    /\ role' = [role EXCEPT ![v.user] =
                  IF @ # None THEN @ ELSE IF v.project = None THEN v.role ELSE "member"]
    /\ access' = [p \in Projects |-> IF p = v.project
                                     THEN [access[p] EXCEPT ![v.user] = v.role] ELSE access[p]]
    /\ inv' = [inv EXCEPT ![i].status = "accepted"]
    /\ Overtake(r, Accepting(i))
    /\ UNCHANGED <<project, app, org>>

-----------------------------------------------------------------------------
(* Projects.                                                               *)

CreateProject(r) ==
    \E actor \in Users, p \in Projects \ project :
        /\ Authorize(actor, "admin")
        /\ Start(r, [op |-> "project", at |-> "write", project |-> p])
        /\ UNCHANGED tables

InsertProject(r) ==
    /\ At(r, "project", "write")
    /\ project' = project \union {job[r].project}
    /\ Finish(r)
    /\ UNCHANGED <<role, access, app, inv, org>>

\* The default project is refused.
DeleteProject(r) ==
    \E actor \in Users, p \in project \ {Default} :
        /\ Authorize(actor, "admin")
        /\ Start(r, [op |-> "drop", at |-> "inUse", project |-> p])
        /\ UNCHANGED tables

\* Mutant: the project's apps are not looked for.
projectInUseNever(r) ==
    /\ At(r, "drop", "inUse")
    /\ Advance(r, "delete")
    /\ UNCHANGED tables

\* A query of its own asks for apps in the project ...
projectInUse(r) ==
    /\ At(r, "drop", "inUse")
    /\ IF app = job[r].project THEN Finish(r) ELSE Advance(r, "delete")
    /\ UNCHANGED tables

\* ... and another deletes it, with its memberships.  Nothing ties an app's row to
\* its project's.
DropProject(r) ==
    LET p == job[r].project IN
    /\ At(r, "drop", "delete")
    /\ project' = project \ {p}
    /\ access' = [access EXCEPT ![p] = [u \in Users |-> None]]
    /\ Overtake(r, {q \in Calls : job[q].op = "app" /\ job[q].project = p})
    /\ UNCHANGED <<role, app, inv, org>>

\* projectAuthz lets the caller create an app in the project.
CreateAppInProject(r) ==
    \E actor \in Users, p \in project :
        /\ app = None
        /\ AuthorizeProject(actor, p, "admin")
        /\ Start(r, [op |-> "app", at |-> "write", project |-> p])
        /\ UNCHANGED tables

CreateApp(r) ==
    LET p == job[r].project IN
    /\ At(r, "app", "write")
    /\ app = None
    /\ app' = p
    /\ Overtake(r, {q \in Calls : job[q].op = "drop" /\ job[q].project = p})
    /\ UNCHANGED <<role, project, access, inv, org>>

\* appProjectAuthz resolves the app's project and asks for a role in it.
DeleteApp(r) ==
    /\ job[r] = Idle
    /\ \E actor \in Users : app # None /\ AuthorizeProject(actor, app, "admin")
    /\ app' = None
    /\ UNCHANGED <<role, project, access, inv, org, job>>

-----------------------------------------------------------------------------
(* Settings.                                                               *)

\* UpdateOrganization and handleSetSpendCap read the row ...
ReadOrg(r, op, field) ==
    \E actor \in Users, v \in Values :
        /\ Authorize(actor, "admin")
        /\ Start(r, [op |-> op, at |-> "write", row |-> [org EXCEPT ![field] = v]])
        /\ UNCHANGED tables

UpdateOrganization(r) == ReadOrg(r, "name", "name")
SetSpendCap(r) == ReadOrg(r, "cap", "cap")

\* Mutant: the cap is not among the columns kept.
UpdateOrgNameOnly(r) ==
    /\ job[r].op \in {"name", "cap"} /\ job[r].at = "write"
    /\ org' = IF job[r].op = "name" THEN [job[r].row EXCEPT !.cap = 0] ELSE job[r].row
    /\ Overtake(r, {q \in Calls : job[q].op \in {"name", "cap"}})
    /\ UNCHANGED <<role, project, access, app, inv>>

\* ... and write it whole.
UpdateOrg(r) ==
    /\ job[r].op \in {"name", "cap"} /\ job[r].at = "write"
    /\ org' = job[r].row
    /\ Overtake(r, {q \in Calls : job[q].op \in {"name", "cap"}})
    /\ UNCHANGED <<role, project, access, app, inv>>

\* A store call fails, a transaction rolls back, or the client goes away.
GiveUp(r) ==
    /\ job[r] # Idle
    /\ Finish(r)
    /\ UNCHANGED tables

-----------------------------------------------------------------------------

handleUpdateMember(r) == UpdateMemberRole(r)
handleRemoveMember(r) == RemoveMember(r)
handleCreateInvitation(r) == Invite(r) \/ CreateInvitation(r)
handleRevokeInvitation(r) == RevokeInvitation(r)
handleAcceptInvitation(r) == AcceptInvitation(r) \/ AcceptCommit(r)
handleCreateProject(r) == CreateProject(r) \/ InsertProject(r)
handleDeleteProject(r) == DeleteProject(r) \/ projectInUse(r) \/ DropProject(r)
handleCreateAppInProject(r) == CreateAppInProject(r) \/ CreateApp(r)
handleUpdateOrg(r) == UpdateOrganization(r) \/ UpdateOrg(r)
handleSetSpendCap(r) == SetSpendCap(r)

OrgNext ==
    \E r \in Calls :
        \/ handleUpdateMember(r) \/ handleRemoveMember(r)
        \/ GetMembership(r) \/ countOwners(r) \/ WriteMembership(r)
        \/ handleCreateInvitation(r) \/ handleRevokeInvitation(r) \/ handleAcceptInvitation(r)
        \/ handleCreateProject(r) \/ handleDeleteProject(r)
        \/ handleCreateAppInProject(r) \/ DeleteApp(r)
        \/ handleUpdateOrg(r) \/ handleSetSpendCap(r)
        \/ GiveUp(r)

OrgSpec == OrgInit /\ [][OrgNext]_orgVars

-----------------------------------------------------------------------------
(* Properties.                                                             *)

\* A request ends that was late.
LateWrite == \E r \in Calls : job[r].late /\ job'[r] = Idle

\* The organization keeps an owner, whoever demotes, removes or accepts: the last one
\* can only go by a write whose count another change of the members has overtaken
\* (countOwners).
OwnerRemains == [][Owners # {} /\ Owners' = {} => LateWrite]_orgVars

\* Nobody becomes a member but by an invitation that is pending at that moment: not
\* by one that was revoked or accepted before, unless that happened while this
\* acceptance was under way (AcceptInvitation).
OnlyPendingAdmits ==
    [][\A u \in Users : role[u] = None /\ role'[u] # None =>
          \/ LateWrite
          \/ \E i \in Invites : inv[i].status = "pending" /\ inv[i].user = u
                                /\ inv'[i].status = "accepted"]_orgVars

\* An app belongs to a project that exists, or nobody could reach it any more: it is
\* only lost when its project is deleted while it is being created (DeleteProject).
AppReachable ==
    [][(app \in project \union {None}) /\ app' \notin project' \union {None} => LateWrite]_orgVars

\* Setting the name does not take back a cap, nor the reverse, unless both requests
\* held copies of the row at once (UpdateOrganization, handleSetSpendCap).
SettingsKept ==
    [][\A r \in Calls : job[r] # Idle /\ job'[r] = Idle /\ ~job[r].late =>
          /\ job[r].op = "name" => org'.cap = org.cap
          /\ job[r].op = "cap" => org'.name = org.name]_orgVars

=============================================================================
