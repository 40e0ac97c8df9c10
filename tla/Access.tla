------------------------------ MODULE Access ------------------------------
(***************************************************************************)
(* Who may do what with one project (src/backend/src/access and            *)
(* src/backend/src/templates): direct roles, access through an             *)
(* organization, memberships from OIDC groups, share links with their      *)
(* guests, the template status, and the access epoch that fences the       *)
(* realtime writers.                                                       *)
(*                                                                         *)
(* A request checks its caller, opens a transaction, takes the row and     *)
(* advisory locks its statements take, in their order, and commits or      *)
(* rolls back; its effect is visible from the commit on.  The locks that   *)
(* foreign keys take on the project are left out: they conflict only with  *)
(* FOR UPDATE, and every transaction that takes one goes on to update the  *)
(* project, which conflicts with it as well.  Announcements to the rooms   *)
(* and the revalidation of streams are in Collaboration.                   *)
(***************************************************************************)
EXTENDS Integers, Sequences, FiniteSets

CONSTANTS
    Users, Creator,    \* accounts, and the one the project was created by
    Groups,            \* OIDC groups
    Requests,          \* handlers that run at the same time
    Writer,            \* the transaction of the realtime stream
    MaxRequests        \* requests that are ever started

ASSUME UsersAssumption == Creator \in Users
ASSUME WriterAssumption == Writer \notin Requests

VARIABLES
    roles,          \* project_roles
    orgAccess,      \* project_organization_access, of one organization
    members,        \* organization_memberships
    mapping,        \* org_oidc_group_role_mappings
    groupRole,      \* project_group_roles has a row
    links,          \* project_share_links
    guests,         \* anonymous_share_sessions, by the link that admitted them
    template,       \* projects.is_template
    templateOrg,    \* project_template_organization_access has a row
    mode,           \* auth_settings.anonymous_mode
    epoch,          \* projects.access_epoch
    req, started,   \* the running requests, and how many were started
    stream,         \* one realtime connection and its write
    missed          \* a membership changed behind a concurrent grant

grants == <<roles, orgAccess, members, mapping, groupRole, links, guests, template,
            templateOrg, mode, epoch, missed>>
vars == <<grants, req, started, stream>>

Permissions == {"read", "write"}
Roles == {"ReadOnly", "ReadWrite", "Owner"}
OrgRoles == {"member", "owner"}
Modes == {"off", "read_only", "read_write_named"}

ProjectRole(permission) == IF permission = "write" THEN "ReadWrite" ELSE "ReadOnly"
Rank(role) == CASE role = "owner" -> 2 [] role = "member" -> 1 [] OTHER -> 0

-----------------------------------------------------------------------------
(* Locks, by what they are on and their mode.  FOR NO KEY UPDATE and an    *)
(* exclusive advisory lock are "update".                                   *)

Lock(kind, of, m) == [on |-> <<kind, of>>, mode |-> m]
AccessLock(m) == Lock("access", "project", m)
ProjectRow(m) == Lock("project", "project", m)

Blocks(held, wanted) ==
    /\ held.on = wanted.on
    /\ {held.mode, wanted.mode} \notin {{"share"}, {"key"}, {"key", "update"}}

(* advance_project_access_epoch: the advisory lock, then the project. *)
AdvanceLocks == <<AccessLock("update"), ProjectRow("update")>>

Idle == [op |-> [kind |-> "none"], held |-> {}, todo |-> <<>>]
Closed == [at |-> "closed", who |-> "none", epoch |-> 0, held |-> {}, todo |-> <<>>]

Actors == Requests \cup {Writer}
Txn(a) == IF a = Writer THEN stream ELSE req[a]

Available(a, lock) == \A b \in Actors \ {a} : \A held \in Txn(b).held : ~Blocks(held, lock)

-----------------------------------------------------------------------------
(* Resolution of access.                                                   *)

Member(u) == members[u] /= "none"

UserMayWrite(u) ==
    \/ roles[u] \in {"ReadWrite", "Owner"}
    \/ Member(u) /\ orgAccess = "write"

(* A guest's session counts while its link is not revoked; it expires with *)
(* its link.                                                               *)
Active(p, id) == links[p].live /\ links[p].id = id
Valid(p, id) == Active(p, id) /\ ~links[p].expired
GuestMayWrite(id) == id \in guests /\ Active("write", id)

MayWrite(who) == IF who \in Users THEN UserMayWrite(who) ELSE GuestMayWrite(who)

(* The principal of ensure_project_access, for Read, can write: the mode   *)
(* only has to allow anonymous access.                                     *)
PrincipalCanWrite(who) ==
    IF who \in Users THEN UserMayWrite(who)
    ELSE mode /= "off" /\ GuestMayWrite(who) /\ Valid("write", who)

(* ensure_project_access, for Write. *)
WriteAllowed(who) ==
    /\ PrincipalCanWrite(who)
    /\ who \in Users \/ mode = "read_write_named"

MayManage(u) == roles[u] = "Owner"

-----------------------------------------------------------------------------
(* The requests, by what they are asked for.  All but the last three ask   *)
(* for AccessNeed::Manage.                                                 *)

UpsertRole == [kind: {"role"}, user: Users, role: Roles]
UpsertOrganizationAccess(actor) == [kind: {"orgAccess"}, actor: {actor}, perm: Permissions]
DeleteOrganizationAccess(actor) == [kind: {"orgAccess"}, actor: {actor}, perm: {"none"}]
UpsertGroupRole == [kind: {"groupRole"}, on: {TRUE}]
DeleteGroupRole == [kind: {"groupRole"}, on: {FALSE}]
CreateShareLink == [kind: {"enable"}, perm: Permissions]
RevokeShareLink == {[kind |-> "revoke", perm |-> p, id |-> links[p].id] : p \in Permissions}
UpdateTemplate == [kind: {"template"}, on: BOOLEAN]
GrantTemplateAccess(actor) == [kind: {"templateGrant"}, actor: {actor}]

ManageOps(actor) ==
    UNION {UpsertRole, UpsertOrganizationAccess(actor), DeleteOrganizationAccess(actor),
           UpsertGroupRole, DeleteGroupRole, CreateShareLink, RevokeShareLink, UpdateTemplate,
           GrantTemplateAccess(actor)}

ManageRequests == UNION {ManageOps(u) : u \in {v \in Users : MayManage(v)}}

(* Any user who has the link. *)
JoinShareLink ==
    {[kind |-> "join", user |-> u, perm |-> p, id |-> links[p].id] : u \in Users, p \in Permissions}

(* The mode and the link are read before the project is locked. *)
TemporaryShareLogin ==
    {op \in {[kind |-> "guest", perm |-> p, id |-> links[p].id] : p \in Permissions} :
        mode = "read_write_named" /\ Valid(op.perm, op.id)}

(* A login through OIDC tells the user's groups. *)
OidcLogin == [kind: {"sync"}, user: Users, groups: SUBSET Groups, change: {"none"}, found: {FALSE}]

-----------------------------------------------------------------------------
(* What a request locks, first to last.                                    *)

RoleLocks(u) == <<Lock("role", u, "update")>> \o AdvanceLocks
OrgAccessLocks == <<Lock("orgAccess", "row", "update")>> \o AdvanceLocks
GroupRoleLocks == <<Lock("groupRole", "row", "update")>> \o AdvanceLocks
EnableLocks(p) == <<Lock("link", p, "update")>> \o AdvanceLocks
RevokeLocks(p) == <<Lock("link", p, "update")>> \o AdvanceLocks
JoinLocks(p, u) == <<Lock("link", p, "share")>> \o RoleLocks(u)
GuestLocks(p) == <<ProjectRow("for_update"), Lock("link", p, "share")>>
TemplateGrantLocks == <<ProjectRow("for_update")>>

(* Fault: the project is changed before the advisory lock is taken. *)
TemplateLocksProjectFirst == <<ProjectRow("update"), AccessLock("update")>>

(* The advisory lock, then is_template. *)
TemplateLocks == <<AccessLock("update"), ProjectRow("update")>>

(* replace_user_groups; what follows depends on what is read. *)
SyncLocks(u) == <<Lock("groups", u, "update")>>

Plan(op) ==
    CASE op.kind = "role"          -> RoleLocks(op.user)
      [] op.kind = "orgAccess"     -> OrgAccessLocks
      [] op.kind = "groupRole"     -> GroupRoleLocks
      [] op.kind = "enable"        -> EnableLocks(op.perm)
      [] op.kind = "revoke"        -> RevokeLocks(op.perm)
      [] op.kind = "join"          -> JoinLocks(op.perm, op.user)
      [] op.kind = "guest"         -> GuestLocks(op.perm)
      [] op.kind = "template"      -> TemplateLocks
      [] op.kind = "templateGrant" -> TemplateGrantLocks
      [] op.kind = "sync"          -> SyncLocks(op.user)

(* An organization is granted access by its members. *)
Admitted(op) == op.kind = "orgAccess" /\ op.perm /= "none" => Member(op.actor)

Begin(r) ==
    /\ req[r] = Idle /\ started < MaxRequests
    /\ started' = started + 1
    /\ \E op \in ManageRequests \cup JoinShareLink \cup TemporaryShareLogin \cup OidcLogin :
         /\ Admitted(op)
         /\ req' = [req EXCEPT ![r] = [op |-> op, held |-> {}, todo |-> Plan(op)]]
    /\ UNCHANGED <<grants, stream>>

-----------------------------------------------------------------------------
(* The statements of a transaction.                                        *)

(* What a statement finds, once it has its row, ends the request. *)
LinkRefuses(op) ==
    \/ op.kind = "revoke" /\ ~Active(op.perm, op.id)
    \/ op.kind = "join" /\ ~Valid(op.perm, op.id)
    \/ op.kind = "guest" /\ (~Valid(op.perm, op.id) \/ op.perm /= "write")

(* Fault: a guest is admitted whatever the project has become. *)
ProjectRefusesNoGuest(op) == op.kind = "templateGrant" /\ ~(template /\ Member(op.actor))

ProjectRefuses(op) ==
    \/ op.kind = "guest" /\ template
    \/ op.kind = "templateGrant" /\ ~(template /\ Member(op.actor))

Refused(op, on) ==
    \/ on[1] = "link" /\ LinkRefuses(op)
    \/ on[1] = "project" /\ ProjectRefuses(op)
    \/ on[1] = "orgAccess" /\ op.perm = "none" /\ orgAccess = "none"
    \/ on[1] = "groupRole" /\ ~op.on /\ ~groupRole

(* sync_oidc_identity_groups: the highest role of the mapped groups; a     *)
(* member whose groups are no longer mapped leaves, an owner never does.   *)
DesiredRole(op) ==
    LET mapped == {mapping[g] : g \in op.groups} \ {"none"}
    IN  IF mapped = {} THEN "none"
        ELSE CHOOSE role \in mapped : \A other \in mapped : Rank(other) <= Rank(role)

MembershipChange(op) ==
    LET desired == DesiredRole(op)
        current == members[op.user]
    IN  CASE current \in {"owner", desired} -> "none"
          [] desired /= "none" -> desired
          [] OTHER -> IF \E g \in Groups : mapping[g] /= "none" THEN "leave" ELSE "none"

(* The rest of a sync depends on what it has read: the membership is       *)
(* locked if it changes, and the project if a statement then finds that    *)
(* the organization has access to it.                                      *)
Continued(t, on) ==
    LET op == t.op
        change == MembershipChange(op)
        found == orgAccess /= "none"
    IN  CASE op.kind = "sync" /\ on[1] = "groups" ->
               [t EXCEPT !.op.change = change,
                         !.todo = IF change = "none" THEN <<>>
                                  ELSE <<Lock("member", op.user, "update")>>]
          [] op.kind = "sync" /\ on[1] = "member" ->
               [t EXCEPT !.op.found = found, !.todo = IF found THEN AdvanceLocks ELSE <<>>]
          [] OTHER -> [t EXCEPT !.todo = Tail(t.todo)]

TakeLock(r) ==
    /\ req[r].todo /= <<>>
    /\ LET lock == Head(req[r].todo)
           taken == [Continued(req[r], lock.on) EXCEPT !.held = @ \cup {lock}]
       IN  /\ Available(r, lock)
           /\ req' = [req EXCEPT ![r] = IF Refused(req[r].op, lock.on) THEN Idle ELSE taken]
    /\ UNCHANGED <<grants, started, stream>>

(* A statement fails, PostgreSQL picks the transaction to end a deadlock,  *)
(* or the caller has gone: the transaction is rolled back.                 *)
Abort(r) ==
    /\ req[r] /= Idle
    /\ req' = [req EXCEPT ![r] = Idle]
    /\ UNCHANGED <<grants, started, stream>>

-----------------------------------------------------------------------------
(* What a request has changed once it commits.                             *)

AtLeast(current, requested) ==
    IF current = "Owner" \/ (current = "ReadWrite" /\ requested = "ReadOnly")
    THEN current ELSE requested

RoleSet(u, role) == [roles EXCEPT ![u] = role]

RolesAfter(op) ==
    CASE op.kind = "role" -> RoleSet(op.user, op.role)
      [] op.kind = "join" -> RoleSet(op.user, AtLeast(roles[op.user], ProjectRole(op.perm)))
      [] OTHER -> roles

(* A link that is active keeps its token, and so its guests; after it was  *)
(* revoked there is a new one.                                             *)
LinkEnabled(p) ==
    [links EXCEPT ![p] = [id |-> IF @.live THEN @.id ELSE @.id + 1,
                          live |-> TRUE, expired |-> FALSE]]
LinkRevoked(p) == [links EXCEPT ![p].live = FALSE]

LinksAfter(op) ==
    CASE op.kind = "enable" -> LinkEnabled(op.perm)
      [] op.kind = "revoke" -> LinkRevoked(op.perm)
      [] OTHER -> links

GuestAdmitted(id) == guests \cup {id}

GuestsAfter(op) ==
    CASE op.kind = "guest" -> GuestAdmitted(op.id)
      [] op.kind = "template" /\ op.on -> {}
      [] OTHER -> guests

MemberLeft(u) == [members EXCEPT ![u] = IF @ = "owner" THEN @ ELSE "none"]
MemberSet(u, role) == [members EXCEPT ![u] = IF @ = "owner" THEN @ ELSE role]

MembersAfter(op) ==
    CASE op.kind /= "sync" \/ op.change = "none" -> members
      [] op.kind = "sync" /\ op.change = "leave" -> MemberLeft(op.user)
      [] OTHER -> MemberSet(op.user, op.change)

(* Only a template keeps what it was granted to organizations. *)
TemplateOrgAfter(op) ==
    \/ op.kind = "templateGrant"
    \/ templateOrg /\ ~(op.kind = "template" /\ ~op.on)

(* Fault: what a sync takes away does not advance the epoch. *)
AdvancesNotOnLeave(op) ==
    \/ op.kind \in {"role", "orgAccess", "groupRole", "enable", "revoke", "join"}
    \/ op.kind = "template" /\ op.on
    \/ op.kind = "sync" /\ op.found /\ op.change /= "leave"

(* Leaving the template status advances nothing. *)
Advances(op) ==
    \/ op.kind \in {"role", "orgAccess", "groupRole", "enable", "revoke", "join"}
    \/ op.kind = "template" /\ op.on
    \/ op.kind = "sync" /\ op.found

Commit(r) ==
    LET op == req[r].op IN
    /\ req[r] /= Idle /\ req[r].todo = <<>>
    /\ roles' = RolesAfter(op)
    /\ orgAccess' = IF op.kind = "orgAccess" THEN op.perm ELSE orgAccess
    /\ members' = MembersAfter(op)
    /\ groupRole' = IF op.kind = "groupRole" THEN op.on ELSE groupRole
    /\ links' = LinksAfter(op)
    /\ guests' = GuestsAfter(op)
    /\ template' = IF op.kind = "template" THEN op.on ELSE template
    /\ templateOrg' = TemplateOrgAfter(op)
    /\ epoch' = IF Advances(op) THEN epoch + 1 ELSE epoch
    /\ missed' = (missed \/ (members' /= members /\ ~op.found /\ orgAccess /= "none"))
    /\ req' = [req EXCEPT ![r] = Idle]
    /\ UNCHANGED <<mapping, mode, started, stream>>

-----------------------------------------------------------------------------
(* Requests of one statement that contends with none of the others.        *)

UpdateGroupMapping(g, role) ==
    /\ started < MaxRequests /\ mapping[g] /= role
    /\ started' = started + 1
    /\ mapping' = [mapping EXCEPT ![g] = role]
    /\ UNCHANGED <<roles, orgAccess, members, groupRole, links, guests, template, templateOrg,
                   mode, epoch, missed, req, stream>>

UpdateAuthSettings(m) ==
    /\ started < MaxRequests /\ m /= mode
    /\ started' = started + 1
    /\ mode' = m
    /\ UNCHANGED <<roles, orgAccess, members, mapping, groupRole, links, guests, template,
                   templateOrg, epoch, missed, req, stream>>

DeleteTemplateAccess ==
    /\ started < MaxRequests /\ templateOrg
    /\ \E u \in Users : MayManage(u)
    /\ started' = started + 1
    /\ templateOrg' = FALSE
    /\ UNCHANGED <<roles, orgAccess, members, mapping, groupRole, links, guests, template,
                   mode, epoch, missed, req, stream>>

LinkExpires(p) ==
    /\ links[p].live /\ ~links[p].expired
    /\ links' = [links EXCEPT ![p].expired = TRUE]
    /\ UNCHANGED <<roles, orgAccess, members, mapping, groupRole, guests, template, templateOrg,
                   mode, epoch, missed, req, started, stream>>

-----------------------------------------------------------------------------
(* One realtime stream of someone who can write.  The epoch is read after  *)
(* the principal; each update checks the principal again, without a lock,  *)
(* and then compares the epoch under the shared lock it commits with.      *)

OpenStream(who) ==
    /\ stream = Closed /\ PrincipalCanWrite(who)
    /\ stream' = [Closed EXCEPT !.at = "authorized", !.who = who]
    /\ UNCHANGED <<grants, req, started>>

ReadEpoch ==
    /\ stream.at = "authorized"
    /\ stream' = [stream EXCEPT !.at = "open", !.epoch = epoch]
    /\ UNCHANGED <<grants, req, started>>

CheckWrite ==
    /\ stream.at = "open"
    /\ stream' = IF WriteAllowed(stream.who)
                 THEN [stream EXCEPT !.at = "checked",
                                     !.todo = <<ProjectRow("key"), AccessLock("share")>>]
                 ELSE Closed
    /\ UNCHANGED <<grants, req, started>>

TakeWriteLock ==
    /\ stream.todo /= <<>>
    /\ LET lock == Head(stream.todo)
       IN  /\ Available(Writer, lock)
           /\ stream' = IF lock.on[1] = "access" /\ stream.epoch /= epoch THEN Closed
                        ELSE [stream EXCEPT !.held = @ \cup {lock}, !.todo = Tail(@)]
    /\ UNCHANGED <<grants, req, started>>

EndUpdate ==
    /\ stream.at = "checked"
    /\ stream' = [stream EXCEPT !.at = "open", !.held = {}, !.todo = <<>>]
    /\ UNCHANGED <<grants, req, started>>

-----------------------------------------------------------------------------
(* Projects as they are met: private, or opened to an organization, by a   *)
(* link that has a guest, or as a template.                                *)
NoLink == [id |-> 0, live |-> FALSE, expired |-> FALSE]

Init ==
    /\ roles = [u \in Users |-> IF u = Creator THEN "Owner" ELSE "none"]
    /\ members \in {m \in [Users -> {"owner", "member", "none"}] : m[Creator] = "owner"}
    /\ mapping = [g \in Groups |-> "member"]
    /\ groupRole = FALSE
    /\ \/ /\ orgAccess = "none" /\ guests = {} /\ template = FALSE /\ templateOrg = FALSE
          /\ links = [p \in Permissions |-> NoLink]
       \/ /\ orgAccess = "write" /\ guests = {1} /\ template = FALSE /\ templateOrg = FALSE
          /\ links = [p \in Permissions |-> [NoLink EXCEPT !.id = 1, !.live = TRUE]]
       \/ /\ orgAccess = "none" /\ guests = {} /\ template = TRUE /\ templateOrg = TRUE
          /\ links = [p \in Permissions |-> [NoLink EXCEPT !.id = 1, !.live = TRUE]]
    /\ mode = "read_write_named"
    /\ epoch = 0 /\ missed = FALSE
    /\ req = [r \in Requests |-> Idle] /\ started = 0
    /\ stream = Closed

Next ==
    \/ \E r \in Requests : Begin(r) \/ TakeLock(r) \/ Abort(r) \/ Commit(r)
    \/ \E g \in Groups, role \in OrgRoles \cup {"none"} : UpdateGroupMapping(g, role)
    \/ \E m \in Modes : UpdateAuthSettings(m)
    \/ DeleteTemplateAccess
    \/ \E p \in Permissions : LinkExpires(p)
    \/ \E who \in Users \cup guests : OpenStream(who)
    \/ ReadEpoch \/ CheckWrite \/ TakeWriteLock \/ EndUpdate

Spec == Init /\ [][Next]_vars

-----------------------------------------------------------------------------
(* Properties.                                                             *)

(* An update that has passed the epoch's lock comes from someone who may   *)
(* write, and whose right nobody takes away before it commits: every       *)
(* change that takes a right away advances the epoch under the exclusive   *)
(* lock, in its own transaction (updates.rs, grant_persistence.rs).  The   *)
(* time a link ends and the anonymous mode are left to the check before    *)
(* the lock.  A sync that changes a membership while a grant to the        *)
(* organization is in flight does not advance the epoch of that project    *)
(* (advance_organization_project_access_epochs): those are set apart.      *)
AdmittedWriterMayWrite ==
    stream.at = "checked" /\ stream.todo = <<>> /\ ~missed => MayWrite(stream.who)

(* A template has no guests, and only a template is offered to an          *)
(* organization, whatever status changes, admissions and grants run at the *)
(* same time (template_status.rs, sharing.rs, organization_grants.rs).     *)
ClassificationHolds ==
    /\ template => guests = {}
    /\ templateOrg => template

(* Requests and realtime writes take their locks in an order that leaves   *)
(* no two of them waiting for each other, but for one pair: the admission  *)
(* of a guest locks the project and then the link, a change of that link   *)
(* locks the link and then the project (sharing.rs).  PostgreSQL ends one  *)
(* of the two.                                                             *)
Waits(a, b) ==
    /\ Txn(a).todo /= <<>>
    /\ \E held \in Txn(b).held : Blocks(held, Head(Txn(a).todo))

Cycle(S) == S /= {} /\ \A a \in S : \E b \in S \ {a} : Waits(a, b)

LocksAreOrdered ==
    \A S \in SUBSET Actors : Cycle(S) =>
        \E a, b \in S \ {Writer} :
            req[a].op.kind = "guest" /\ req[b].op.kind \in {"enable", "revoke"}

=============================================================================
