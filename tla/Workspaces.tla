----------------------------- MODULE Workspaces -----------------------------
(***************************************************************************)
(* One workspace of packages/workspaces: its row in table workspaces, the  *)
(* rows of workspace_memberships and workspace_invitations that point to   *)
(* it, and the audit events its services write.  Every statement of the    *)
(* package filters on workspace_id, so workspaces do not interact and one  *)
(* is enough.                                                              *)
(*                                                                         *)
(* An HTTP request is a process.  withWorkspaceRoute reads the role of the *)
(* caller once, and then hands the handler a plain pooled connection: each *)
(* statement of the service commits on its own, and other requests run     *)
(* between any two of them.  Only createWorkspace and accept (and the      *)
(* transaction the caller of transferOwnership must open, ADR 0009) are    *)
(* atomic.  A request may die between two statements (Die).                *)
(***************************************************************************)
EXTENDS Naturals, FiniteSets

CONSTANTS
  Users,          \* users with an account
  Invites,        \* ids of the invitations that may be created
  Requests,       \* requests that may be in flight at the same time
  MaxRequests,    \* bound: requests served in one behaviour
  NoUser,         \* SQL NULL in a user column
  TransferRaces   \* may transferOwnership run while a membership edit is in flight?

ASSUME WorkspacesAssumption ==
  /\ NoUser \notin Users
  /\ MaxRequests \in Nat
  /\ TransferRaces \in BOOLEAN

VARIABLES
  phase,      \* the workspaces row: absent, active, archived (archived_at set)
  ownerUser,  \* workspaces.owner_user_id
  role,       \* workspace_memberships.role, "none" when the user has no row
  removed,    \* removed_at IS NOT NULL
  invite,     \* workspace_invitations
  trail,      \* number of audit events of each type
  req,        \* the requests
  started,    \* how many requests were served
  changes,    \* history: committed changes of each type
  joinedBy    \* history: the invitation a user joined with

vars == <<phase, ownerUser, role, removed, invite, trail, req, started,
          changes, joinedBy>>
dbVars == <<phase, ownerUser, role, removed, invite, trail, changes, joinedBy>>

Roles       == {"owner", "admin", "member", "viewer"}
InviteRoles == Roles \ {"owner"}
Events      == {"created", "updated", "archived", "restored", "ownership_transferred"}
Steps       == {"idle", "readRole", "countOwners", "write", "audit"}
Operations  == {"none", "updateRole", "removeMember", "update", "archive", "restore",
                "transferOwnership", "invite"}
NoInvite    == [state |-> "unused", role |-> "none"]
Idle        == [pc |-> "idle", op |-> "none", by |-> NoUser, target |-> NoUser,
                role |-> "none"]

Invitation == [state : {"unused", "open", "accepted", "declined"},
               role  : InviteRoles \cup {"none"}]
Targeted   == {"updateRole", "removeMember", "transferOwnership"}
Request    == {q \in [pc : Steps, op : Operations, by : Users \cup {NoUser},
                      target : Users \cup {NoUser}, role : Roles \cup {"none"}] :
                 q.op \in Targeted => q.target \in Users}

-----------------------------------------------------------------------------
(* What the queries of the package see.                                    *)

HasRow(u) == role[u] # "none"
Active(u) == HasRow(u) /\ ~removed[u]

ActiveOwners == {u \in Users : role[u] = "owner" /\ ~removed[u]}

(* The partial unique index uq_workspace_owner_marker refuses a second     *)
(* active owner.                                                           *)
OwnerIndexAllows(u) == ActiveOwners \subseteq {u}

(* ROLE_CAPABILITIES, for the operations of this module.                   *)
RoleCan(r, op) ==
  \/ r = "owner"
  \/ r = "admin" /\ op \notin {"archive", "transferOwnership"}

-----------------------------------------------------------------------------
Init ==
  /\ phase = "absent"
  /\ ownerUser = NoUser
  /\ role = [u \in Users |-> "none"]
  /\ removed = [u \in Users |-> FALSE]
  /\ invite = [i \in Invites |-> NoInvite]
  /\ trail = [e \in Events |-> 0]
  /\ req = [r \in Requests |-> Idle]
  /\ started = 0
  /\ changes = [e \in Events |-> 0]
  /\ joinedBy = [u \in Users |-> {}]

(* Mutant: owner_user_id left out of the INSERT.                           *)
CreateWorkspaceWithoutOwner(u) ==
  /\ phase = "absent"
  /\ phase' = "active"
  /\ role' = [role EXCEPT ![u] = "owner"]
  /\ trail' = [trail EXCEPT !["created"] = @ + 1]
  /\ changes' = [changes EXCEPT !["created"] = @ + 1]
  /\ UNCHANGED <<ownerUser, removed, invite, req, started, joinedBy>>

(* workspaceService.createWorkspace: the workspace, the membership of its  *)
(* owner and the audit event in one transaction.                           *)
CreateWorkspace(u) ==
  /\ phase = "absent"
  /\ phase' = "active"
  /\ ownerUser' = u
  /\ role' = [role EXCEPT ![u] = "owner"]
  /\ trail' = [trail EXCEPT !["created"] = @ + 1]
  /\ changes' = [changes EXCEPT !["created"] = @ + 1]
  /\ UNCHANGED <<removed, invite, req, started, joinedBy>>

-----------------------------------------------------------------------------
(* Starting a request: withWorkspaceRoute.                                 *)

(* requireWorkspace and the capability check: the role is read here, once. *)
MayStart(u, op) ==
  /\ phase = "active"
  /\ Active(u)
  /\ RoleCan(role[u], op)

Start(r, op, u, target, newRole, pc) ==
  /\ req[r] = Idle
  /\ started < MaxRequests
  /\ started' = started + 1
  /\ req' = [req EXCEPT ![r] = [pc |-> pc, op |-> op, by |-> u, target |-> target,
                                role |-> newRole]]
  /\ UNCHANGED dbVars

(* PUT members/[userId]: updateRole skips assertNotLastOwner when the new  *)
(* role is owner.                                                          *)
StartUpdateRole(r, u, target, newRole) ==
  /\ MayStart(u, "updateRole")
  /\ Start(r, "updateRole", u, target, newRole,
           IF newRole = "owner" THEN "write" ELSE "readRole")

(* DELETE members/[userId].                                                *)
StartRemoveMember(r, u, target) ==
  /\ MayStart(u, "removeMember")
  /\ Start(r, "removeMember", u, target, "none", "readRole")

(* PUT and DELETE workspaces/[id].  The role is read in the workspace that *)
(* the header or the query names, and the handler edits params.id: the two *)
(* agree by convention only, so no role in this workspace is assumed.      *)
StartWorkspaceEdit(r, u, op) ==
  /\ op \in {"update", "archive"}
  /\ phase # "absent"
  /\ Start(r, op, u, NoUser, "none", "write")

(* workspaceService.restore has no route: it is started directly, and its  *)
(* workspace is archived, so requireWorkspace could not admit it.          *)
StartRestore(r, u) ==
  /\ phase # "absent"
  /\ Start(r, "restore", u, NoUser, "none", "write")

(* transferOwnership has no route either; its capability is the owner's.   *)
StartTransfer(r, u, target) ==
  /\ MayStart(u, "transferOwnership")
  /\ target # u
  /\ Start(r, "transferOwnership", u, target, "none", "write")

(* POST workspaces/[id]/invitations.                                       *)
StartInvite(r, u, newRole) ==
  /\ MayStart(u, "invite")
  /\ Start(r, "invite", u, NoUser, newRole, "write")

-----------------------------------------------------------------------------
(* The statements of the services.                                         *)

At(r, pc, op) == req[r].pc = pc /\ req[r].op = op
GoTo(r, pc)   == req' = [req EXCEPT ![r].pc = pc]
Finish(r)     == req' = [req EXCEPT ![r] = Idle]

(* Mutant: assertNotLastOwner is not called.                               *)
ReadRoleUnchecked(r) ==
  /\ req[r].pc = "readRole"
  /\ GoTo(r, "write")
  /\ UNCHANGED <<dbVars, started>>

(* assertNotLastOwner, first query: the role of the target.                *)
ReadRole(r) ==
  /\ req[r].pc = "readRole"
  /\ GoTo(r, IF req[r].target \in ActiveOwners THEN "countOwners" ELSE "write")
  /\ UNCHANGED <<dbVars, started>>

(* assertNotLastOwner, second query: a count of at most 1 throws.          *)
CountOwners(r) ==
  /\ req[r].pc = "countOwners"
  /\ IF \E u, v \in ActiveOwners : u # v
       THEN GoTo(r, "write")
       ELSE Finish(r)
  /\ UNCHANGED <<dbVars, started>>

(* updateRole, the UPDATE: db.one throws when no active row matches, and   *)
(* the owner index throws on a second owner.                               *)
WriteRole(r) ==
  LET t == req[r].target
      new == req[r].role
  IN
  /\ At(r, "write", "updateRole")
  /\ IF Active(t) /\ (new = "owner" => OwnerIndexAllows(t))
       THEN role' = [role EXCEPT ![t] = new]
       ELSE UNCHANGED role
  /\ Finish(r)
  /\ UNCHANGED <<phase, ownerUser, removed, invite, trail, started, changes, joinedBy>>

(* removeMember, the UPDATE: a row already removed is left alone.          *)
WriteRemoval(r) ==
  /\ At(r, "write", "removeMember")
  /\ removed' = [removed EXCEPT ![req[r].target] = @ \/ HasRow(req[r].target)]
  /\ Finish(r)
  /\ UNCHANGED <<phase, ownerUser, role, invite, trail, started, changes, joinedBy>>

(* The workspace row of update, archive and restore.  update and archive   *)
(* throw (db.one) when the row is archived; restore never looks.           *)
Committed(event) == changes' = [changes EXCEPT ![event] = @ + 1]

WriteUpdate(r) ==
  /\ At(r, "write", "update")
  /\ IF phase = "active"
       THEN GoTo(r, "audit") /\ Committed("updated")
       ELSE Finish(r) /\ UNCHANGED changes
  /\ UNCHANGED <<phase, ownerUser, role, removed, invite, trail, started, joinedBy>>

(* Mutant: the audit event is written whether or not a row was archived.   *)
WriteArchiveUnconditionally(r) ==
  /\ At(r, "write", "archive")
  /\ phase' = "archived"
  /\ GoTo(r, "audit")
  /\ IF phase = "active" THEN Committed("archived") ELSE UNCHANGED changes
  /\ UNCHANGED <<ownerUser, role, removed, invite, trail, started, joinedBy>>

WriteArchive(r) ==
  /\ At(r, "write", "archive")
  /\ IF phase = "active"
       THEN phase' = "archived" /\ GoTo(r, "audit") /\ Committed("archived")
       ELSE Finish(r) /\ UNCHANGED <<phase, changes>>
  /\ UNCHANGED <<ownerUser, role, removed, invite, trail, started, joinedBy>>

WriteRestore(r) ==
  /\ At(r, "write", "restore")
  /\ phase' = "active"
  /\ GoTo(r, "audit")
  /\ Committed("restored")
  /\ UNCHANGED <<ownerUser, role, removed, invite, trail, started, joinedBy>>

(* Their audit event is a statement, and a commit, of its own.             *)
EventOf(op) == CASE op = "update"  -> "updated"
                 [] op = "archive" -> "archived"
                 [] op = "restore" -> "restored"

WriteAudit(r) ==
  /\ req[r].pc = "audit"
  /\ trail' = [trail EXCEPT ![EventOf(req[r].op)] = @ + 1]
  /\ Finish(r)
  /\ UNCHANGED <<phase, ownerUser, role, removed, invite, started, changes, joinedBy>>

MembershipEdits == {"updateRole", "removeMember"}

(* Mutant: whoever is the owner is demoted, not the user who asked.        *)
TransferFromAnyOwner(r) ==
  LET new == req[r].target
  IN
  /\ At(r, "write", "transferOwnership")
  /\ TransferRaces \/ \A q \in Requests : req[q].op \notin MembershipEdits
  /\ role' = [u \in Users |-> IF u = new THEN "owner"
                             ELSE IF u \in ActiveOwners THEN "admin" ELSE role[u]]
  /\ removed' = [removed EXCEPT ![new] = FALSE]
  /\ ownerUser' = new
  /\ trail' = [trail EXCEPT !["ownership_transferred"] = @ + 1]
  /\ Committed("ownership_transferred")
  /\ Finish(r)
  /\ UNCHANGED <<phase, invite, started, joinedBy>>

(* transferOwnership, the transaction of ADR 0009.  The row lock on the    *)
(* old owner's membership serialises it with other transfers, and the      *)
(* single statements of other requests fall before or after it.            *)
Transfer(r) ==
  LET old == req[r].by
      new == req[r].target
  IN
  /\ At(r, "write", "transferOwnership")
  /\ TransferRaces \/ \A q \in Requests : req[q].op \notin MembershipEdits
  /\ IF old \in ActiveOwners
       THEN /\ role' = [role EXCEPT ![old] = "admin", ![new] = "owner"]
            /\ removed' = [removed EXCEPT ![new] = FALSE]
            /\ ownerUser' = new
            /\ trail' = [trail EXCEPT !["ownership_transferred"] = @ + 1]
            /\ Committed("ownership_transferred")
       ELSE UNCHANGED <<role, removed, ownerUser, trail, changes>>
  /\ Finish(r)
  /\ UNCHANGED <<phase, invite, started, joinedBy>>

(* invitationService.create: the CHECK of table workspace_invitations      *)
(* refuses an invitation to become owner.                                  *)
WriteInvite(r, i) ==
  /\ At(r, "write", "invite")
  /\ invite[i].state = "unused"
  /\ IF req[r].role \in InviteRoles
       THEN invite' = [invite EXCEPT ![i] = [state |-> "open", role |-> req[r].role]]
       ELSE UNCHANGED invite
  /\ Finish(r)
  /\ UNCHANGED <<phase, ownerUser, role, removed, trail, started, changes, joinedBy>>

(* A request stops between two statements: the process or its connection   *)
(* is lost, and nothing resumes it.                                        *)
Die(r) ==
  /\ req[r].pc # "idle"
  /\ Finish(r)
  /\ UNCHANGED <<dbVars, started>>

-----------------------------------------------------------------------------
(* Mutant: the UPDATE forgets "accepted_at IS NULL".                       *)
AcceptInvitationAgain(u, i) ==
  /\ invite[i].state # "unused"
  /\ ~HasRow(u)
  /\ invite' = [invite EXCEPT ![i].state = "accepted"]
  /\ role' = [role EXCEPT ![u] = invite[i].role]
  /\ joinedBy' = [joinedBy EXCEPT ![u] = @ \cup {i}]
  /\ UNCHANGED <<phase, ownerUser, removed, trail, req, started, changes>>

(* Mutant: ON CONFLICT DO UPDATE revives the row of a removed member.      *)
AcceptInvitationReviving(u, i) ==
  /\ invite[i].state = "open"
  /\ ~Active(u)
  /\ invite' = [invite EXCEPT ![i].state = "accepted"]
  /\ role' = [role EXCEPT ![u] = invite[i].role]
  /\ removed' = [removed EXCEPT ![u] = FALSE]
  /\ joinedBy' = [joinedBy EXCEPT ![u] = @ \cup {i}]
  /\ UNCHANGED <<phase, ownerUser, trail, req, started, changes>>

(* invitationService.accept: one transaction.  The INSERT violates         *)
(* uq_membership when the user has a row, removed or not, and the          *)
(* acceptance is rolled back with it.                                      *)
AcceptInvitation(u, i) ==
  /\ invite[i].state = "open"
  /\ ~HasRow(u)
  /\ invite' = [invite EXCEPT ![i].state = "accepted"]
  /\ role' = [role EXCEPT ![u] = invite[i].role]
  /\ joinedBy' = [joinedBy EXCEPT ![u] = @ \cup {i}]
  /\ UNCHANGED <<phase, ownerUser, removed, trail, req, started, changes>>

(* invitationService.decline.                                              *)
DeclineInvitation(i) ==
  /\ invite[i].state = "open"
  /\ invite' = [invite EXCEPT ![i].state = "declined"]
  /\ UNCHANGED <<phase, ownerUser, role, removed, trail, req, started, changes, joinedBy>>

-----------------------------------------------------------------------------
Starts(r) ==
  \E u \in Users :
    \/ \E target \in Users, newRole \in Roles : StartUpdateRole(r, u, target, newRole)
    \/ \E target \in Users : StartRemoveMember(r, u, target)
    \/ \E op \in {"update", "archive"} : StartWorkspaceEdit(r, u, op)
    \/ StartRestore(r, u)
    \/ \E target \in Users : StartTransfer(r, u, target)
    \/ \E newRole \in Roles : StartInvite(r, u, newRole)

Statement(r) ==
  \/ ReadRole(r)
  \/ CountOwners(r)
  \/ WriteRole(r)
  \/ WriteRemoval(r)
  \/ WriteUpdate(r)
  \/ WriteArchive(r)
  \/ WriteRestore(r)
  \/ WriteAudit(r)
  \/ Transfer(r)
  \/ \E i \in Invites : WriteInvite(r, i)

Next ==
  \/ \E u \in Users : CreateWorkspace(u)
  \/ \E r \in Requests : Starts(r) \/ Statement(r) \/ Die(r)
  \/ \E u \in Users, i \in Invites : AcceptInvitation(u, i)
  \/ \E i \in Invites : DeclineInvitation(i)

Spec == Init /\ [][Next]_vars

-----------------------------------------------------------------------------
(* Types; a workspaces row always has an owner_user_id (NOT NULL), and     *)
(* members only exist in a workspace that exists (foreign key).            *)
TypeOK ==
  /\ phase \in {"absent", "active", "archived"}
  /\ ownerUser \in Users \cup {NoUser}
  /\ role \in [Users -> Roles \cup {"none"}]
  /\ removed \in [Users -> BOOLEAN]
  /\ invite \in [Invites -> Invitation]
  /\ trail \in [Events -> Nat]
  /\ req \in [Requests -> Request]
  /\ started \in Nat
  /\ changes \in [Events -> Nat]
  /\ joinedBy \in [Users -> SUBSET Invites]
  /\ phase = "absent" <=> ownerUser = NoUser

(* ADR 0009: a workspace has exactly one owner at all times, and it is the *)
(* one its row names.  The partial unique index gives "at most one"; "at   *)
(* least one" rests on assertNotLastOwner, which reads and then writes in  *)
(* two commits.                                                            *)
ExactlyOneOwner ==
  phase # "absent" => ActiveOwners = {ownerUser}

(* Why ExactlyOneOwner holds although assertNotLastOwner and the UPDATE    *)
(* that relies on it are two commits: a removal or a demotion that has     *)
(* passed the check is never aimed at the owner, whatever happened since.  *)
InFlightEditsSpareTheOwner ==
  \A r \in Requests :
    /\ req[r].pc = "write"
    /\ \/ req[r].op = "removeMember"
       \/ req[r].op = "updateRole" /\ req[r].role # "owner"
    => req[r].target # ownerUser

(* The index alone: never two active owners, whatever races.               *)
AtMostOneOwner ==
  \A u, v \in ActiveOwners : u = v

(* An invitation lets in one user, once: it is accepted exactly when one   *)
(* user's membership came from it.  Two users (or one user twice) racing   *)
(* for the same link, or a link whose membership INSERT failed, must not   *)
(* break this.                                                             *)
InvitationsAreSingleUse ==
  /\ \A i \in Invites :
       invite[i].state = "accepted" <=> \E u \in Users : i \in joinedBy[u]
  /\ \A u, v \in Users : u # v => joinedBy[u] \cap joinedBy[v] = {}

(* A removed member stays out: an invitation does not let him back in (the *)
(* row is still there); only becoming the owner revives his row.           *)
RemovalIsFinal ==
  [][\A u \in Users : HasRow(u) /\ removed[u] => removed'[u] \/ role'[u] = "owner"]_vars

(* The audit trail against the changes: those made in a transaction are    *)
(* always recorded; the others never have more events than changes, even   *)
(* counting the events still to be written, and a missing event is one     *)
(* whose request died before writing it.                                   *)
AboutToRecord(e) == {r \in Requests : req[r].pc = "audit" /\ EventOf(req[r].op) = e}

TrailFollowsChanges ==
  /\ \A e \in {"created", "ownership_transferred"} : trail[e] = changes[e]
  /\ \A e \in Events : trail[e] + Cardinality(AboutToRecord(e)) <= changes[e]

(* The specification above implements Ownership.  The owner is the one     *)
(* active membership with that role, a member is an active row, and an     *)
(* offer is a transfer that is in flight.  What can go wrong: a transfer   *)
(* that waited for the row lock moves the ownership although the user who  *)
(* asked for it has lost it meanwhile; a transfer loses the old owner his  *)
(* membership; a removal reaches the owner.                                *)
CurrentOwner ==
  IF \E u \in Users : ActiveOwners = {u}
    THEN CHOOSE u \in Users : ActiveOwners = {u}
    ELSE NoUser

Standing ==
  [u \in Users |-> IF ~HasRow(u) THEN "outsider"
                   ELSE IF removed[u] THEN "removed" ELSE "member"]

Transfers == {r \in Requests : req[r].op = "transferOwnership"}
Offers    == {<<req[r].by, req[r].target>> : r \in Transfers}

Promise == INSTANCE Ownership
  WITH owner <- CurrentOwner, standing <- Standing, offers <- Offers

OwnershipIsKept == Promise!Spec
=============================================================================
