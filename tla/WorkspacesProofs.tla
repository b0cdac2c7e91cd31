-------------------------- MODULE WorkspacesProofs --------------------------
(***************************************************************************)
(* Proofs about Workspaces, for any users, invitations, requests and       *)
(* number of requests.                                                     *)
(***************************************************************************)
EXTENDS Workspaces, FiniteSetTheorems, TLAPS

(* Before the workspace exists nothing points to it.                       *)
NothingBeforeCreation ==
  phase = "absent" =>
    /\ \A u \in Users : role[u] = "none" /\ ~removed[u]
    /\ \A r \in Requests : req[r] = Idle
    /\ \A i \in Invites : invite[i].state = "unused"

(* The invariant that is inductive when transferOwnership does not overlap *)
(* a membership edit.                                                      *)
OwnerInvariant ==
  /\ TypeOK
  /\ NothingBeforeCreation
  /\ ExactlyOneOwner
  /\ InFlightEditsSpareTheOwner

-----------------------------------------------------------------------------
(* Types.                                                                  *)

LEMMA InitTypeOK == Init => TypeOK
BY WorkspacesAssumption
DEF Init, TypeOK, Roles, Events, Idle, NoInvite, Invitation, Request, Steps,
    Operations, Targeted

LEMMA StartTypeOK ==
  ASSUME TypeOK, NEW r \in Requests, Starts(r)
  PROVE  TypeOK'
<1>1. ASSUME NEW op \in Operations, NEW u \in Users,
             NEW target \in Users \cup {NoUser}, NEW newRole \in Roles \cup {"none"},
             NEW pc \in Steps, op \in Targeted => target \in Users,
             Start(r, op, u, target, newRole, pc)
      PROVE  TypeOK'
  <2>1. [pc |-> pc, op |-> op, by |-> u, target |-> target, role |-> newRole] \in Request
    BY <1>1 DEF Request
  <2>2. req' \in [Requests -> Request]
    BY <1>1, <2>1 DEF TypeOK, Start
  <2> QED
    BY <1>1, <2>2 DEF TypeOK, Start, dbVars
<1>2. PICK u \in Users :
        \/ \E target \in Users, newRole \in Roles : StartUpdateRole(r, u, target, newRole)
        \/ \E target \in Users : StartRemoveMember(r, u, target)
        \/ \E op \in {"update", "archive"} : StartWorkspaceEdit(r, u, op)
        \/ StartRestore(r, u)
        \/ \E target \in Users : StartTransfer(r, u, target)
        \/ \E newRole \in Roles : StartInvite(r, u, newRole)
  BY DEF Starts
<1>3. {"updateRole", "removeMember", "update", "archive", "restore",
       "transferOwnership", "invite"} \subseteq Operations
      /\ {"write", "readRole"} \subseteq Steps
      /\ \A op \in {"update", "archive", "restore", "invite"} : op \notin Targeted
  BY DEF Operations, Steps, Targeted
<1>4. CASE \E target \in Users, newRole \in Roles : StartUpdateRole(r, u, target, newRole)
  BY <1>1, <1>3, <1>4 DEF StartUpdateRole
<1>5. CASE \E target \in Users : StartRemoveMember(r, u, target)
  BY <1>1, <1>3, <1>5 DEF StartRemoveMember
<1>6. CASE \E op \in {"update", "archive"} : StartWorkspaceEdit(r, u, op)
  BY <1>1, <1>3, <1>6 DEF StartWorkspaceEdit
<1>7. CASE StartRestore(r, u)
  BY <1>1, <1>3, <1>7 DEF StartRestore
<1>8. CASE \E target \in Users : StartTransfer(r, u, target)
  BY <1>1, <1>3, <1>8 DEF StartTransfer
<1>9. CASE \E newRole \in Roles : StartInvite(r, u, newRole)
  BY <1>1, <1>3, <1>9 DEF StartInvite
<1> QED
  BY <1>2, <1>4, <1>5, <1>6, <1>7, <1>8, <1>9

(* What every statement of a request does to req.                          *)
LEMMA RequestStays ==
  ASSUME TypeOK, NEW r \in Requests, NEW pc \in Steps,
         GoTo(r, pc) \/ Finish(r)
  PROVE  req' \in [Requests -> Request]
<1>1. Idle \in Request
  BY DEF Idle, Request, Steps, Operations, Targeted
<1>2. [req[r] EXCEPT !.pc = pc] \in Request
  BY DEF TypeOK, Request
<1> QED
  BY <1>1, <1>2 DEF GoTo, Finish, TypeOK

LEMMA StatementTypeOK ==
  ASSUME TypeOK, NothingBeforeCreation, NEW r \in Requests, Statement(r) \/ Die(r)
  PROVE  TypeOK'
<1> USE DEF dbVars
<1>s. {"countOwners", "write", "audit", "idle"} \subseteq Steps
      /\ "created" \in Events /\ "updated" \in Events /\ "archived" \in Events
      /\ "restored" \in Events /\ "ownership_transferred" \in Events
  BY DEF Steps, Events
<1>r. req[r] \in Request
  BY DEF TypeOK
<1>1. CASE ReadRole(r)
  <2>1. req' \in [Requests -> Request]
    BY <1>s, <1>1, RequestStays DEF ReadRole
  <2> QED BY <1>1, <2>1 DEF ReadRole, TypeOK
<1>2. CASE CountOwners(r)
  <2>1. req' \in [Requests -> Request]
    BY <1>s, <1>2, RequestStays DEF CountOwners
  <2> QED BY <1>2, <2>1 DEF CountOwners, TypeOK
<1>3. CASE WriteRole(r)
  <2>1. req' \in [Requests -> Request]
    BY <1>s, <1>3, RequestStays DEF WriteRole
  <2>2. req[r].role \in Roles \cup {"none"}
    BY <1>r DEF Request
  <2>3. role' \in [Users -> Roles \cup {"none"}]
    BY <1>3, <2>2 DEF WriteRole, TypeOK
  <2> QED BY <1>3, <2>1, <2>3 DEF WriteRole, TypeOK
<1>4. CASE WriteRemoval(r)
  <2>1. req' \in [Requests -> Request]
    BY <1>s, <1>4, RequestStays DEF WriteRemoval
  <2>2. removed' \in [Users -> BOOLEAN]
    BY <1>4 DEF WriteRemoval, TypeOK, HasRow
  <2> QED BY <1>4, <2>1, <2>2 DEF WriteRemoval, TypeOK
<1>5. CASE WriteUpdate(r)
  <2>1. req' \in [Requests -> Request]
    BY <1>s, <1>5, RequestStays DEF WriteUpdate
  <2>2. changes' \in [Events -> Nat]
    BY <1>5, <1>s DEF WriteUpdate, TypeOK, Committed
  <2> QED BY <1>5, <2>1, <2>2 DEF WriteUpdate, TypeOK
<1>6. CASE WriteArchive(r)
  <2>1. req' \in [Requests -> Request]
    BY <1>s, <1>6, RequestStays DEF WriteArchive
  <2>2. changes' \in [Events -> Nat]
    BY <1>6, <1>s DEF WriteArchive, TypeOK, Committed
  <2> QED BY <1>6, <2>1, <2>2 DEF WriteArchive, TypeOK
<1>7. CASE WriteRestore(r)
  <2>1. req' \in [Requests -> Request]
    BY <1>s, <1>7, RequestStays DEF WriteRestore
  <2>2. changes' \in [Events -> Nat]
    BY <1>7, <1>s DEF WriteRestore, TypeOK, Committed
  <2>3. phase # "absent"
    BY <1>7 DEF WriteRestore, At, NothingBeforeCreation, Idle
  <2> QED BY <1>7, <2>1, <2>2, <2>3 DEF WriteRestore, TypeOK
<1>8. CASE WriteAudit(r)
  <2>1. req' \in [Requests -> Request]
    BY <1>s, <1>8, RequestStays DEF WriteAudit
  <2>2. PICK e : trail' = [trail EXCEPT ![e] = @ + 1]
    BY <1>8 DEF WriteAudit
  <2>3. trail' \in [Events -> Nat]
    <3>1. trail \in [Events -> Nat]
      BY DEF TypeOK
    <3>2. CASE e \in Events
      BY <2>2, <3>1, <3>2
    <3>3. CASE e \notin Events
      BY <2>2, <3>1, <3>3, Zenon
    <3> QED BY <3>2, <3>3
  <2> QED BY <1>8, <2>1, <2>3 DEF WriteAudit, TypeOK
<1>9. CASE Transfer(r)
  <2>1. req' \in [Requests -> Request]
    BY <1>s, <1>9, RequestStays DEF Transfer
  <2>2. phase # "absent"
    BY <1>9 DEF Transfer, At, NothingBeforeCreation, Idle
  <2>3. req[r].target \in Users
    BY <1>r, <1>9 DEF Request, Targeted, Transfer, At
  <2>4. ownerUser' \in Users /\ phase' # "absent"
    BY <1>9, <2>2, <2>3 DEF Transfer, TypeOK
  <2>5. role' \in [Users -> Roles \cup {"none"}] /\ removed' \in [Users -> BOOLEAN]
    BY <1>9, <2>3 DEF Transfer, TypeOK, Roles
  <2>6. trail' \in [Events -> Nat] /\ changes' \in [Events -> Nat]
    BY <1>9, <1>s DEF Transfer, TypeOK, Committed
  <2> QED
    BY <1>9, <2>1, <2>4, <2>5, <2>6, WorkspacesAssumption DEF Transfer, TypeOK
<1>10. CASE \E i \in Invites : WriteInvite(r, i)
  <2>1. req' \in [Requests -> Request]
    BY <1>s, <1>10, RequestStays DEF WriteInvite
  <2>2. invite' \in [Invites -> Invitation]
    BY <1>10 DEF WriteInvite, TypeOK, Invitation
  <2> QED BY <1>10, <2>1, <2>2 DEF WriteInvite, TypeOK
<1>11. CASE Die(r)
  <2>1. req' \in [Requests -> Request]
    BY <1>s, <1>11, RequestStays DEF Die
  <2> QED BY <1>11, <2>1 DEF Die, TypeOK
<1> QED
  BY <1>1, <1>2, <1>3, <1>4, <1>5, <1>6, <1>7, <1>8, <1>9, <1>10, <1>11 DEF Statement

LEMMA StepTypeOK == TypeOK /\ NothingBeforeCreation /\ [Next]_vars => TypeOK'
<1> SUFFICES ASSUME TypeOK, NothingBeforeCreation, [Next]_vars
             PROVE  TypeOK'
  OBVIOUS
<1>1. ASSUME NEW u \in Users, CreateWorkspace(u)
      PROVE  TypeOK'
  <2>1. {"created"} \subseteq Events /\ "owner" \in Roles
    BY DEF Events, Roles
  <2>2. trail' \in [Events -> Nat] /\ changes' \in [Events -> Nat]
    BY <1>1, <2>1 DEF CreateWorkspace, TypeOK
  <2> QED
    BY <1>1, <2>1, <2>2, WorkspacesAssumption DEF CreateWorkspace, TypeOK
<1>2. ASSUME NEW u \in Users, NEW i \in Invites, AcceptInvitation(u, i)
      PROVE  TypeOK'
  <2>1. /\ invite[i].role \in Roles \cup {"none"}
        /\ [invite[i] EXCEPT !.state = "accepted"] \in Invitation
    BY DEF TypeOK, Invitation, InviteRoles
  <2> QED
    BY <1>2, <2>1 DEF AcceptInvitation, TypeOK
<1>3. ASSUME NEW i \in Invites, DeclineInvitation(i)
      PROVE  TypeOK'
  <2>1. [invite[i] EXCEPT !.state = "declined"] \in Invitation
    BY DEF TypeOK, Invitation
  <2> QED
    BY <1>3, <2>1 DEF DeclineInvitation, TypeOK
<1>4. CASE UNCHANGED vars
  BY <1>4 DEF vars, TypeOK
<1> QED
  BY <1>1, <1>2, <1>3, <1>4, StartTypeOK, StatementTypeOK DEF Next

-----------------------------------------------------------------------------
(* Nothing before the workspace.                                           *)

(* The workspace is created by the first step that changes anything, and   *)
(* never disappears.                                                       *)
LEMMA NothingHappensBeforeCreation ==
  ASSUME TypeOK, NothingBeforeCreation, [Next]_vars, phase' = "absent"
  PROVE  UNCHANGED vars
<1> USE DEF NothingBeforeCreation
<1>2. ASSUME NEW u \in Users, CreateWorkspace(u)
      PROVE  FALSE
  BY <1>2 DEF CreateWorkspace
<1>3. ASSUME NEW u \in Users, NEW i \in Invites, AcceptInvitation(u, i)
      PROVE  FALSE
  BY <1>3 DEF AcceptInvitation
<1>4. ASSUME NEW i \in Invites, DeclineInvitation(i)
      PROVE  FALSE
  BY <1>4 DEF DeclineInvitation
<1>5. ASSUME NEW r \in Requests, Starts(r)
      PROVE  FALSE
  BY <1>5 DEF Starts, StartUpdateRole, StartRemoveMember, StartWorkspaceEdit, StartRestore,
              StartTransfer, StartInvite, MayStart, Start, dbVars
<1>6. ASSUME NEW r \in Requests, Statement(r) \/ Die(r)
      PROVE  FALSE
  <2>1. phase # "absent" \/ req[r] = Idle
    OBVIOUS
  <2>2. req[r].pc # "idle"
    BY <1>6 DEF Statement, Die, ReadRole, CountOwners, WriteRole, WriteRemoval, WriteUpdate,
                WriteArchive, WriteRestore, WriteAudit, Transfer, WriteInvite, At
  <2>3. phase' = phase \/ phase' \in {"active", "archived"}
    BY <1>6 DEF Statement, Die, ReadRole, CountOwners, WriteRole, WriteRemoval, WriteUpdate,
                WriteArchive, WriteRestore, WriteAudit, Transfer, WriteInvite, dbVars
  <2> QED BY <2>1, <2>2, <2>3 DEF Idle
<1> QED
  BY <1>2, <1>3, <1>4, <1>5, <1>6 DEF Next

LEMMA StepNothingBeforeCreation ==
  TypeOK /\ NothingBeforeCreation /\ [Next]_vars => NothingBeforeCreation'
<1> SUFFICES ASSUME TypeOK, NothingBeforeCreation, [Next]_vars, phase' = "absent"
             PROVE  NothingBeforeCreation'
  BY DEF NothingBeforeCreation
<1>1. UNCHANGED vars
  BY NothingHappensBeforeCreation
<1> QED BY <1>1 DEF vars, NothingBeforeCreation

(* Every variable of Workspaces keeps its type: in particular a workspace  *)
(* that exists always names an owner.                                      *)
THEOREM TypeCorrect == Spec => []TypeOK
<1>1. Init => TypeOK /\ NothingBeforeCreation
  BY InitTypeOK DEF Init, NothingBeforeCreation, NoInvite
<1>2. TypeOK /\ NothingBeforeCreation /\ [Next]_vars => (TypeOK /\ NothingBeforeCreation)'
  BY StepTypeOK, StepNothingBeforeCreation
<1> QED
  BY <1>1, <1>2, PTL DEF Spec

-----------------------------------------------------------------------------
(* The owner.                                                              *)

(* What the statements of a request do to the owner, and to the edits      *)
(* under way, when transfers wait for membership edits.                    *)
LEMMA StatementKeepsOwner ==
  ASSUME ~TransferRaces, OwnerInvariant, NEW r \in Requests, Statement(r) \/ Die(r)
  PROVE  /\ ExactlyOneOwner'
         /\ InFlightEditsSpareTheOwner'
         /\ ownerUser # NoUser
<1> USE DEF OwnerInvariant
<1>r. req[r] \in Request /\ req \in [Requests -> Request]
  BY DEF TypeOK
<1>p. phase # "absent"
  <2>1. req[r].pc # "idle"
    BY DEF Statement, Die, ReadRole, CountOwners, WriteRole, WriteRemoval, WriteUpdate,
           WriteArchive, WriteRestore, WriteAudit, Transfer, WriteInvite, At
  <2> QED BY <2>1 DEF NothingBeforeCreation, Idle
<1>o. ActiveOwners = {ownerUser} /\ ownerUser \in Users /\ ownerUser # NoUser
  BY <1>p, WorkspacesAssumption DEF ExactlyOneOwner, TypeOK
<1>i. ASSUME NEW q \in Requests, req' = [req EXCEPT ![q] = Idle], ownerUser' = ownerUser
      PROVE  InFlightEditsSpareTheOwner'
  BY <1>r, <1>i DEF InFlightEditsSpareTheOwner, Idle
<1>u. ASSUME UNCHANGED <<ownerUser, role, removed>>
      PROVE  ExactlyOneOwner'
  BY <1>o, <1>u DEF ExactlyOneOwner, ActiveOwners
<1>1. CASE ReadRole(r)
  <2>1. req[r].target \notin ActiveOwners \/ req'[r].pc = "countOwners"
    BY <1>1, <1>r DEF ReadRole, GoTo
  <2>2. InFlightEditsSpareTheOwner'
    BY <1>1, <1>r, <1>o, <2>1 DEF ReadRole, GoTo, InFlightEditsSpareTheOwner, dbVars
  <2> QED BY <1>1, <1>o, <1>u, <2>2 DEF ReadRole, dbVars
<1>2. CASE CountOwners(r)
  <2>1. ~ \E u, v \in ActiveOwners : u # v
    BY <1>o
  <2> QED BY <1>2, <1>i, <1>u, <1>o, <2>1 DEF CountOwners, Finish, dbVars
<1>3. CASE WriteRole(r)
  <2> DEFINE t == req[r].target
             new == req[r].role
  <2>1. t \in Users /\ (new # "owner" => t # ownerUser)
    BY <1>3, <1>r DEF WriteRole, At, InFlightEditsSpareTheOwner, Request, Targeted
  <2>2. CASE UNCHANGED role
    BY <1>3, <2>2, <1>i, <1>u, <1>o DEF WriteRole, Finish
  <2>3. CASE role' = [role EXCEPT ![t] = new] /\ (new = "owner" => OwnerIndexAllows(t))
    <3>1. new = "owner" => t = ownerUser
      BY <2>3, <1>o DEF OwnerIndexAllows
    <3>2. role \in [Users -> Roles \cup {"none"}] /\ UNCHANGED <<removed, ownerUser>>
      BY <1>3 DEF TypeOK, WriteRole
    <3>3. ActiveOwners' = ActiveOwners
      BY <1>o, <2>1, <2>3, <3>1, <3>2 DEF ActiveOwners
    <3> QED BY <1>3, <1>i, <1>o, <3>2, <3>3 DEF ExactlyOneOwner, WriteRole, Finish
  <2> QED BY <1>3, <2>2, <2>3 DEF WriteRole
<1>4. CASE WriteRemoval(r)
  <2>1. req[r].target \in Users /\ req[r].target # ownerUser
    BY <1>4, <1>r DEF WriteRemoval, At, InFlightEditsSpareTheOwner, Request, Targeted
  <2>2. removed \in [Users -> BOOLEAN] /\ UNCHANGED <<role, ownerUser>>
    BY <1>4 DEF TypeOK, WriteRemoval
  <2>3. \A u \in Users : u # req[r].target => removed'[u] = removed[u]
    BY <1>4, <2>2 DEF WriteRemoval
  <2>4. removed[req[r].target] => removed'[req[r].target]
    BY <1>4, <2>1, <2>2 DEF WriteRemoval
  <2>5. ActiveOwners' = ActiveOwners
    BY <1>o, <2>1, <2>2, <2>3, <2>4 DEF ActiveOwners
  <2> QED BY <1>4, <1>i, <1>o, <2>2, <2>5 DEF ExactlyOneOwner, WriteRemoval, Finish
<1>5. CASE WriteUpdate(r) \/ WriteArchive(r) \/ WriteRestore(r) \/ WriteAudit(r)
            \/ (\E i \in Invites : WriteInvite(r, i)) \/ Die(r)
  <2>1. UNCHANGED <<ownerUser, role, removed>>
    BY <1>5 DEF WriteUpdate, WriteArchive, WriteRestore, WriteAudit, WriteInvite, Die, dbVars
  <2>2. GoTo(r, "audit") \/ Finish(r)
    BY <1>5 DEF WriteUpdate, WriteArchive, WriteRestore, WriteAudit, WriteInvite, Die
  <2>3. ASSUME GoTo(r, "audit") PROVE InFlightEditsSpareTheOwner'
    <3>1. \A q \in Requests : req'[q].pc = "audit" \/ req'[q] = req[q]
      BY <1>r, <2>3 DEF GoTo
    <3> QED BY <2>1, <3>1 DEF InFlightEditsSpareTheOwner
  <2>4. InFlightEditsSpareTheOwner'
    BY <1>i, <2>1, <2>2, <2>3 DEF Finish
  <2> QED BY <1>o, <1>u, <2>1, <2>4
<1>6. CASE Transfer(r)
  <2>1. \A q \in Requests : req[q].op \notin MembershipEdits
    BY <1>6 DEF Transfer
  <2>2. InFlightEditsSpareTheOwner'
    BY <1>6, <1>r, <2>1 DEF Transfer, Finish, Idle, InFlightEditsSpareTheOwner, MembershipEdits
  <2>3. CASE req[r].by \in ActiveOwners
    <3> DEFINE old == req[r].by
               new == req[r].target
    <3>1. old = ownerUser /\ new \in Users
      BY <1>6, <1>r, <1>o, <2>3 DEF Transfer, At, Request, Targeted
    <3>2. /\ role' = [role EXCEPT ![old] = "admin", ![new] = "owner"]
          /\ removed' = [removed EXCEPT ![new] = FALSE]
          /\ ownerUser' = new
      BY <1>6, <2>3 DEF Transfer
    <3>3. role \in [Users -> Roles \cup {"none"}] /\ removed \in [Users -> BOOLEAN]
      BY DEF TypeOK
    <3>4. ActiveOwners' = {new}
      BY <1>o, <3>1, <3>2, <3>3 DEF ActiveOwners
    <3> QED BY <1>o, <2>2, <3>2, <3>4 DEF ExactlyOneOwner
  <2>4. CASE req[r].by \notin ActiveOwners
    BY <1>6, <1>o, <1>u, <2>2, <2>4 DEF Transfer
  <2> QED BY <2>3, <2>4
<1> QED
  BY <1>1, <1>2, <1>3, <1>4, <1>5, <1>6, <1>o DEF Statement

LEMMA StepOwnerInvariant ==
  ASSUME ~TransferRaces, OwnerInvariant, [Next]_vars
  PROVE  OwnerInvariant'
<1> USE DEF OwnerInvariant
<1>t. TypeOK' /\ NothingBeforeCreation'
  BY StepTypeOK, StepNothingBeforeCreation
<1>r. req \in [Requests -> Request] /\ role \in [Users -> Roles \cup {"none"}]
  BY DEF TypeOK
<1>1. CASE UNCHANGED vars
  BY <1>1, <1>t DEF vars, ExactlyOneOwner, ActiveOwners, InFlightEditsSpareTheOwner
<1>2. ASSUME NEW u \in Users, CreateWorkspace(u)
      PROVE  ExactlyOneOwner' /\ InFlightEditsSpareTheOwner'
  <2>1. ActiveOwners' = {u} /\ ownerUser' = u
    BY <1>2, <1>r DEF CreateWorkspace, NothingBeforeCreation, ActiveOwners
  <2>2. \A r \in Requests : req'[r] = Idle
    BY <1>2 DEF CreateWorkspace, NothingBeforeCreation
  <2> QED BY <2>1, <2>2 DEF ExactlyOneOwner, InFlightEditsSpareTheOwner, Idle
<1>3. ASSUME NEW u \in Users, NEW i \in Invites, AcceptInvitation(u, i)
      PROVE  ExactlyOneOwner' /\ InFlightEditsSpareTheOwner'
  <2>1. phase # "absent"
    BY <1>3 DEF AcceptInvitation, NothingBeforeCreation
  <2>2. role' = [role EXCEPT ![u] = invite[i].role] /\ role[u] = "none"
    BY <1>3 DEF AcceptInvitation, HasRow
  <2>3. invite[i].role # "owner"
    BY DEF TypeOK, Invitation, InviteRoles
  <2>4. ActiveOwners' = ActiveOwners /\ UNCHANGED <<ownerUser, phase, req>>
    BY <1>3, <1>r, <2>2, <2>3 DEF AcceptInvitation, ActiveOwners
  <2> QED BY <2>1, <2>4 DEF ExactlyOneOwner, InFlightEditsSpareTheOwner
<1>4. ASSUME NEW i \in Invites, DeclineInvitation(i)
      PROVE  ExactlyOneOwner' /\ InFlightEditsSpareTheOwner'
  BY <1>4 DEF DeclineInvitation, ExactlyOneOwner, ActiveOwners, InFlightEditsSpareTheOwner
<1>5. ASSUME NEW r \in Requests, Starts(r)
      PROVE  ExactlyOneOwner' /\ InFlightEditsSpareTheOwner'
  <2>1. UNCHANGED dbVars
    BY <1>5 DEF Starts, StartUpdateRole, StartRemoveMember, StartWorkspaceEdit, StartRestore,
                StartTransfer, StartInvite, Start
  <2>2. ASSUME NEW op, NEW u, NEW target, NEW newRole, NEW pc,
               Start(r, op, u, target, newRole, pc),
               op = "removeMember" => pc = "readRole",
               op = "updateRole" /\ newRole # "owner" => pc = "readRole"
        PROVE  InFlightEditsSpareTheOwner'
    BY <1>r, <2>2 DEF InFlightEditsSpareTheOwner, Start, dbVars
  <2>3. InFlightEditsSpareTheOwner'
    <3>1. CASE \E u \in Users, target \in Users, newRole \in Roles :
                 StartUpdateRole(r, u, target, newRole)
      BY <2>2, <3>1 DEF StartUpdateRole
    <3>2. CASE \E u \in Users, target \in Users : StartRemoveMember(r, u, target)
      BY <2>2, <3>2 DEF StartRemoveMember
    <3>3. CASE \E u \in Users, op \in {"update", "archive"} : StartWorkspaceEdit(r, u, op)
      BY <2>2, <3>3 DEF StartWorkspaceEdit
    <3>4. CASE \E u \in Users : StartRestore(r, u)
      BY <2>2, <3>4 DEF StartRestore
    <3>5. CASE \E u \in Users, target \in Users : StartTransfer(r, u, target)
      BY <2>2, <3>5 DEF StartTransfer
    <3>6. CASE \E u \in Users, newRole \in Roles : StartInvite(r, u, newRole)
      BY <2>2, <3>6 DEF StartInvite
    <3> QED BY <1>5, <3>1, <3>2, <3>3, <3>4, <3>5, <3>6 DEF Starts
  <2> QED BY <2>1, <2>3 DEF dbVars, ExactlyOneOwner, ActiveOwners
<1>6. ASSUME NEW r \in Requests, Statement(r) \/ Die(r)
      PROVE  ExactlyOneOwner' /\ InFlightEditsSpareTheOwner'
  BY <1>6, StatementKeepsOwner
<1> QED
  BY <1>1, <1>2, <1>3, <1>4, <1>5, <1>6, <1>t DEF Next

LEMMA InitOwnerInvariant == Init => OwnerInvariant
<1> SUFFICES ASSUME Init PROVE OwnerInvariant
  OBVIOUS
<1>1. TypeOK
  BY InitTypeOK
<1>2. NothingBeforeCreation /\ ExactlyOneOwner /\ InFlightEditsSpareTheOwner
  BY DEF Init, NothingBeforeCreation, NoInvite, ExactlyOneOwner,
         InFlightEditsSpareTheOwner, Idle
<1> QED BY <1>1, <1>2 DEF OwnerInvariant

LEMMA OwnerInvariantHolds == ~TransferRaces => (Spec => []OwnerInvariant)
<1> SUFFICES ASSUME ~TransferRaces PROVE Spec => []OwnerInvariant
  OBVIOUS
<1>1. OwnerInvariant /\ [Next]_vars => OwnerInvariant'
  BY StepOwnerInvariant
<1> QED
  BY <1>1, InitOwnerInvariant, PTL DEF Spec

(* A workspace has exactly one active owner, the one its row names, as     *)
(* long as no ownership transfer overlaps a change of its members.         *)
THEOREM OneOwner == ~TransferRaces => (Spec => []ExactlyOneOwner)
<1>1. OwnerInvariant => ExactlyOneOwner
  BY DEF OwnerInvariant
<1> QED
  BY <1>1, OwnerInvariantHolds, PTL

(* Under the same condition no removal or demotion that has passed         *)
(* assertNotLastOwner is aimed at the owner.                               *)
THEOREM EditsSpareTheOwner == ~TransferRaces => (Spec => []InFlightEditsSpareTheOwner)
<1>1. OwnerInvariant => InFlightEditsSpareTheOwner
  BY DEF OwnerInvariant
<1> QED
  BY <1>1, OwnerInvariantHolds, PTL

-----------------------------------------------------------------------------
(* The specification implements Ownership.                                 *)

LEMMA OwnerIsNamed == OwnerInvariant => CurrentOwner = ownerUser
<1> SUFFICES ASSUME OwnerInvariant PROVE CurrentOwner = ownerUser
  OBVIOUS
<1>1. CASE phase = "absent"
  <2>1. ActiveOwners = {} /\ ownerUser = NoUser
    BY <1>1 DEF OwnerInvariant, NothingBeforeCreation, ActiveOwners, TypeOK
  <2> QED BY <2>1 DEF CurrentOwner
<1>2. CASE phase # "absent"
  <2>1. ActiveOwners = {ownerUser} /\ ownerUser \in Users
    BY <1>2 DEF OwnerInvariant, ExactlyOneOwner, TypeOK
  <2> QED BY <2>1 DEF CurrentOwner
<1> QED BY <1>1, <1>2

(* A role change names a role and a transfer is a single statement; an     *)
(* open invitation names a role; who was removed has a row.                *)
RequestsWellFormed ==
  \A r \in Requests :
    /\ req[r].op = "updateRole" => req[r].role # "none"
    /\ req[r].op = "transferOwnership" => req[r].pc = "write"

RowsWellFormed ==
  /\ \A i \in Invites : invite[i].state = "open" => invite[i].role # "none"
  /\ \A u \in Users : removed[u] => HasRow(u)

WellFormed == RequestsWellFormed /\ RowsWellFormed

LEMMA StepRequestsWellFormed ==
  ASSUME TypeOK, RequestsWellFormed, [Next]_vars
  PROVE  RequestsWellFormed'
<1>r. req \in [Requests -> Request]
  BY DEF TypeOK
<1>1. ASSUME UNCHANGED req
      PROVE  RequestsWellFormed'
  BY <1>1 DEF RequestsWellFormed
<1>2. ASSUME NEW r \in Requests, Finish(r)
      PROVE  RequestsWellFormed'
  BY <1>2, <1>r DEF RequestsWellFormed, Finish, Idle
<1>3. ASSUME NEW r \in Requests, NEW pc, GoTo(r, pc), req[r].op # "transferOwnership"
      PROVE  RequestsWellFormed'
  <2>1. req'[r].op = req[r].op /\ req'[r].role = req[r].role
    BY <1>3, <1>r DEF GoTo, Request
  <2>2. \A q \in Requests : q # r => req'[q] = req[q]
    BY <1>3, <1>r DEF GoTo
  <2> QED BY <1>3, <2>1, <2>2 DEF RequestsWellFormed
<1>4. ASSUME NEW r \in Requests, Starts(r)
      PROVE  RequestsWellFormed'
  <2>1. ASSUME NEW op, NEW u, NEW target, NEW newRole, NEW pc,
               Start(r, op, u, target, newRole, pc),
               op = "updateRole" => newRole # "none",
               op = "transferOwnership" => pc = "write"
        PROVE  RequestsWellFormed'
    BY <1>r, <2>1 DEF RequestsWellFormed, Start
  <2>2. CASE \E u \in Users, target \in Users, newRole \in Roles :
               StartUpdateRole(r, u, target, newRole)
    <3>1. "none" \notin Roles
      BY DEF Roles
    <3> QED BY <2>1, <2>2, <3>1 DEF StartUpdateRole
  <2>3. CASE \E u \in Users, target \in Users : StartRemoveMember(r, u, target)
    BY <2>1, <2>3 DEF StartRemoveMember
  <2>4. CASE \E u \in Users, op \in {"update", "archive"} : StartWorkspaceEdit(r, u, op)
    BY <2>1, <2>4 DEF StartWorkspaceEdit
  <2>5. CASE \E u \in Users : StartRestore(r, u)
    BY <2>1, <2>5 DEF StartRestore
  <2>6. CASE \E u \in Users, target \in Users : StartTransfer(r, u, target)
    BY <2>1, <2>6 DEF StartTransfer
  <2>7. CASE \E u \in Users, newRole \in Roles : StartInvite(r, u, newRole)
    BY <2>1, <2>7 DEF StartInvite
  <2> QED BY <1>4, <2>2, <2>3, <2>4, <2>5, <2>6, <2>7 DEF Starts
<1>5. ASSUME NEW r \in Requests, Statement(r) \/ Die(r)
      PROVE  RequestsWellFormed'
  <2>1. CASE ReadRole(r) \/ CountOwners(r)
    <3>1. req[r].op # "transferOwnership"
      BY <2>1 DEF ReadRole, CountOwners, RequestsWellFormed
    <3> QED BY <1>2, <1>3, <2>1, <3>1 DEF ReadRole, CountOwners
  <2>2. CASE WriteUpdate(r) \/ WriteArchive(r) \/ WriteRestore(r)
    BY <1>2, <1>3, <2>2 DEF WriteUpdate, WriteArchive, WriteRestore, At
  <2>3. CASE \/ WriteRole(r) \/ WriteRemoval(r) \/ WriteAudit(r) \/ Transfer(r) \/ Die(r)
            \/ \E i \in Invites : WriteInvite(r, i)
    BY <1>2, <2>3 DEF WriteRole, WriteRemoval, WriteAudit, Transfer, Die, WriteInvite
  <2> QED BY <1>5, <2>1, <2>2, <2>3 DEF Statement
<1> QED
  BY <1>1, <1>4, <1>5 DEF Next, vars, CreateWorkspace, AcceptInvitation, DeclineInvitation

LEMMA StepRowsWellFormed ==
  ASSUME TypeOK, RequestsWellFormed, RowsWellFormed, [Next]_vars
  PROVE  RowsWellFormed'
<1> USE DEF HasRow
<1>r. /\ role \in [Users -> Roles \cup {"none"}] /\ removed \in [Users -> BOOLEAN]
      /\ req \in [Requests -> Request] /\ invite \in [Invites -> Invitation]
  BY DEF TypeOK
<1>n. "none" \notin Roles /\ {"admin", "owner"} \subseteq Roles
  BY DEF Roles
<1>1. ASSUME UNCHANGED <<invite, role, removed>>
      PROVE  RowsWellFormed'
  BY <1>1 DEF RowsWellFormed
<1>2. ASSUME NEW u \in Users, CreateWorkspace(u)
      PROVE  RowsWellFormed'
  BY <1>r, <1>2 DEF CreateWorkspace, RowsWellFormed
<1>3. ASSUME NEW u \in Users, NEW i \in Invites, AcceptInvitation(u, i)
      PROVE  RowsWellFormed'
  <2>1. \A j \in Invites : invite'[j].state = "open" => invite'[j].role = invite[j].role
                                                      /\ invite[j].state = "open"
    BY <1>r, <1>3 DEF AcceptInvitation, Invitation
  <2>2. role' = [role EXCEPT ![u] = invite[i].role] /\ invite[i].role # "none"
        /\ removed' = removed
    BY <1>3 DEF AcceptInvitation, RowsWellFormed
  <2> QED BY <1>r, <2>1, <2>2 DEF RowsWellFormed
<1>4. ASSUME NEW i \in Invites, DeclineInvitation(i)
      PROVE  RowsWellFormed'
  <2>1. \A j \in Invites : invite'[j].state = "open" => invite'[j].role = invite[j].role
                                                      /\ invite[j].state = "open"
    BY <1>r, <1>4 DEF DeclineInvitation, Invitation
  <2> QED BY <1>4, <2>1 DEF DeclineInvitation, RowsWellFormed
<1>5. ASSUME NEW r \in Requests, Starts(r)
      PROVE  RowsWellFormed'
  <2>1. UNCHANGED dbVars
    BY <1>5 DEF Starts, StartUpdateRole, StartRemoveMember, StartWorkspaceEdit, StartRestore,
                StartTransfer, StartInvite, Start
  <2> QED BY <1>1, <2>1 DEF dbVars
<1>6. ASSUME NEW r \in Requests, WriteRole(r)
      PROVE  RowsWellFormed'
  <2>1. req[r].role # "none" /\ UNCHANGED <<invite, removed>>
    BY <1>6 DEF WriteRole, At, RequestsWellFormed
  <2> QED BY <1>r, <1>6, <2>1 DEF WriteRole, RowsWellFormed
<1>7. ASSUME NEW r \in Requests, WriteRemoval(r)
      PROVE  RowsWellFormed'
  BY <1>r, <1>7 DEF WriteRemoval, RowsWellFormed
<1>8. ASSUME NEW r \in Requests, Transfer(r)
      PROVE  RowsWellFormed'
  BY <1>r, <1>8 DEF Transfer, RowsWellFormed
<1>9. ASSUME NEW r \in Requests, NEW i \in Invites, WriteInvite(r, i)
      PROVE  RowsWellFormed'
  BY <1>r, <1>n, <1>9 DEF WriteInvite, RowsWellFormed, InviteRoles
<1>10. ASSUME NEW r \in Requests, \/ ReadRole(r) \/ CountOwners(r) \/ WriteUpdate(r)
                                  \/ WriteArchive(r) \/ WriteRestore(r) \/ WriteAudit(r)
                                  \/ Die(r)
       PROVE  RowsWellFormed'
  BY <1>1, <1>10 DEF ReadRole, CountOwners, WriteUpdate, WriteArchive, WriteRestore, WriteAudit,
                     Die, dbVars
<1> QED
  BY <1>1, <1>2, <1>3, <1>4, <1>5, <1>6, <1>7, <1>8, <1>9, <1>10 DEF Next, Statement, vars

LEMMA WellFormedHolds == Spec => []WellFormed
<1>1. Init => WellFormed
  BY DEF Init, WellFormed, RequestsWellFormed, RowsWellFormed, Idle, NoInvite
<1>2. TypeOK /\ WellFormed /\ [Next]_vars => WellFormed'
  BY StepRequestsWellFormed, StepRowsWellFormed DEF WellFormed
<1> QED
  BY <1>1, <1>2, TypeCorrect, PTL DEF Spec

(* A step that touches neither the memberships nor the owner only adds or  *)
(* takes away offers.                                                      *)
LEMMA FinishedRequest ==
  ASSUME TypeOK, NEW r \in Requests, NEW pc \in Steps, GoTo(r, pc) \/ Finish(r)
  PROVE  /\ \A q \in Requests : q # r => req'[q] = req[q]
         /\ req[r].op # "transferOwnership" => Offers' = Offers
         /\ Finish(r) /\ req[r].op = "transferOwnership" =>
              Offers' \in {Offers, Offers \ {<<req[r].by, req[r].target>>}}
<1>1. \A q \in Requests : q # r => req'[q] = req[q]
  BY DEF GoTo, Finish, TypeOK
<1>2. ASSUME req[r].op # "transferOwnership"
      PROVE  Offers' = Offers
  <2>1. req'[r].op # "transferOwnership"
    BY <1>2 DEF GoTo, Finish, TypeOK, Idle, Request
  <2>2. Transfers' = Transfers
    BY <1>1, <1>2, <2>1 DEF Transfers
  <2>3. \A q \in Transfers : req'[q] = req[q]
    BY <1>1, <1>2 DEF Transfers
  <2> QED BY <2>2, <2>3 DEF Offers
<1>3. ASSUME Finish(r), req[r].op = "transferOwnership"
      PROVE  Offers' \in {Offers, Offers \ {<<req[r].by, req[r].target>>}}
  <2>1. req'[r].op # "transferOwnership"
    BY <1>3 DEF Finish, TypeOK, Idle
  <2>2. Transfers' = Transfers \ {r}
    BY <1>1, <2>1 DEF Transfers
  <2>3. Offers' = {<<req[q].by, req[q].target>> : q \in Transfers \ {r}}
    <3>1. \A q \in Transfers \ {r} : req'[q] = req[q]
      BY <1>1 DEF Transfers
    <3> QED BY <2>2, <3>1 DEF Offers
  <2>4. Offers = Offers' \cup {<<req[r].by, req[r].target>>}
    BY <1>3, <2>3 DEF Offers, Transfers
  <2> QED BY <2>4
<1> QED BY <1>1, <1>2, <1>3

(* A request that starts is an offer of the owner or none at all.          *)
LEMMA StartedRequest ==
  ASSUME OwnerInvariant, NEW r \in Requests, Starts(r)
  PROVE  \/ Offers' = Offers
         \/ \E v \in Users : v # ownerUser /\ Offers' = Offers \cup {<<ownerUser, v>>}
<1> USE DEF OwnerInvariant
<1>1. ASSUME NEW op \in Operations, NEW u \in Users, NEW target, NEW newRole, NEW pc,
             Start(r, op, u, target, newRole, pc)
      PROVE  /\ op # "transferOwnership" => Offers' = Offers
             /\ op = "transferOwnership" => Offers' = Offers \cup {<<u, target>>}
  <2>1. req[r].op # "transferOwnership"
    BY <1>1 DEF Start, Idle
  <2>2. /\ \A q \in Requests : q # r => req'[q] = req[q]
        /\ req'[r].op = op /\ req'[r].by = u /\ req'[r].target = target
    BY <1>1 DEF Start, TypeOK
  <2>3. CASE op # "transferOwnership"
    <3>1. Transfers' = Transfers
      BY <2>1, <2>2, <2>3 DEF Transfers
    <3>2. \A q \in Transfers : req'[q] = req[q]
      BY <2>1, <2>2 DEF Transfers
    <3> QED BY <2>3, <3>1, <3>2 DEF Offers
  <2>4. CASE op = "transferOwnership"
    <3>1. Transfers' = Transfers \cup {r} /\ r \notin Transfers
      BY <2>1, <2>2, <2>4 DEF Transfers
    <3>2. \A q \in Transfers : req'[q] = req[q]
      BY <2>2, <3>1 DEF Transfers
    <3> QED BY <2>2, <2>4, <3>1, <3>2 DEF Offers
  <2> QED BY <2>3, <2>4
<1>o. {"updateRole", "removeMember", "update", "archive", "restore",
       "transferOwnership", "invite"} \subseteq Operations
  BY DEF Operations
<1>2. PICK u \in Users :
        \/ \E target \in Users, newRole \in Roles : StartUpdateRole(r, u, target, newRole)
        \/ \E target \in Users : StartRemoveMember(r, u, target)
        \/ \E op \in {"update", "archive"} : StartWorkspaceEdit(r, u, op)
        \/ StartRestore(r, u)
        \/ \E target \in Users : StartTransfer(r, u, target)
        \/ \E newRole \in Roles : StartInvite(r, u, newRole)
  BY DEF Starts
<1>3. CASE \E target \in Users, newRole \in Roles : StartUpdateRole(r, u, target, newRole)
  BY <1>1, <1>o, <1>3 DEF StartUpdateRole
<1>4. CASE \E target \in Users : StartRemoveMember(r, u, target)
  BY <1>1, <1>o, <1>4 DEF StartRemoveMember
<1>5. CASE \E op \in {"update", "archive"} : StartWorkspaceEdit(r, u, op)
  BY <1>1, <1>o, <1>5 DEF StartWorkspaceEdit
<1>6. CASE StartRestore(r, u)
  BY <1>1, <1>o, <1>6 DEF StartRestore
<1>7. CASE \E newRole \in Roles : StartInvite(r, u, newRole)
  BY <1>1, <1>o, <1>7 DEF StartInvite
<1>8. CASE \E target \in Users : StartTransfer(r, u, target)
  <2>1. PICK target \in Users : StartTransfer(r, u, target)
    BY <1>8
  <2>2. u \in ActiveOwners /\ phase = "active"
    BY <2>1 DEF StartTransfer, MayStart, RoleCan, Active, ActiveOwners
  <2>3. u = ownerUser
    BY <2>2 DEF ExactlyOneOwner
  <2> QED BY <1>1, <1>o, <2>1, <2>3 DEF StartTransfer
<1> QED BY <1>2, <1>3, <1>4, <1>5, <1>6, <1>7, <1>8

(* Nothing starts before the workspace exists.                             *)
LEMMA StartsNeedAWorkspace ==
  ASSUME NEW r \in Requests, Starts(r)
  PROVE  phase # "absent"
BY DEF Starts, StartUpdateRole, StartRemoveMember, StartWorkspaceEdit, StartRestore,
       StartTransfer, StartInvite, MayStart

(* What a statement does to the people: nothing, a removal, or a transfer  *)
(* that the owner asked for.                                               *)
LEMMA StatementMoves ==
  ASSUME OwnerInvariant, WellFormed, NEW r \in Requests, Statement(r) \/ Die(r)
  PROVE  \/ /\ ownerUser' = ownerUser /\ Standing' = Standing
            /\ Offers' = Offers \/ \E o \in Offers : Offers' = Offers \ {o}
         \/ \E u \in Users :
              /\ Standing[u] = "member" /\ u # ownerUser
              /\ Standing' = [Standing EXCEPT ![u] = "removed"]
              /\ ownerUser' = ownerUser /\ Offers' = Offers
         \/ \E u \in Users :
              /\ <<ownerUser, u>> \in Offers
              /\ ownerUser' = u
              /\ Standing' = [Standing EXCEPT ![u] = "member"]
              /\ Offers' \in {Offers, Offers \ {<<ownerUser, u>>}}
<1> USE DEF OwnerInvariant
<1>s. {"countOwners", "write", "audit"} \subseteq Steps
  BY DEF Steps
<1>r. role \in [Users -> Roles \cup {"none"}] /\ removed \in [Users -> BOOLEAN]
      /\ req[r] \in Request /\ req \in [Requests -> Request]
  BY DEF TypeOK
<1>q. ASSUME UNCHANGED <<role, removed, ownerUser>>,
             \/ UNCHANGED req
             \/ \E pc \in Steps : GoTo(r, pc) /\ req[r].op # "transferOwnership"
             \/ Finish(r)
      PROVE  /\ ownerUser' = ownerUser /\ Standing' = Standing
             /\ Offers' = Offers \/ \E o \in Offers : Offers' = Offers \ {o}
  <2>1. Standing' = Standing
    BY <1>q DEF Standing, HasRow
  <2>2. CASE UNCHANGED req
    BY <1>q, <2>1, <2>2 DEF Offers, Transfers
  <2>3. CASE \E pc \in Steps : GoTo(r, pc) /\ req[r].op # "transferOwnership"
    BY <1>q, <2>1, <2>3, FinishedRequest
  <2>4. CASE Finish(r)
    <3>1. CASE req[r].op # "transferOwnership"
      BY <1>q, <1>s, <2>1, <2>4, <3>1, FinishedRequest
    <3>2. CASE req[r].op = "transferOwnership"
      <4>1. <<req[r].by, req[r].target>> \in Offers
        BY <3>2 DEF Offers, Transfers
      <4> QED BY <1>q, <1>s, <2>1, <2>4, <3>2, <4>1, FinishedRequest
    <3> QED BY <3>1, <3>2
  <2> QED BY <1>q, <2>2, <2>3, <2>4
<1>1. CASE ReadRole(r) \/ CountOwners(r)
  <2>1. UNCHANGED <<role, removed, ownerUser>>
    BY <1>1 DEF ReadRole, CountOwners, dbVars
  <2>2. \/ \E pc \in Steps : GoTo(r, pc)
        \/ Finish(r)
    BY <1>1, <1>s DEF ReadRole, CountOwners
  <2>3. req[r].op # "transferOwnership"
    BY <1>1 DEF ReadRole, CountOwners, WellFormed, RequestsWellFormed
  <2> QED BY <1>q, <2>1, <2>2, <2>3
<1>2. CASE WriteRole(r)
  <2>1. Finish(r) /\ UNCHANGED <<removed, ownerUser>> /\ req[r].op = "updateRole"
    BY <1>2 DEF WriteRole, At
  <2>2. Standing' = Standing
    <3>1. CASE UNCHANGED role
      BY <2>1, <3>1 DEF Standing, HasRow
    <3>2. CASE Active(req[r].target) /\ role' = [role EXCEPT ![req[r].target] = req[r].role]
      <4>1. req[r].role # "none"
        BY <2>1 DEF WellFormed, RequestsWellFormed
      <4> QED BY <1>r, <2>1, <3>2, <4>1 DEF Standing, HasRow, Active
    <3> QED BY <1>2, <3>1, <3>2 DEF WriteRole
  <2> QED BY <1>s, <2>1, <2>2, FinishedRequest
<1>3. CASE WriteRemoval(r)
  <2> DEFINE t == req[r].target
  <2>1. /\ req[r].op = "removeMember" /\ req[r].pc = "write"
        /\ removed' = [removed EXCEPT ![t] = @ \/ HasRow(t)]
        /\ Finish(r) /\ UNCHANGED <<ownerUser, role>>
    BY <1>3 DEF WriteRemoval, At
  <2>2. t \in Users /\ t # ownerUser
    BY <1>r, <2>1 DEF Request, Targeted, InFlightEditsSpareTheOwner
  <2>3. CASE removed[t] \/ ~HasRow(t)
    <3>1. removed' = removed
      BY <1>r, <2>1, <2>3
    <3> QED BY <1>q, <2>1, <3>1
  <2>4. CASE ~removed[t] /\ HasRow(t)
    <3>1. removed' = [removed EXCEPT ![t] = TRUE]
      BY <1>r, <2>1, <2>4
    <3>2. Standing[t] = "member"
      BY <2>2, <2>4 DEF Standing
    <3>3. Standing' = [Standing EXCEPT ![t] = "removed"]
      BY <1>r, <2>1, <2>2, <2>4, <3>1 DEF Standing, HasRow
    <3>4. Offers' = Offers
      BY <1>s, <2>1, FinishedRequest
    <3> QED BY <2>1, <2>2, <3>2, <3>3, <3>4
  <2> QED BY <2>3, <2>4
<1>4. CASE WriteUpdate(r) \/ WriteArchive(r) \/ WriteRestore(r)
  <2>1. UNCHANGED <<role, removed, ownerUser>> /\ req[r].op # "transferOwnership"
    BY <1>4 DEF WriteUpdate, WriteArchive, WriteRestore, At
  <2>2. (\E pc \in Steps : GoTo(r, pc)) \/ Finish(r)
    BY <1>4, <1>s DEF WriteUpdate, WriteArchive, WriteRestore
  <2> QED BY <1>q, <2>1, <2>2
<1>5. CASE WriteAudit(r) \/ Die(r) \/ \E i \in Invites : WriteInvite(r, i)
  <2>1. UNCHANGED <<role, removed, ownerUser>> /\ Finish(r)
    BY <1>5 DEF WriteAudit, Die, WriteInvite, dbVars
  <2> QED BY <1>q, <2>1
<1>6. CASE Transfer(r)
  <2> DEFINE old == req[r].by
             new == req[r].target
  <2>1. Finish(r) /\ req[r].op = "transferOwnership"
    BY <1>6 DEF Transfer, At
  <2>2. CASE old \in ActiveOwners
    <3>1. old = ownerUser /\ new \in Users /\ old \in Users /\ ~removed[old]
      <4>1. phase # "absent"
        BY <2>2 DEF ActiveOwners, NothingBeforeCreation
      <4> QED BY <1>r, <2>1, <2>2, <4>1 DEF ExactlyOneOwner, ActiveOwners, Request, Targeted
    <3>2. /\ role' = [role EXCEPT ![old] = "admin", ![new] = "owner"]
          /\ removed' = [removed EXCEPT ![new] = FALSE]
          /\ ownerUser' = new
      BY <1>6, <2>2 DEF Transfer
    <3>3. role[old] = "owner"
      BY <2>2 DEF ActiveOwners
    <3>4. Standing' = [Standing EXCEPT ![new] = "member"]
      BY <1>r, <3>1, <3>2, <3>3 DEF Standing, HasRow
    <3>5. <<ownerUser, new>> \in Offers
      BY <2>1, <3>1 DEF Offers, Transfers
    <3>6. Offers' \in {Offers, Offers \ {<<ownerUser, new>>}}
      BY <1>s, <2>1, <3>1, FinishedRequest
    <3> QED BY <3>1, <3>2, <3>4, <3>5, <3>6
  <2>3. CASE old \notin ActiveOwners
    <3>1. UNCHANGED <<role, removed, ownerUser>>
      BY <1>6, <2>3 DEF Transfer
    <3> QED BY <1>q, <2>1, <3>1
  <2> QED BY <2>2, <2>3
<1> QED
  BY <1>1, <1>2, <1>3, <1>4, <1>5, <1>6 DEF Statement

(* The people of a workspace, as module Ownership promises them: as long   *)
(* as no ownership transfer overlaps a change of the members, the          *)
(* ownership moves only on an offer of its present owner and to the user   *)
(* it was made to, the owner is never lost and never removed, and who was  *)
(* removed comes back only as the owner.                                   *)
THEOREM ImplementsOwnership == ~TransferRaces => (Spec => OwnershipIsKept)
<1> SUFFICES ASSUME ~TransferRaces PROVE Spec => Promise!Spec
  BY DEF OwnershipIsKept
<1>1. Init => Promise!Init
  <2> SUFFICES ASSUME Init PROVE Promise!Init
    OBVIOUS
  <2>1. CurrentOwner = NoUser
    BY InitOwnerInvariant, OwnerIsNamed DEF Init
  <2>2. Standing = [u \in Users |-> "outsider"]
    BY DEF Init, Standing, HasRow
  <2>3. Offers = {}
    BY DEF Init, Offers, Transfers, Idle
  <2> QED BY <2>1, <2>2, <2>3 DEF Promise!Init
<1>2. OwnerInvariant /\ OwnerInvariant' /\ WellFormed /\ [Next]_vars
        => [Promise!Next]_(Promise!people)
  <2> SUFFICES ASSUME OwnerInvariant, OwnerInvariant', WellFormed, [Next]_vars
               PROVE  Promise!Next \/ UNCHANGED <<CurrentOwner, Standing, Offers>>
    BY DEF Promise!people
  <2>n. CurrentOwner = ownerUser /\ (CurrentOwner)' = ownerUser'
    <3>1. (OwnerInvariant => CurrentOwner = ownerUser)'
      BY OwnerIsNamed, PTL
    <3> QED BY <3>1, OwnerIsNamed
  <2>r. role \in [Users -> Roles \cup {"none"}] /\ removed \in [Users -> BOOLEAN]
    BY DEF OwnerInvariant, TypeOK
  <2>1. CASE UNCHANGED vars
    BY <2>1, <2>n DEF vars, Standing, HasRow, Offers, Transfers
  <2>2. ASSUME NEW u \in Users, CreateWorkspace(u)
        PROVE  Promise!Found(u)
    <3>1. ownerUser = NoUser /\ role[u] = "none" /\ ~removed[u]
      BY <2>2 DEF CreateWorkspace, OwnerInvariant, TypeOK, NothingBeforeCreation
    <3>2. ownerUser' = u /\ Offers' = Offers
      BY <2>2 DEF CreateWorkspace, Offers, Transfers
    <3>3. Standing' = [Standing EXCEPT ![u] = "member"]
      BY <2>2, <2>r, <3>1 DEF CreateWorkspace, Standing, HasRow
    <3> QED BY <2>n, <3>1, <3>2, <3>3 DEF Promise!Found, Promise!Becomes
  <2>3. ASSUME NEW u \in Users, NEW i \in Invites, AcceptInvitation(u, i)
        PROVE  Promise!Join(u)
    <3>1. phase # "absent"
      BY <2>3 DEF AcceptInvitation, OwnerInvariant, NothingBeforeCreation
    <3>2. ownerUser # NoUser /\ role[u] = "none" /\ ~removed[u] /\ invite[i].role # "none"
      BY <2>3, <3>1 DEF AcceptInvitation, OwnerInvariant, TypeOK, WellFormed, RowsWellFormed,
                        HasRow
    <3>3. ownerUser' = ownerUser /\ Offers' = Offers
      BY <2>3 DEF AcceptInvitation, Offers, Transfers
    <3>4. Standing' = [Standing EXCEPT ![u] = "member"] /\ Standing[u] = "outsider"
      BY <2>3, <2>r, <3>2 DEF AcceptInvitation, Standing, HasRow
    <3> QED BY <2>n, <3>2, <3>3, <3>4 DEF Promise!Join, Promise!Becomes
  <2>4. ASSUME NEW i \in Invites, DeclineInvitation(i)
        PROVE  UNCHANGED <<CurrentOwner, Standing, Offers>>
    BY <2>4, <2>n DEF DeclineInvitation, Standing, HasRow, Offers, Transfers
  <2>5. ASSUME NEW r \in Requests, Starts(r)
        PROVE  Promise!Next \/ UNCHANGED <<CurrentOwner, Standing, Offers>>
    <3>1. UNCHANGED dbVars
      BY <2>5 DEF Starts, StartUpdateRole, StartRemoveMember, StartWorkspaceEdit,
                  StartRestore, StartTransfer, StartInvite, Start
    <3>2. ownerUser' = ownerUser /\ Standing' = Standing
      BY <3>1 DEF dbVars, Standing, HasRow
    <3>3. CASE Offers' = Offers
      BY <2>n, <3>2, <3>3
    <3>4. CASE \E v \in Users : v # ownerUser /\ Offers' = Offers \cup {<<ownerUser, v>>}
      <4>1. ownerUser # NoUser
        BY <2>5, StartsNeedAWorkspace DEF OwnerInvariant, TypeOK
      <4> QED BY <2>n, <3>2, <3>4, <4>1 DEF Promise!Next, Promise!Offer
    <3> QED BY <2>5, <3>3, <3>4, StartedRequest
  <2>6. ASSUME NEW r \in Requests, Statement(r) \/ Die(r)
        PROVE  Promise!Next \/ UNCHANGED <<CurrentOwner, Standing, Offers>>
    <3>1. CASE /\ ownerUser' = ownerUser /\ Standing' = Standing
               /\ Offers' = Offers \/ \E o \in Offers : Offers' = Offers \ {o}
      BY <2>n, <3>1 DEF Promise!Next, Promise!Lapse
    <3>2. CASE \E u \in Users :
                 /\ Standing[u] = "member" /\ u # ownerUser
                 /\ Standing' = [Standing EXCEPT ![u] = "removed"]
                 /\ ownerUser' = ownerUser /\ Offers' = Offers
      BY <2>n, <3>2 DEF Promise!Next, Promise!Leave, Promise!Becomes
    <3>3. CASE \E u \in Users :
                 /\ <<ownerUser, u>> \in Offers
                 /\ ownerUser' = u
                 /\ Standing' = [Standing EXCEPT ![u] = "member"]
                 /\ Offers' \in {Offers, Offers \ {<<ownerUser, u>>}}
      BY <2>n, <3>3 DEF Promise!Next, Promise!HandOver, Promise!Becomes
    <3> QED BY <2>6, <3>1, <3>2, <3>3, StatementMoves
  <2> QED
    BY <2>1, <2>2, <2>3, <2>4, <2>5, <2>6 DEF Next, Promise!Next
<1> QED
  BY <1>1, <1>2, OwnerInvariantHolds, WellFormedHolds, PTL DEF Spec, Promise!Spec

-----------------------------------------------------------------------------
(* Without any assumption on transfers.                                    *)

(* The partial unique index: there are never two active owners, whatever   *)
(* overlaps.                                                               *)
LEMMA StepAtMostOneOwner ==
  ASSUME TypeOK, NothingBeforeCreation, AtMostOneOwner, [Next]_vars
  PROVE  AtMostOneOwner'
<1>r. role \in [Users -> Roles \cup {"none"}] /\ removed \in [Users -> BOOLEAN]
  BY DEF TypeOK
<1>s. ASSUME ActiveOwners' \subseteq ActiveOwners
      PROVE  AtMostOneOwner'
  BY <1>s DEF AtMostOneOwner
<1>1. ASSUME UNCHANGED <<role, removed>>
      PROVE  AtMostOneOwner'
  BY <1>1 DEF AtMostOneOwner, ActiveOwners
<1>2. ASSUME NEW u \in Users, CreateWorkspace(u)
      PROVE  AtMostOneOwner'
  BY <1>2, <1>r DEF CreateWorkspace, NothingBeforeCreation, AtMostOneOwner, ActiveOwners
<1>3. ASSUME NEW u \in Users, NEW i \in Invites, AcceptInvitation(u, i)
      PROVE  AtMostOneOwner'
  <2>1. invite[i].role # "owner"
    BY DEF TypeOK, Invitation, InviteRoles
  <2>2. ActiveOwners' \subseteq ActiveOwners
    BY <1>3, <1>r, <2>1 DEF AcceptInvitation, ActiveOwners
  <2> QED BY <1>s, <2>2
<1>4. ASSUME NEW i \in Invites, DeclineInvitation(i)
      PROVE  AtMostOneOwner'
  BY <1>1, <1>4 DEF DeclineInvitation
<1>5. ASSUME NEW r \in Requests, Starts(r)
      PROVE  AtMostOneOwner'
  <2>1. UNCHANGED dbVars
    BY <1>5 DEF Starts, StartUpdateRole, StartRemoveMember, StartWorkspaceEdit, StartRestore,
                StartTransfer, StartInvite, Start
  <2> QED BY <1>1, <2>1 DEF dbVars
<1>6. ASSUME NEW r \in Requests, WriteRole(r)
      PROVE  AtMostOneOwner'
  <2>1. CASE UNCHANGED role
    BY <1>1, <1>6, <2>1 DEF WriteRole
  <2>2. CASE req[r].role # "owner"
    <3>1. ActiveOwners' \subseteq ActiveOwners
      BY <1>6, <1>r, <2>2 DEF WriteRole, ActiveOwners
    <3> QED BY <1>s, <3>1
  <2>3. CASE role' # role /\ req[r].role = "owner"
    <3>1. ActiveOwners \subseteq {req[r].target}
      BY <1>6, <2>3 DEF WriteRole, OwnerIndexAllows
    <3>2. role' = [role EXCEPT ![req[r].target] = "owner"] /\ UNCHANGED removed
      BY <1>6, <2>3 DEF WriteRole
    <3>3. ActiveOwners' \subseteq {req[r].target}
      BY <1>r, <3>1, <3>2 DEF ActiveOwners
    <3> QED BY <3>3 DEF AtMostOneOwner
  <2> QED BY <2>1, <2>2, <2>3
<1>7. ASSUME NEW r \in Requests, WriteRemoval(r)
      PROVE  AtMostOneOwner'
  <2>1. \A u \in Users : removed[u] => removed'[u]
    BY <1>7, <1>r DEF WriteRemoval
  <2>2. ActiveOwners' \subseteq ActiveOwners
    BY <1>7, <2>1 DEF WriteRemoval, ActiveOwners
  <2> QED BY <1>s, <2>2
<1>8. ASSUME NEW r \in Requests, Transfer(r)
      PROVE  AtMostOneOwner'
  <2>1. CASE req[r].by \notin ActiveOwners
    BY <1>1, <1>8, <2>1 DEF Transfer
  <2>2. CASE req[r].by \in ActiveOwners
    <3>1. ActiveOwners = {req[r].by}
      BY <2>2 DEF AtMostOneOwner
    <3>2. /\ role' = [role EXCEPT ![req[r].by] = "admin", ![req[r].target] = "owner"]
          /\ removed' = [removed EXCEPT ![req[r].target] = FALSE]
      BY <1>8, <2>2 DEF Transfer
    <3>3. ActiveOwners' \subseteq {req[r].target}
      BY <1>r, <3>1, <3>2 DEF ActiveOwners
    <3> QED BY <3>3 DEF AtMostOneOwner
  <2> QED BY <2>1, <2>2
<1>9. ASSUME NEW r \in Requests,
             \/ ReadRole(r) \/ CountOwners(r) \/ WriteUpdate(r) \/ WriteArchive(r)
             \/ WriteRestore(r) \/ WriteAudit(r) \/ Die(r)
             \/ \E i \in Invites : WriteInvite(r, i)
      PROVE  AtMostOneOwner'
  <2>1. UNCHANGED <<role, removed>>
    BY <1>9 DEF ReadRole, CountOwners, WriteUpdate, WriteArchive, WriteRestore, WriteAudit,
                WriteInvite, Die, dbVars
  <2> QED BY <1>1, <2>1
<1>10. CASE UNCHANGED vars
  BY <1>1, <1>10 DEF vars
<1> QED
  BY <1>2, <1>3, <1>4, <1>5, <1>6, <1>7, <1>8, <1>9, <1>10 DEF Next, Statement

THEOREM NeverTwoOwners == Spec => []AtMostOneOwner
<1>1. Init => TypeOK /\ NothingBeforeCreation /\ AtMostOneOwner
  <2>1. Init => NothingBeforeCreation /\ AtMostOneOwner
    BY DEF Init, NothingBeforeCreation, NoInvite, AtMostOneOwner, ActiveOwners
  <2> QED BY <2>1, InitTypeOK
<1>2. TypeOK /\ NothingBeforeCreation /\ AtMostOneOwner /\ [Next]_vars
        => (TypeOK /\ NothingBeforeCreation /\ AtMostOneOwner)'
  BY StepTypeOK, StepNothingBeforeCreation, StepAtMostOneOwner
<1> QED
  BY <1>1, <1>2, PTL DEF Spec

(* A removed member comes back only by being handed the ownership.         *)
LEMMA StepRemovalIsFinal ==
  ASSUME TypeOK, [Next]_vars, NEW u \in Users, HasRow(u), removed[u]
  PROVE  removed'[u] \/ role'[u] = "owner"
<1>r. role \in [Users -> Roles \cup {"none"}] /\ removed \in [Users -> BOOLEAN]
  BY DEF TypeOK
<1>1. CASE UNCHANGED removed
  BY <1>1
<1>2. ASSUME NEW r \in Requests, WriteRemoval(r)
      PROVE  removed'[u]
  BY <1>2, <1>r DEF WriteRemoval
<1>3. ASSUME NEW r \in Requests, Transfer(r)
      PROVE  removed'[u] \/ role'[u] = "owner"
  BY <1>3, <1>r DEF Transfer
<1>4. CASE \/ \E w \in Users : CreateWorkspace(w)
           \/ \E w \in Users, i \in Invites : AcceptInvitation(w, i)
           \/ \E i \in Invites : DeclineInvitation(i)
           \/ UNCHANGED vars
  BY <1>1, <1>4 DEF CreateWorkspace, AcceptInvitation, DeclineInvitation, vars
<1>5. ASSUME NEW r \in Requests, Starts(r)
      PROVE  UNCHANGED removed
  BY <1>5 DEF Starts, StartUpdateRole, StartRemoveMember, StartWorkspaceEdit, StartRestore,
              StartTransfer, StartInvite, Start, dbVars
<1>6. ASSUME NEW r \in Requests,
             \/ ReadRole(r) \/ CountOwners(r) \/ WriteRole(r) \/ WriteUpdate(r)
             \/ WriteArchive(r) \/ WriteRestore(r) \/ WriteAudit(r) \/ Die(r)
             \/ \E i \in Invites : WriteInvite(r, i)
      PROVE  UNCHANGED removed
  BY <1>6 DEF ReadRole, CountOwners, WriteRole, WriteUpdate, WriteArchive, WriteRestore,
              WriteAudit, WriteInvite, Die, dbVars
<1> QED
  BY <1>1, <1>2, <1>3, <1>4, <1>5, <1>6 DEF Next, Statement

THEOREM RemovedStayOut == Spec => RemovalIsFinal
<1>1. TypeOK /\ [Next]_vars
        => [\A u \in Users : HasRow(u) /\ removed[u] => removed'[u] \/ role'[u] = "owner"]_vars
  BY StepRemovalIsFinal
<1> QED
  BY <1>1, TypeCorrect, PTL DEF Spec, RemovalIsFinal

(* An accepted invitation let in exactly one user.                         *)
THEOREM SingleUse == Spec => []InvitationsAreSingleUse
<1>1. Init => InvitationsAreSingleUse
  BY DEF Init, InvitationsAreSingleUse, NoInvite
<1>2. TypeOK /\ InvitationsAreSingleUse /\ [Next]_vars => InvitationsAreSingleUse'
  <2> SUFFICES ASSUME TypeOK, InvitationsAreSingleUse, [Next]_vars
               PROVE  InvitationsAreSingleUse'
    OBVIOUS
  <2>i. invite \in [Invites -> Invitation] /\ joinedBy \in [Users -> SUBSET Invites]
    BY DEF TypeOK
  <2>1. CASE UNCHANGED <<invite, joinedBy>>
    BY <2>1 DEF InvitationsAreSingleUse
  <2>2. ASSUME NEW u \in Users, NEW i \in Invites, AcceptInvitation(u, i)
        PROVE  InvitationsAreSingleUse'
    <3>1. /\ invite' = [invite EXCEPT ![i].state = "accepted"]
          /\ joinedBy' = [joinedBy EXCEPT ![u] = @ \cup {i}]
          /\ \A w \in Users : i \notin joinedBy[w]
      BY <2>2 DEF AcceptInvitation, InvitationsAreSingleUse
    <3>2. \A j \in Invites : invite'[j].state = "accepted" <=> j = i \/ invite[j].state = "accepted"
      BY <2>i, <3>1 DEF Invitation
    <3>3. \A w \in Users : joinedBy'[w] = IF w = u THEN joinedBy[u] \cup {i} ELSE joinedBy[w]
      BY <2>i, <3>1
    <3> QED BY <3>1, <3>2, <3>3 DEF InvitationsAreSingleUse
  <2>3. ASSUME NEW i \in Invites, DeclineInvitation(i)
        PROVE  InvitationsAreSingleUse'
    <3>1. UNCHANGED joinedBy /\ \A j \in Invites :
            invite'[j].state = "accepted" <=> invite[j].state = "accepted"
      BY <2>i, <2>3 DEF DeclineInvitation, Invitation
    <3> QED BY <3>1 DEF InvitationsAreSingleUse
  <2>4. ASSUME NEW r \in Requests, NEW i \in Invites, WriteInvite(r, i)
        PROVE  InvitationsAreSingleUse'
    <3>1. UNCHANGED joinedBy /\ \A j \in Invites :
            invite'[j].state = "accepted" <=> invite[j].state = "accepted"
      BY <2>i, <2>4 DEF WriteInvite, Invitation
    <3> QED BY <3>1 DEF InvitationsAreSingleUse
  <2>5. ASSUME NEW r \in Requests, Starts(r)
        PROVE  UNCHANGED <<invite, joinedBy>>
    BY <2>5 DEF Starts, StartUpdateRole, StartRemoveMember, StartWorkspaceEdit, StartRestore,
                StartTransfer, StartInvite, Start, dbVars
  <2>6. ASSUME NEW r \in Requests,
               \/ ReadRole(r) \/ CountOwners(r) \/ WriteRole(r) \/ WriteRemoval(r)
               \/ WriteUpdate(r) \/ WriteArchive(r) \/ WriteRestore(r) \/ WriteAudit(r)
               \/ Transfer(r) \/ Die(r)
        PROVE  UNCHANGED <<invite, joinedBy>>
    BY <2>6 DEF ReadRole, CountOwners, WriteRole, WriteRemoval, WriteUpdate, WriteArchive,
                WriteRestore, WriteAudit, Transfer, Die, dbVars
  <2>7. ASSUME \/ \E u \in Users : CreateWorkspace(u)
               \/ UNCHANGED vars
        PROVE  UNCHANGED <<invite, joinedBy>>
    BY <2>7 DEF CreateWorkspace, vars
  <2> QED
    BY <2>1, <2>2, <2>3, <2>4, <2>5, <2>6, <2>7 DEF Next, Statement
<1> QED
  BY <1>1, <1>2, TypeCorrect, PTL DEF Spec

-----------------------------------------------------------------------------
(* The audit trail, for finitely many requests.                            *)

(* A request that is to write an event has committed the change it is      *)
(* about.                                                                  *)
OnlyEditsRecord ==
  \A r \in Requests : req[r].pc = "audit" => req[r].op \in {"update", "archive", "restore"}

TrailInvariant == TypeOK /\ TrailFollowsChanges /\ OnlyEditsRecord

LEMMA PendingCounts ==
  ASSUME IsFiniteSet(Requests), NEW e \in Events
  PROVE  /\ IsFiniteSet(AboutToRecord(e)) /\ Cardinality(AboutToRecord(e)) \in Nat
         /\ IsFiniteSet(AboutToRecord(e)') /\ Cardinality(AboutToRecord(e)') \in Nat
<1>1. AboutToRecord(e) \subseteq Requests /\ AboutToRecord(e)' \subseteq Requests
  BY DEF AboutToRecord
<1> QED BY <1>1, FS_Subset, FS_CardinalityType

(* A step that writes no event and commits no change, or both at once, and *)
(* leaves no more events to be written.                                    *)
LEMMA BalancedStep ==
  ASSUME IsFiniteSet(Requests), TrailInvariant, TypeOK', OnlyEditsRecord',
         \A e \in Events : AboutToRecord(e)' \subseteq AboutToRecord(e),
         \/ UNCHANGED <<trail, changes>>
         \/ \E e \in Events : /\ trail' = [trail EXCEPT ![e] = @ + 1]
                             /\ changes' = [changes EXCEPT ![e] = @ + 1]
  PROVE  TrailInvariant'
<1>1. trail \in [Events -> Nat] /\ changes \in [Events -> Nat]
  BY DEF TrailInvariant, TypeOK
<1>2. \A e \in Events : Cardinality(AboutToRecord(e)') <= Cardinality(AboutToRecord(e))
  BY PendingCounts, FS_Subset
<1>3. \A e \in Events : \/ trail'[e] = trail[e] /\ changes'[e] = changes[e]
                        \/ trail'[e] = trail[e] + 1 /\ changes'[e] = changes[e] + 1
  BY <1>1
<1>4. \A e \in {"created", "ownership_transferred"} : trail'[e] = changes'[e]
  BY <1>3 DEF TrailInvariant, TrailFollowsChanges, Events
<1>5. ASSUME NEW e \in Events
      PROVE  trail'[e] + Cardinality(AboutToRecord(e)') <= changes'[e]
  <2>1. trail[e] + Cardinality(AboutToRecord(e)) <= changes[e]
    BY DEF TrailInvariant, TrailFollowsChanges
  <2>2. trail[e] \in Nat /\ changes[e] \in Nat
    BY <1>1
  <2> QED BY <1>2, <1>3, <2>1, <2>2, PendingCounts
<1>6. TrailFollowsChanges'
  BY <1>4, <1>5 DEF TrailFollowsChanges
<1> QED BY <1>6 DEF TrailInvariant

(* The UPDATE of an edit: one more change, and one more event to write.    *)
LEMMA EditStep ==
  ASSUME IsFiniteSet(Requests), TrailInvariant, TypeOK', OnlyEditsRecord', NEW r \in Requests,
         NEW f \in {"updated", "archived", "restored"},
         UNCHANGED trail, changes' = [changes EXCEPT ![f] = @ + 1],
         r \notin AboutToRecord(f), AboutToRecord(f)' = AboutToRecord(f) \cup {r},
         \A e \in Events : e # f => AboutToRecord(e)' = AboutToRecord(e)
  PROVE  TrailInvariant'
<1>0. f \in Events /\ f \notin {"created", "ownership_transferred"}
  BY DEF Events
<1>1. trail \in [Events -> Nat] /\ changes \in [Events -> Nat]
  BY DEF TrailInvariant, TypeOK
<1>2. Cardinality(AboutToRecord(f)') = Cardinality(AboutToRecord(f)) + 1
  BY <1>0, PendingCounts, FS_AddElement
<1>3. \A e \in {"created", "ownership_transferred"} : trail'[e] = changes'[e]
  BY <1>0, <1>1 DEF TrailInvariant, TrailFollowsChanges, Events
<1>4. ASSUME NEW e \in Events
      PROVE  trail'[e] + Cardinality(AboutToRecord(e)') <= changes'[e]
  <2>1. trail[e] + Cardinality(AboutToRecord(e)) <= changes[e] /\ trail[e] \in Nat /\ changes[e] \in Nat
    BY <1>1 DEF TrailInvariant, TrailFollowsChanges
  <2>2. CASE e = f
    <3>1. trail'[f] = trail[f] /\ changes'[f] = changes[f] + 1
      BY <1>0, <1>1
    <3>2. Cardinality(AboutToRecord(f)) \in Nat
      BY <1>0, PendingCounts
    <3>3. AboutToRecord(e)' = AboutToRecord(f)' /\ AboutToRecord(e) = AboutToRecord(f)
      BY <2>2 DEF AboutToRecord
    <3> QED BY <1>2, <2>1, <2>2, <3>1, <3>2, <3>3
  <2>3. CASE e # f
    BY <1>1, <2>1, <2>3
  <2> QED BY <2>2, <2>3
<1>5. TrailFollowsChanges'
  BY <1>3, <1>4 DEF TrailFollowsChanges
<1> QED BY <1>5 DEF TrailInvariant

(* Its audit event: one less to write.                                     *)
LEMMA RecordStep ==
  ASSUME IsFiniteSet(Requests), TrailInvariant, TypeOK', OnlyEditsRecord', NEW r \in Requests,
         NEW f \in {"updated", "archived", "restored"},
         UNCHANGED changes, trail' = [trail EXCEPT ![f] = @ + 1],
         r \in AboutToRecord(f), AboutToRecord(f)' = AboutToRecord(f) \ {r},
         \A e \in Events : e # f => AboutToRecord(e)' = AboutToRecord(e)
  PROVE  TrailInvariant'
<1>0. f \in Events /\ f \notin {"created", "ownership_transferred"}
  BY DEF Events
<1>1. trail \in [Events -> Nat] /\ changes \in [Events -> Nat]
  BY DEF TrailInvariant, TypeOK
<1>2. Cardinality(AboutToRecord(f)') = Cardinality(AboutToRecord(f)) - 1
  BY <1>0, PendingCounts, FS_RemoveElement
<1>3. \A e \in {"created", "ownership_transferred"} : trail'[e] = changes'[e]
  BY <1>0, <1>1 DEF TrailInvariant, TrailFollowsChanges, Events
<1>4. ASSUME NEW e \in Events
      PROVE  trail'[e] + Cardinality(AboutToRecord(e)') <= changes'[e]
  <2>1. trail[e] + Cardinality(AboutToRecord(e)) <= changes[e] /\ trail[e] \in Nat /\ changes[e] \in Nat
    BY <1>1 DEF TrailInvariant, TrailFollowsChanges
  <2>2. CASE e = f
    <3>1. trail'[f] = trail[f] + 1 /\ changes'[f] = changes[f]
      BY <1>0, <1>1
    <3>2. Cardinality(AboutToRecord(f)) \in Nat
      BY <1>0, PendingCounts
    <3>3. AboutToRecord(e)' = AboutToRecord(f)' /\ AboutToRecord(e) = AboutToRecord(f)
      BY <2>2 DEF AboutToRecord
    <3> QED BY <1>2, <2>1, <2>2, <3>1, <3>2, <3>3
  <2>3. CASE e # f
    BY <1>1, <2>1, <2>3
  <2> QED BY <2>2, <2>3
<1>5. TrailFollowsChanges'
  BY <1>3, <1>4 DEF TrailFollowsChanges
<1> QED BY <1>5 DEF TrailInvariant

(* A step of one request that does not take it to its audit event.         *)
LEMMA QuietRequest ==
  ASSUME TypeOK, OnlyEditsRecord, NEW r \in Requests, NEW q, q.pc # "audit",
         req' = [req EXCEPT ![r] = q]
  PROVE  OnlyEditsRecord' /\ \A e \in Events : AboutToRecord(e)' \subseteq AboutToRecord(e)
<1>1. req'[r] = q /\ \A s \in Requests : s # r => req'[s] = req[s]
  BY DEF TypeOK
<1> QED BY <1>1 DEF OnlyEditsRecord, AboutToRecord

LEMMA QuietSteps ==
  ASSUME IsFiniteSet(Requests), TrailInvariant, TypeOK', NEW r \in Requests,
         \/ Starts(r) \/ ReadRole(r) \/ CountOwners(r) \/ WriteRole(r) \/ WriteRemoval(r)
         \/ Transfer(r) \/ Die(r) \/ \E i \in Invites : WriteInvite(r, i)
  PROVE  TrailInvariant'
<1> USE DEF TrailInvariant
<1>0. Idle.pc # "audit"
  BY DEF Idle
<1>1. CASE Starts(r)
  <2> PICK u \in Users :
        \/ \E target \in Users, newRole \in Roles : StartUpdateRole(r, u, target, newRole)
        \/ \E target \in Users : StartRemoveMember(r, u, target)
        \/ \E op \in {"update", "archive"} : StartWorkspaceEdit(r, u, op)
        \/ StartRestore(r, u)
        \/ \E target \in Users : StartTransfer(r, u, target)
        \/ \E newRole \in Roles : StartInvite(r, u, newRole)
    BY <1>1 DEF Starts
  <2>1. \E q : q.pc # "audit" /\ req' = [req EXCEPT ![r] = q]
    BY DEF StartUpdateRole, StartRemoveMember, StartWorkspaceEdit, StartRestore, StartTransfer,
           StartInvite, Start
  <2>2. UNCHANGED <<trail, changes>>
    BY DEF StartUpdateRole, StartRemoveMember, StartWorkspaceEdit, StartRestore, StartTransfer,
           StartInvite, Start, dbVars
  <2> QED BY <2>1, <2>2, QuietRequest, BalancedStep
<1>2. CASE ReadRole(r) \/ CountOwners(r)
  <2>1. \E q : q.pc # "audit" /\ req' = [req EXCEPT ![r] = q]
    <3>1. req[r] \in Request
      BY DEF TypeOK
    <3>2. \A pc \in {"write", "countOwners"} : [req[r] EXCEPT !.pc = pc].pc # "audit"
      BY <3>1 DEF Request
    <3> QED BY <1>0, <1>2, <3>2 DEF ReadRole, CountOwners, GoTo, Finish
  <2>2. UNCHANGED <<trail, changes>>
    BY <1>2 DEF ReadRole, CountOwners, dbVars
  <2> QED BY <2>1, <2>2, QuietRequest, BalancedStep
<1>3. CASE \/ WriteRole(r) \/ WriteRemoval(r) \/ Die(r) \/ \E i \in Invites : WriteInvite(r, i)
  <2>1. req' = [req EXCEPT ![r] = Idle] /\ UNCHANGED <<trail, changes>>
    BY <1>3 DEF WriteRole, WriteRemoval, Die, WriteInvite, Finish, dbVars
  <2> QED BY <1>0, <2>1, QuietRequest, BalancedStep
<1>4. CASE Transfer(r)
  <2>1. req' = [req EXCEPT ![r] = Idle]
    BY <1>4 DEF Transfer, Finish
  <2>2. \/ UNCHANGED <<trail, changes>>
        \/ /\ trail' = [trail EXCEPT !["ownership_transferred"] = @ + 1]
           /\ changes' = [changes EXCEPT !["ownership_transferred"] = @ + 1]
    BY <1>4 DEF Transfer, Committed
  <2> QED BY <1>0, <2>1, <2>2, QuietRequest, BalancedStep DEF Events
<1> QED BY <1>1, <1>2, <1>3, <1>4

LEMMA EditSteps ==
  ASSUME IsFiniteSet(Requests), TrailInvariant, TypeOK', NEW r \in Requests,
         WriteUpdate(r) \/ WriteArchive(r) \/ WriteRestore(r)
  PROVE  TrailInvariant'
<1> USE DEF TrailInvariant
<1>1. req \in [Requests -> Request]
  BY DEF TypeOK
<1>2. CASE req' = [req EXCEPT ![r] = Idle] /\ UNCHANGED <<trail, changes>>
  <2>1. Idle.pc # "audit"
    BY DEF Idle
  <2> QED BY <1>2, <2>1, QuietRequest, BalancedStep
<1>3. ASSUME NEW f \in {"updated", "archived", "restored"},
             req[r].pc = "write", req[r].op \in {"update", "archive", "restore"}, EventOf(req[r].op) = f,
             req' = [req EXCEPT ![r].pc = "audit"],
             UNCHANGED trail, changes' = [changes EXCEPT ![f] = @ + 1]
      PROVE  TrailInvariant'
  <2>1. /\ req'[r].pc = "audit" /\ req'[r].op = req[r].op
        /\ \A s \in Requests : s # r => req'[s] = req[s]
    BY <1>1, <1>3 DEF Request
  <2>2. OnlyEditsRecord'
    BY <1>3, <2>1 DEF OnlyEditsRecord
  <2>3. /\ r \notin AboutToRecord(f) /\ AboutToRecord(f)' = AboutToRecord(f) \cup {r}
        /\ \A e \in Events : e # f => AboutToRecord(e)' = AboutToRecord(e)
    BY <1>3, <2>1 DEF AboutToRecord
  <2> QED BY <1>3, <2>2, <2>3, EditStep
<1>4. CASE WriteUpdate(r)
  BY <1>2, <1>3, <1>4 DEF WriteUpdate, At, GoTo, Finish, Committed, EventOf
<1>5. CASE WriteArchive(r)
  BY <1>2, <1>3, <1>5 DEF WriteArchive, At, GoTo, Finish, Committed, EventOf
<1>6. CASE WriteRestore(r)
  BY <1>2, <1>3, <1>6 DEF WriteRestore, At, GoTo, Finish, Committed, EventOf
<1> QED BY <1>4, <1>5, <1>6

LEMMA RecordSteps ==
  ASSUME IsFiniteSet(Requests), TrailInvariant, TypeOK', NEW r \in Requests, WriteAudit(r)
  PROVE  TrailInvariant'
<1> USE DEF TrailInvariant
<1>1. req[r].pc = "audit" /\ req' = [req EXCEPT ![r] = Idle] /\ UNCHANGED changes
  BY DEF WriteAudit, Finish
<1>2. PICK f \in {"updated", "archived", "restored"} : f = EventOf(req[r].op)
  BY <1>1 DEF OnlyEditsRecord, EventOf
<1>3. trail' = [trail EXCEPT ![f] = @ + 1]
  BY <1>2 DEF WriteAudit
<1>4. /\ req'[r] = Idle /\ Idle.pc # "audit"
      /\ \A s \in Requests : s # r => req'[s] = req[s]
  BY <1>1 DEF TypeOK, Idle
<1>5. OnlyEditsRecord'
  BY <1>1, <1>4, QuietRequest
<1>6. r \in AboutToRecord(f)
  BY <1>1, <1>2 DEF AboutToRecord
<1>7. AboutToRecord(f)' = AboutToRecord(f) \ {r}
  BY <1>4 DEF AboutToRecord
<1>8. \A e \in Events : e # f => AboutToRecord(e)' = AboutToRecord(e)
  BY <1>2, <1>4 DEF AboutToRecord
<1> QED BY <1>1, <1>3, <1>5, <1>6, <1>7, <1>8, RecordStep

LEMMA OtherTrailSteps ==
  ASSUME IsFiniteSet(Requests), TrailInvariant, TypeOK',
         \/ \E u \in Users : CreateWorkspace(u)
         \/ \E u \in Users, i \in Invites : AcceptInvitation(u, i)
         \/ \E i \in Invites : DeclineInvitation(i)
         \/ UNCHANGED vars
  PROVE  TrailInvariant'
<1> USE DEF TrailInvariant
<1>1. UNCHANGED req
  BY DEF CreateWorkspace, AcceptInvitation, DeclineInvitation, vars
<1>2. OnlyEditsRecord' /\ \A e \in Events : AboutToRecord(e)' \subseteq AboutToRecord(e)
  BY <1>1 DEF OnlyEditsRecord, AboutToRecord
<1>3. \/ UNCHANGED <<trail, changes>>
      \/ /\ trail' = [trail EXCEPT !["created"] = @ + 1]
         /\ changes' = [changes EXCEPT !["created"] = @ + 1]
  BY DEF CreateWorkspace, AcceptInvitation, DeclineInvitation, vars
<1> QED BY <1>2, <1>3, BalancedStep DEF Events

(* The audit trail never runs ahead of the changes, however many requests  *)
(* are under way or die; what is written in one transaction is in step.    *)
THEOREM TrailIsHonest == IsFiniteSet(Requests) => (Spec => []TrailFollowsChanges)
<1> SUFFICES ASSUME IsFiniteSet(Requests) PROVE Spec => []TrailFollowsChanges
  OBVIOUS
<1>1. Init /\ TypeOK => TrailInvariant
  <2> SUFFICES ASSUME Init, TypeOK PROVE TrailInvariant
    OBVIOUS
  <2>1. \A r \in Requests : req[r].pc = "idle"
    BY DEF Init, Idle
  <2>2. \A e \in Events : AboutToRecord(e) = {}
    BY <2>1 DEF AboutToRecord
  <2>3. \A e \in Events : trail[e] = 0 /\ changes[e] = 0
    BY DEF Init
  <2>4. TrailFollowsChanges
    BY <2>2, <2>3, FS_EmptySet DEF TrailFollowsChanges, Events
  <2> QED BY <2>1, <2>4 DEF TrailInvariant, OnlyEditsRecord
<1>2. TrailInvariant /\ TypeOK' /\ [Next]_vars => TrailInvariant'
  BY QuietSteps, EditSteps, RecordSteps, OtherTrailSteps DEF Next, Statement
<1>3. TrailInvariant => TrailFollowsChanges
  BY DEF TrailInvariant
<1> QED BY <1>1, <1>2, <1>3, TypeCorrect, PTL DEF Spec
=============================================================================
