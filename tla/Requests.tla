------------------------------ MODULE Requests ------------------------------
(***************************************************************************)
(* What a request may see: its session (packages/auth/src/session.ts and   *)
(* the guard requireUser), the workspace context it opens on a pooled      *)
(* connection, and the row level security policies, which read the         *)
(* settings of that connection.  Sessions are revoked, users suspended and *)
(* members removed while requests are under way.                           *)
(*                                                                         *)
(* There are two functions withWorkspaceContext: that of packages/auth     *)
(* asks for the membership before it runs its callback, that of            *)
(* packages/db does not.  No route uses either: the routes issue their     *)
(* statements on the pool.  And there are two worlds, of which the         *)
(* repository does not choose one: the role in DATABASE_URL obeys the      *)
(* policies, as ADR 0006 wants it, or it is exempt from them (a superuser, *)
(* BYPASSRLS).                                                             *)
(***************************************************************************)
EXTENDS Integers

CONSTANTS
  Users, Workspaces,
  Sessions,      \* session tokens, issued and invented ones
  Requests,
  Connections,   \* the pool
  Nobody,        \* an absent user, workspace, session or request
  Rows           \* rows under a policy

(* The kinds of policies, by what they ask of a row.                       *)
(*   workspace  workspace_id is the current one (pages, tasks, notes, ...) *)
(*   personal   and its user is the current one (vault, device registry)   *)
(*   open       workspace_id is NULL or the current one (csp_reports,      *)
(*              oauth_state_store)                                         *)
(*   user       its session is one of the current user's (csrf_tokens)     *)
(*   member     app_is_member(workspace_id) (workspaces, memberships,      *)
(*              invitations, workspace audit events)                       *)
Kinds == {"workspace", "personal", "open", "user", "member"}

(* Nobody in a column is NULL, or a table that does not have it.           *)
ASSUME RequestsAssumption ==
  /\ Nobody \notin Users \cup Workspaces \cup Sessions \cup Requests
  /\ Rows \subseteq [kind : Kinds, workspace : Workspaces \cup {Nobody}, owner : Users \cup {Nobody}]

VARIABLES
  exempt,        \* is the database role exempt from the policies?
  sessions,      \* the table sessions, by token
  suspended,     \* users whose status is not active
  members,       \* workspace_memberships with removed_at IS NULL
  connections,   \* whom each connection serves, and its settings
  requests

requestVars == <<exempt, sessions, suspended, members, connections, requests>>

Session == [user : Users \cup {Nobody}, revoked : BOOLEAN]

(* app.current_user_id and app.current_workspace_id.                       *)
Settings == [user : Users \cup {Nobody}, workspace : Workspaces \cup {Nobody}]
Unset    == [user |-> Nobody, workspace |-> Nobody]

Connection == [holder : Requests \cup {Nobody}, settings : Settings]

(* ended: the session was no longer good when the request began.           *)
(* stranger: its user was no member when it opened a context that asks.    *)
(* seen: the rows its statements returned.                                 *)
Request == [pc : {"idle", "validating", "validated", "opened", "granted", "refused", "failed", "done"},
            session : Sessions \cup {Nobody}, user : Users \cup {Nobody},
            workspace : Workspaces \cup {Nobody}, ended : BOOLEAN, stranger : BOOLEAN,
            seen : SUBSET Rows]

NewRequest == [pc |-> "idle", session |-> Nobody, user |-> Nobody, workspace |-> Nobody,
               ended |-> FALSE, stranger |-> FALSE, seen |-> {}]

RequestsTypeOK ==
  /\ exempt \in BOOLEAN
  /\ sessions \in [Sessions -> Session]
  /\ suspended \subseteq Users
  /\ members \subseteq Users \X Workspaces
  /\ connections \in [Connections -> Connection]
  /\ requests \in [Requests -> Request]

RequestsInit ==
  /\ exempt \in BOOLEAN
  /\ sessions = [s \in Sessions |-> [user |-> Nobody, revoked |-> FALSE]]
  /\ suspended = {}
  /\ members \in SUBSET (Users \X Workspaces)
  /\ connections = [c \in Connections |-> [holder |-> Nobody, settings |-> Unset]]
  /\ requests = [r \in Requests |-> NewRequest]

-----------------------------------------------------------------------------
(* createSession, by a sign-in: the facade read the status of the user in  *)
(* an earlier statement, so the user may have been suspended since.        *)
CreateSession(s, u) ==
  /\ sessions[s].user = Nobody
  /\ sessions' = [sessions EXCEPT ![s].user = u]
  /\ UNCHANGED <<exempt, suspended, members, connections, requests>>

(* revokeSession, by a sign-out.                                           *)
RevokeSession(s) ==
  /\ sessions[s].user # Nobody /\ ~sessions[s].revoked
  /\ sessions' = [sessions EXCEPT ![s].revoked = TRUE]
  /\ UNCHANGED <<exempt, suspended, members, connections, requests>>

(* revokeAllUserSessions: one UPDATE over the sessions there are.          *)
RevokeAllUserSessions(u) ==
  /\ \E s \in Sessions : sessions[s].user = u /\ ~sessions[s].revoked
  /\ sessions' = [s \in Sessions |->
       [sessions[s] EXCEPT !.revoked = @ \/ sessions[s].user = u]]
  /\ UNCHANGED <<exempt, suspended, members, connections, requests>>

(* users.status leaves 'active'; memberships get their removed_at (module  *)
(* Workspaces).                                                            *)
Suspend(u) ==
  /\ u \notin suspended
  /\ suspended' = suspended \cup {u}
  /\ UNCHANGED <<exempt, sessions, members, connections, requests>>

RemoveMember(u, w) ==
  /\ <<u, w>> \in members
  /\ members' = members \ {<<u, w>>}
  /\ UNCHANGED <<exempt, sessions, suspended, connections, requests>>

-----------------------------------------------------------------------------
(* The WHERE clause of validateSession, and the status of the user.  The   *)
(* comparison of expires_at never refuses: the driver returns a Date, and  *)
(* a Date compared with an ISO string is compared as NaN.                  *)
Good(s) ==
  /\ sessions[s].user # Nobody
  /\ ~sessions[s].revoked
  /\ sessions[s].user \notin suspended

Ended(s) == sessions[s].user # Nobody /\ ~Good(s)

(* requireUser: a token from the cookie or the Authorization header.       *)
RequireUser(r, s) ==
  /\ requests[r].pc = "idle"
  /\ requests' = [requests EXCEPT ![r] =
       [@ EXCEPT !.pc = "validating", !.session = s, !.ended = Ended(s)]]
  /\ UNCHANGED <<exempt, sessions, suspended, members, connections>>

(* Mutants: the query returns the wrong column, or does not ask revoked_at.*)
ValidateSessionToken(r) ==
  /\ requests[r].pc = "validating"
  /\ Good(requests[r].session)
  /\ requests' = [requests EXCEPT ![r] = [@ EXCEPT !.pc = "validated", !.user = requests[r].session]]
  /\ UNCHANGED <<exempt, sessions, suspended, members, connections>>

ValidateRevokedToo(r) ==
  LET s == requests[r].session
  IN  /\ requests[r].pc = "validating"
      /\ sessions[s].user \notin suspended \cup {Nobody}
      /\ requests' = [requests EXCEPT ![r] = [@ EXCEPT !.pc = "validated", !.user = sessions[s].user]]
      /\ UNCHANGED <<exempt, sessions, suspended, members, connections>>

(* The SELECT of validateSession: AUTH_REQUIRED unless it is good.         *)
ValidateSession(r) ==
  LET s == requests[r].session
  IN  /\ requests[r].pc = "validating"
      /\ requests' = [requests EXCEPT ![r] =
           IF Good(s) THEN [@ EXCEPT !.pc = "validated", !.user = sessions[s].user]
           ELSE [@ EXCEPT !.pc = "refused"]]
      /\ UNCHANGED <<exempt, sessions, suspended, members, connections>>

Free(c) == connections[c].holder = Nobody

(* Mutant: set_config(..., false), which outlives the transaction.         *)
EndOfTxKeeping(settings) == settings

(* set_config(..., true): for the transaction, whose end resets it.        *)
SetConfig(u, w) == [user |-> u, workspace |-> w]
EndOfTx(settings) == Unset

(* BEGIN on a free connection, and both settings.                          *)
Begin(r, c, w) ==
  /\ requests[r].pc = "validated"
  /\ Free(c)
  /\ connections' = [connections EXCEPT ![c] =
       [holder |-> r, settings |-> SetConfig(requests[r].user, w)]]
  /\ UNCHANGED <<exempt, sessions, suspended, members>>

(* withWorkspaceContext of packages/auth: the membership is asked next.    *)
OpenContext(r, c, w) ==
  /\ Begin(r, c, w)
  /\ requests' = [requests EXCEPT ![r] =
       [@ EXCEPT !.pc = "opened", !.workspace = w, !.stranger = <<requests[r].user, w>> \notin members]]

(* withWorkspaceContext of packages/db: the callback runs at once.         *)
OpenUnchecked(r, c, w) ==
  /\ Begin(r, c, w)
  /\ requests' = [requests EXCEPT ![r] = [@ EXCEPT !.pc = "granted", !.workspace = w]]

(* The connection goes back to the pool.                                   *)
Release(c) ==
  connections' = [connections EXCEPT ![c] = [holder |-> Nobody, settings |-> EndOfTx(@.settings)]]

(* The transaction is rolled back and the request answered an error.       *)
EndWith(r, c, pc) ==
  /\ requests' = [requests EXCEPT ![r].pc = pc]
  /\ Release(c)

(* app_is_member reads workspace_memberships, whose own policy calls it    *)
(* again: it is not SECURITY DEFINER, and the policy binds the owner of    *)
(* the table as well.  Once it meets an active membership of the current   *)
(* user, the call nests until the stack is exhausted; if it meets none, it *)
(* is false.                                                               *)
AppIsMemberFails(settings, w) == ~exempt /\ <<settings.user, w>> \in members

(* The membership query of the context: WORKSPACE_NOT_FOUND if it returns  *)
(* no row.                                                                 *)
VerifyMembership(r, c) ==
  LET w == requests[r].workspace
  IN  /\ requests[r].pc = "opened"
      /\ connections[c].holder = r
      /\ IF AppIsMemberFails(connections[c].settings, w) THEN EndWith(r, c, "failed")
         ELSE IF <<requests[r].user, w>> \in members
         THEN requests' = [requests EXCEPT ![r].pc = "granted"] /\ UNCHANGED connections
         ELSE EndWith(r, c, "refused")
      /\ UNCHANGED <<exempt, sessions, suspended, members>>

(* The USING clauses.  An unset setting equals nothing.                    *)
OfWorkspace(row, settings) == settings.workspace # Nobody /\ row.workspace = settings.workspace
OfUser(row, settings)      == settings.user # Nobody /\ row.owner = settings.user

PolicyAdmits(row, settings) ==
  \/ row.kind = "workspace" /\ OfWorkspace(row, settings)
  \/ row.kind = "personal" /\ OfWorkspace(row, settings) /\ OfUser(row, settings)
  \/ row.kind = "open" /\ (row.workspace = Nobody \/ OfWorkspace(row, settings))
  \/ row.kind = "user" /\ OfUser(row, settings)

(* What statements over tables of these kinds return; no WHERE clause      *)
(* takes anything away.  They go over every table, or spare those whose    *)
(* policy can fail.                                                        *)
Reads == {Kinds, Kinds \ {"member"}}

Tables(kinds)            == {row \in Rows : row.kind \in kinds}
Visible(settings, kinds) == {row \in Tables(kinds) : exempt \/ PolicyAdmits(row, settings)}
Fails(settings, kinds)   ==
  \E row \in Tables(kinds \cap {"member"}) : AppIsMemberFails(settings, row.workspace)

(* Statements of the callback, in the transaction.                         *)
Statement(r, c, kinds) ==
  LET settings == connections[c].settings
  IN  /\ requests[r].pc = "granted"
      /\ connections[c].holder = r
      /\ IF Fails(settings, kinds) THEN EndWith(r, c, "failed")
         ELSE /\ requests' = [requests EXCEPT ![r].seen = @ \cup Visible(settings, kinds)]
              /\ UNCHANGED connections
      /\ UNCHANGED <<exempt, sessions, suspended, members>>

(* Statements of a route on the pool, on whichever connection is free.     *)
PlainStatement(r, c, kinds) ==
  LET settings == connections[c].settings
  IN  /\ requests[r].pc = "validated"
      /\ Free(c)
      /\ IF Fails(settings, kinds) THEN requests' = [requests EXCEPT ![r].pc = "failed"]
         ELSE requests' = [requests EXCEPT ![r].seen = @ \cup Visible(settings, kinds)]
      /\ UNCHANGED <<exempt, sessions, suspended, members, connections>>

(* COMMIT, or ROLLBACK when the callback throws.                           *)
CloseContext(r, c) ==
  /\ requests[r].pc \in {"opened", "granted"}
  /\ connections[c].holder = r
  /\ EndWith(r, c, "done")
  /\ UNCHANGED <<exempt, sessions, suspended, members>>

RequestsNext ==
  \/ \E s \in Sessions : RevokeSession(s) \/ \E u \in Users : CreateSession(s, u)
  \/ \E u \in Users : \/ RevokeAllUserSessions(u)
                      \/ Suspend(u)
                      \/ \E w \in Workspaces : RemoveMember(u, w)
  \/ \E r \in Requests :
       \/ \E s \in Sessions : RequireUser(r, s)
       \/ ValidateSession(r)
       \/ \E c \in Connections :
            \/ \E w \in Workspaces : OpenContext(r, c, w) \/ OpenUnchecked(r, c, w)
            \/ VerifyMembership(r, c)
            \/ \E kinds \in Reads : Statement(r, c, kinds) \/ PlainStatement(r, c, kinds)
            \/ CloseContext(r, c)

RequestsSpec == RequestsInit /\ [][RequestsNext]_requestVars

-----------------------------------------------------------------------------
(* When the role obeys the policies, a request sees in its context no row  *)
(* of another workspace, and of a table with a user no row of another user *)
(* (a csrf token is of a user, whatever the workspace); the memberships it *)
(* cannot see at all.  Outside a context it sees what belongs to no        *)
(* workspace and nothing else, although it runs on a connection that       *)
(* served others before.  This holds for the context that does not ask for *)
(* the membership, too: there the policies are all there is.               *)
IsolatedReads ==
  ~exempt =>
    \A r \in Requests : \A row \in requests[r].seen :
      \/ row.kind = "open" /\ row.workspace = Nobody
      \/ /\ requests[r].workspace # Nobody
         /\ row.kind # "member"
         /\ row.kind # "user" => row.workspace = requests[r].workspace
         /\ row.kind \in {"personal", "user"} => row.owner = requests[r].user

(* In either world, a request that begins after its session was revoked or *)
(* its user suspended gets nowhere and sees nothing, and one whose user    *)
(* was removed before it opens a context that asks for the membership is   *)
(* never let into that context.                                            *)
RevokedStayOut ==
  \A r \in Requests :
    /\ requests[r].ended => requests[r].pc \in {"validating", "refused"} /\ requests[r].seen = {}
    /\ requests[r].stranger => requests[r].pc # "granted"
=============================================================================
