--------------------------- MODULE RequestsProofs ---------------------------
(***************************************************************************)
(* Isolation of the requests, for any number of users, workspaces,         *)
(* sessions, requests and connections.                                     *)
(***************************************************************************)
EXTENDS Requests, TLAPS

(* A connection nobody holds has no settings; one that is held belongs to  *)
(* a request in its context, and has that request's settings.              *)
SettingsFollowHolder ==
  \A c \in Connections :
    IF connections[c].holder = Nobody THEN connections[c].settings = Unset
    ELSE LET r == requests[connections[c].holder]
         IN  /\ r.pc \in {"opened", "granted"}
             /\ connections[c].settings = SetConfig(r.user, r.workspace)

OneConnectionEach ==
  \A c, d \in Connections :
    connections[c].holder = connections[d].holder /\ connections[c].holder # Nobody => c = d

(* A request that has begun brought a token.                               *)
TokenNamed == \A r \in Requests : requests[r].pc # "idle" => requests[r].session \in Sessions

(* A request has a workspace exactly while, and after, it had a context,   *)
(* and sees nothing before its session is validated.                       *)
Fresh ==
  \A r \in Requests :
    /\ requests[r].pc \in {"idle", "validating", "validated"} => requests[r].workspace = Nobody
    /\ requests[r].pc \in {"opened", "granted"} => requests[r].workspace # Nobody
    /\ requests[r].pc \in {"idle", "validating"} => requests[r].seen = {}

(* A request that must stay out, and the reason that will stop it.         *)
StaleIsStopped ==
  \A r \in Requests :
    /\ requests[r].ended =>
         /\ requests[r].pc \in {"validating", "refused"}
         /\ requests[r].pc = "validating" => Ended(requests[r].session)
         /\ requests[r].seen = {}
    /\ requests[r].stranger =>
         /\ requests[r].pc \in {"opened", "refused", "failed", "done"}
         /\ requests[r].pc = "opened" => <<requests[r].user, requests[r].workspace>> \notin members

IsolationInv ==
  /\ RequestsTypeOK
  /\ SettingsFollowHolder
  /\ OneConnectionEach
  /\ TokenNamed
  /\ Fresh
  /\ IsolatedReads
  /\ StaleIsStopped

USE RequestsAssumption

LEMMA InitIsolated == RequestsInit => IsolationInv
  <1> SUFFICES ASSUME RequestsInit PROVE IsolationInv
    OBVIOUS
  <1>1. RequestsTypeOK
    BY DEF RequestsInit, RequestsTypeOK, Session, Connection, Settings, Unset, Request, NewRequest
  <1>2. SettingsFollowHolder /\ OneConnectionEach
    BY DEF RequestsInit, SettingsFollowHolder, OneConnectionEach
  <1>3. TokenNamed /\ Fresh /\ IsolatedReads /\ StaleIsStopped
    BY DEF RequestsInit, NewRequest, TokenNamed, Fresh, IsolatedReads, StaleIsStopped
  <1> QED
    BY <1>1, <1>2, <1>3 DEF IsolationInv

(* What the policies let through when the role obeys them, in a context    *)
(* and on a connection without settings.                                   *)
Admissible(row, u, w) ==
  \/ row.kind = "open" /\ row.workspace = Nobody
  \/ /\ w # Nobody
     /\ row.kind # "member"
     /\ row.kind # "user" => row.workspace = w
     /\ row.kind \in {"personal", "user"} => row.owner = u

LEMMA PoliciesIsolate ==
  ASSUME NEW kinds, NEW u, NEW w, w # Nobody
  PROVE  /\ \A settings : Visible(settings, kinds) \subseteq Rows
         /\ ~exempt => /\ \A row \in Visible(SetConfig(u, w), kinds) : Admissible(row, u, w)
                       /\ \A row \in Visible(Unset, kinds) :
                            row.kind = "open" /\ row.workspace = Nobody
BY DEF Visible, Tables, PolicyAdmits, OfWorkspace, OfUser, SetConfig, Unset, Admissible

(* Only revocations, suspensions and removals write the tables.            *)
LEMMA RequestsOnlyRead ==
  ASSUME NEW r \in Requests,
         \/ ValidateSession(r)
         \/ \E s \in Sessions : RequireUser(r, s)
         \/ \E c \in Connections :
              \/ \E w \in Workspaces : OpenContext(r, c, w) \/ OpenUnchecked(r, c, w)
              \/ VerifyMembership(r, c)
              \/ \E kinds \in Reads : Statement(r, c, kinds) \/ PlainStatement(r, c, kinds)
              \/ CloseContext(r, c)
  PROVE  UNCHANGED <<exempt, sessions, suspended, members>>
  <1>1. CASE ValidateSession(r) \/ \E s \in Sessions : RequireUser(r, s)
    BY <1>1 DEF ValidateSession, RequireUser
  <1>2. ASSUME NEW c \in Connections, NEW w \in Workspaces, OpenContext(r, c, w) \/ OpenUnchecked(r, c, w)
        PROVE  UNCHANGED <<exempt, sessions, suspended, members>>
    BY <1>2 DEF OpenContext, OpenUnchecked, Begin
  <1>3. ASSUME NEW c \in Connections, VerifyMembership(r, c) \/ CloseContext(r, c)
        PROVE  UNCHANGED <<exempt, sessions, suspended, members>>
    BY <1>3 DEF VerifyMembership, CloseContext
  <1>4. ASSUME NEW c \in Connections, NEW kinds \in Reads, Statement(r, c, kinds) \/ PlainStatement(r, c, kinds)
        PROVE  UNCHANGED <<exempt, sessions, suspended, members>>
    BY <1>4 DEF Statement, PlainStatement
  <1> QED
    BY <1>1, <1>2, <1>3, <1>4

(* A step of the tables, of a request, or none.                            *)
LEMMA KindsOfSteps ==
  ASSUME [RequestsNext]_requestVars
  PROVE  \/ \E s \in Sessions : RevokeSession(s) \/ \E u \in Users : CreateSession(s, u)
         \/ \E u \in Users : \/ RevokeAllUserSessions(u)
                             \/ Suspend(u)
                             \/ \E w \in Workspaces : RemoveMember(u, w)
         \/ UNCHANGED <<exempt, sessions, suspended, members>>
BY RequestsOnlyRead DEF RequestsNext, requestVars

LEMMA RoleIsFixed == [RequestsNext]_requestVars => exempt' = exempt
BY KindsOfSteps DEF CreateSession, RevokeSession, RevokeAllUserSessions, Suspend, RemoveMember

(* What opening a context writes into the request.                         *)
LEMMA Opened ==
  ASSUME NEW r, NEW c, NEW w, OpenContext(r, c, w) \/ OpenUnchecked(r, c, w)
  PROVE  \/ requests' = [requests EXCEPT ![r] = [requests[r] EXCEPT
              !.pc = "opened", !.workspace = w, !.stranger = <<requests[r].user, w>> \notin members]]
         \/ requests' = [requests EXCEPT ![r] = [requests[r] EXCEPT !.pc = "granted", !.workspace = w]]
BY DEF OpenContext, OpenUnchecked

LEMMA TypeStep == IsolationInv /\ [RequestsNext]_requestVars => RequestsTypeOK'
  <1> SUFFICES ASSUME IsolationInv, [RequestsNext]_requestVars PROVE RequestsTypeOK'
    OBVIOUS
  <1> USE DEF RequestsTypeOK
  <1>0. RequestsTypeOK /\ TokenNamed
    BY DEF IsolationInv
  <1>a. ASSUME NEW r \in Requests, NEW q \in Request, requests' = [requests EXCEPT ![r] = q]
        PROVE requests' \in [Requests -> Request]
    BY <1>0, <1>a
  <1>b. ASSUME NEW r \in Requests PROVE requests[r] \in Request
    BY <1>0
  <1>c. ASSUME NEW c \in Connections, Release(c) PROVE connections' \in [Connections -> Connection]
    BY <1>0, <1>c DEF Release, EndOfTx, Unset, Connection, Settings
  <1>d. ASSUME NEW r \in Requests, NEW c \in Connections,
               NEW pc \in {"failed", "refused", "done"}, EndWith(r, c, pc)
        PROVE requests' \in [Requests -> Request] /\ connections' \in [Connections -> Connection]
    BY <1>0, <1>c, <1>d DEF EndWith, Request
  <1>e. exempt' \in BOOLEAN
    BY <1>0, RoleIsFixed
  <1>v. \A settings, kinds : Visible(settings, kinds) \subseteq Rows
    BY DEF Visible, Tables
  <1>1. ASSUME NEW s \in Sessions, NEW u \in Users, CreateSession(s, u) PROVE RequestsTypeOK'
    BY <1>0, <1>e, <1>1 DEF CreateSession, Session
  <1>2. ASSUME NEW s \in Sessions, RevokeSession(s) PROVE RequestsTypeOK'
    BY <1>0, <1>e, <1>2 DEF RevokeSession, Session
  <1>3. ASSUME NEW u \in Users, RevokeAllUserSessions(u) PROVE RequestsTypeOK'
    BY <1>0, <1>e, <1>3 DEF RevokeAllUserSessions, Session
  <1>4. ASSUME NEW u \in Users, Suspend(u) PROVE RequestsTypeOK'
    BY <1>0, <1>e, <1>4 DEF Suspend
  <1>5. ASSUME NEW u \in Users, NEW w \in Workspaces, RemoveMember(u, w) PROVE RequestsTypeOK'
    BY <1>0, <1>e, <1>5 DEF RemoveMember
  <1>6. ASSUME NEW r \in Requests, NEW s \in Sessions, RequireUser(r, s) PROVE RequestsTypeOK'
    <2> DEFINE q == [requests[r] EXCEPT !.pc = "validating", !.session = s, !.ended = Ended(s)]
    <2>1. q \in Request
      BY <1>b DEF Ended, Request
    <2>2. requests' = [requests EXCEPT ![r] = q] /\ UNCHANGED <<sessions, suspended, members, connections>>
      BY <1>6 DEF RequireUser
    <2> QED
      BY <1>0, <1>a, <1>e, <2>1, <2>2
  <1>7. ASSUME NEW r \in Requests, ValidateSession(r) PROVE RequestsTypeOK'
    <2> DEFINE s == requests[r].session
               q == IF Good(s) THEN [requests[r] EXCEPT !.pc = "validated", !.user = sessions[s].user]
                    ELSE [requests[r] EXCEPT !.pc = "refused"]
    <2>1. s \in Sessions
      BY <1>0, <1>7 DEF ValidateSession, TokenNamed
    <2>2. sessions[s].user \in Users \cup {Nobody}
      BY <1>0, <2>1 DEF Session
    <2>3. q \in Request
      BY <1>b, <2>2 DEF Request
    <2>4. requests' = [requests EXCEPT ![r] = q] /\ UNCHANGED <<sessions, suspended, members, connections>>
      BY <1>7 DEF ValidateSession
    <2> QED
      BY <1>0, <1>a, <1>e, <2>3, <2>4
  <1>8. ASSUME NEW r \in Requests, NEW c \in Connections, NEW w \in Workspaces,
               OpenContext(r, c, w) \/ OpenUnchecked(r, c, w)
        PROVE RequestsTypeOK'
    <2>1. Begin(r, c, w)
      BY <1>8 DEF OpenContext, OpenUnchecked
    <2>2. connections' \in [Connections -> Connection]
      BY <1>0, <1>b, <2>1 DEF Begin, SetConfig, Request, Connection, Settings
    <2>3. requests' \in [Requests -> Request]
      <3> DEFINE p == [requests[r] EXCEPT !.pc = "opened", !.workspace = w,
                                          !.stranger = <<requests[r].user, w>> \notin members]
                 q == [requests[r] EXCEPT !.pc = "granted", !.workspace = w]
      <3>1. p \in Request /\ q \in Request
        BY <1>b DEF Request
      <3>2. requests' = [requests EXCEPT ![r] = p] \/ requests' = [requests EXCEPT ![r] = q]
        BY <1>8, Opened
      <3> QED
        BY <1>a, <3>1, <3>2
    <2> QED
      BY <1>0, <1>e, <2>1, <2>2, <2>3 DEF Begin
  <1>9. ASSUME NEW r \in Requests, NEW c \in Connections, VerifyMembership(r, c) PROVE RequestsTypeOK'
    <2>1. CASE \E pc \in {"failed", "refused"} : EndWith(r, c, pc)
      BY <1>0, <1>9, <1>d, <1>e, <2>1 DEF VerifyMembership
    <2>2. CASE requests' = [requests EXCEPT ![r].pc = "granted"] /\ UNCHANGED connections
      <3>1. requests' \in [Requests -> Request]
        BY <1>0, <2>2 DEF Request
      <3> QED
        BY <1>0, <1>9, <1>e, <2>2, <3>1 DEF VerifyMembership
    <2> QED
      BY <1>9, <2>1, <2>2 DEF VerifyMembership
  <1>10. ASSUME NEW r \in Requests, NEW c \in Connections, NEW kinds \in Reads, Statement(r, c, kinds)
         PROVE RequestsTypeOK'
    <2> DEFINE x == connections[c].settings
    <2>1. CASE EndWith(r, c, "failed")
      BY <1>0, <1>10, <1>d, <1>e, <2>1 DEF Statement
    <2>2. CASE requests' = [requests EXCEPT ![r].seen = @ \cup Visible(x, kinds)] /\ UNCHANGED connections
      <3>1. requests' \in [Requests -> Request]
        BY <1>0, <1>v, <2>2 DEF Request
      <3> QED
        BY <1>0, <1>10, <1>e, <2>2, <3>1 DEF Statement
    <2> QED
      BY <1>10, <2>1, <2>2 DEF Statement
  <1>11. ASSUME NEW r \in Requests, NEW c \in Connections, NEW kinds \in Reads, PlainStatement(r, c, kinds)
         PROVE RequestsTypeOK'
    <2>1. requests' \in [Requests -> Request]
      <3>1. CASE requests' = [requests EXCEPT ![r].pc = "failed"]
        BY <1>0, <3>1 DEF Request
      <3>2. CASE requests' = [requests EXCEPT ![r].seen = @ \cup Visible(connections[c].settings, kinds)]
        BY <1>0, <1>v, <3>2 DEF Request
      <3> QED
        BY <1>11, <3>1, <3>2 DEF PlainStatement
    <2> QED
      BY <1>0, <1>11, <1>e, <2>1 DEF PlainStatement
  <1>13. ASSUME NEW r \in Requests, NEW c \in Connections, CloseContext(r, c) PROVE RequestsTypeOK'
    BY <1>0, <1>13, <1>d, <1>e DEF CloseContext
  <1>12. CASE UNCHANGED requestVars
    BY <1>0, <1>e, <1>12 DEF requestVars
  <1> QED
    BY <1>1, <1>2, <1>3, <1>4, <1>5, <1>6, <1>7, <1>8, <1>9, <1>10, <1>11, <1>12, <1>13 DEF RequestsNext

(* A session that was ended stays ended, and a removed member removed.     *)
LEMMA EndedStaysEnded ==
  ASSUME IsolationInv, [RequestsNext]_requestVars, NEW s \in Sessions, Ended(s)
  PROVE  Ended(s)'
  <1> USE DEF Ended, Good
  <1>0. sessions \in [Sessions -> Session] /\ sessions[s].revoked \in BOOLEAN
    BY DEF IsolationInv, RequestsTypeOK, Session
  <1>1. ASSUME NEW t \in Sessions, NEW u \in Users, CreateSession(t, u) PROVE Ended(s)'
    BY <1>0, <1>1 DEF CreateSession, Session
  <1>2. ASSUME NEW t \in Sessions, RevokeSession(t) PROVE Ended(s)'
    BY <1>0, <1>2 DEF RevokeSession, Session
  <1>3. ASSUME NEW u \in Users, RevokeAllUserSessions(u) PROVE Ended(s)'
    BY <1>0, <1>3 DEF RevokeAllUserSessions, Session
  <1>4. ASSUME NEW u \in Users, Suspend(u) PROVE Ended(s)'
    BY <1>0, <1>4 DEF Suspend
  <1>5. CASE UNCHANGED <<sessions, suspended>>
    BY <1>5
  <1> QED
    BY <1>1, <1>2, <1>3, <1>4, <1>5, KindsOfSteps DEF RemoveMember

LEMMA MembersOnlyLeave == [RequestsNext]_requestVars => members' \subseteq members
  BY KindsOfSteps DEF CreateSession, RevokeSession, RevokeAllUserSessions, Suspend, RemoveMember

(* While requests and connections stand still, only the reasons to keep    *)
(* requests out can change, and they can only become stronger.             *)
LEMMA OthersStep ==
  IsolationInv /\ [RequestsNext]_requestVars /\ UNCHANGED <<connections, requests>> => IsolationInv'
  <1> SUFFICES ASSUME IsolationInv, [RequestsNext]_requestVars, UNCHANGED <<connections, requests>>
               PROVE  IsolationInv'
    OBVIOUS
  <1>1. RequestsTypeOK'
    BY TypeStep
  <1>2. (SettingsFollowHolder /\ OneConnectionEach /\ TokenNamed /\ Fresh /\ IsolatedReads)'
    BY RoleIsFixed DEF IsolationInv, SettingsFollowHolder, OneConnectionEach, TokenNamed, Fresh, IsolatedReads
  <1>3. StaleIsStopped'
    <2>1. \A r \in Requests : requests[r].pc = "validating" => requests[r].session \in Sessions
      BY DEF IsolationInv, TokenNamed
    <2> QED
      BY <2>1, EndedStaysEnded, MembersOnlyLeave DEF IsolationInv, StaleIsStopped
  <1> QED
    BY <1>1, <1>2, <1>3 DEF IsolationInv

LEMMA GuardStep ==
  ASSUME IsolationInv, [RequestsNext]_requestVars, NEW r \in Requests,
         ValidateSession(r) \/ \E s \in Sessions : RequireUser(r, s)
  PROVE  IsolationInv'
  <1>0. RequestsTypeOK' /\ requests \in [Requests -> Request]
    BY TypeStep DEF IsolationInv, RequestsTypeOK
  <1>1. /\ requests[r].pc \in {"idle", "validating"}
        /\ UNCHANGED <<exempt, sessions, suspended, members, connections>>
        /\ \A q \in Requests \ {r} : requests'[q] = requests[q]
    BY <1>0 DEF ValidateSession, RequireUser
  <1> DEFINE Begun == /\ requests'[r].pc \in {"validating", "validated", "refused"}
                      /\ requests'[r].session \in Sessions
                      /\ requests'[r].workspace = Nobody
                      /\ requests'[r].stranger = requests[r].stranger
                      /\ requests'[r].seen = {}
  <1>2. Begun
    <2>1. requests[r].seen = {} /\ requests[r].workspace = Nobody
      BY <1>1 DEF IsolationInv, Fresh
    <2>2. CASE ValidateSession(r)
      BY <1>0, <2>1, <2>2 DEF ValidateSession, IsolationInv, TokenNamed, Request
    <2>3. ASSUME NEW s \in Sessions, RequireUser(r, s)
          PROVE  Begun
      <3>1. requests' = [requests EXCEPT ![r] =
              [requests[r] EXCEPT !.pc = "validating", !.session = s, !.ended = Ended(s)]]
        BY <2>3 DEF RequireUser
      <3> QED
        BY <1>0, <2>1, <3>1 DEF Request
    <2> QED
      BY <2>2, <2>3
  <1>3. (SettingsFollowHolder /\ OneConnectionEach)'
    <2>1. \A c \in Connections : connections[c].holder # r
      BY <1>1 DEF IsolationInv, SettingsFollowHolder
    <2>2. \A c \in Connections : connections[c].holder \in Requests \cup {Nobody}
      BY DEF IsolationInv, RequestsTypeOK, Connection
    <2> QED
      BY <1>1, <2>1, <2>2 DEF IsolationInv, SettingsFollowHolder, OneConnectionEach
  <1>4. (TokenNamed /\ Fresh /\ IsolatedReads)'
    BY <1>0, <1>1, <1>2 DEF IsolationInv, TokenNamed, Fresh, IsolatedReads
  <1>s. ~requests'[r].stranger
    BY <1>1, <1>2 DEF IsolationInv, StaleIsStopped
  <1>5. StaleIsStopped'
    <2>1. CASE \E s \in Sessions : RequireUser(r, s)
      <3>1. PICK s \in Sessions : RequireUser(r, s)
        BY <2>1
      <3>2. requests'[r].ended = Ended(s) /\ requests'[r].session = s /\ requests'[r].pc = "validating"
        BY <1>0, <3>1 DEF RequireUser, Request
      <3>3. requests'[r].ended => Ended(s)'
        BY <1>1, <3>2 DEF Ended, Good
      <3> QED
        BY <1>1, <1>2, <1>s, <3>2, <3>3 DEF IsolationInv, StaleIsStopped, Ended, Good
    <2>2. CASE ValidateSession(r)
      <3>1. requests[r].pc = "validating" /\ requests'[r].ended = requests[r].ended
        BY <1>0, <2>2 DEF ValidateSession, Request
      <3>2. requests'[r].ended => requests'[r].pc = "refused"
        BY <1>0, <2>2, <3>1 DEF ValidateSession, Request, IsolationInv, StaleIsStopped, Ended
      <3> QED
        BY <1>1, <1>2, <1>s, <3>2 DEF IsolationInv, StaleIsStopped, Ended, Good
    <2> QED
      BY <2>1, <2>2
  <1> QED
    BY <1>0, <1>3, <1>4, <1>5 DEF IsolationInv

LEMMA OpenStep ==
  ASSUME IsolationInv, [RequestsNext]_requestVars, NEW r \in Requests, NEW c \in Connections,
         NEW w \in Workspaces, OpenContext(r, c, w) \/ OpenUnchecked(r, c, w)
  PROVE  IsolationInv'
  <1>0. /\ RequestsTypeOK' /\ requests \in [Requests -> Request]
        /\ connections \in [Connections -> Connection] /\ Begin(r, c, w)
    BY TypeStep DEF IsolationInv, RequestsTypeOK, OpenContext, OpenUnchecked
  <1>o. \/ requests' = [requests EXCEPT ![r] = [requests[r] EXCEPT
             !.pc = "opened", !.workspace = w, !.stranger = <<requests[r].user, w>> \notin members]]
        \/ requests' = [requests EXCEPT ![r] = [requests[r] EXCEPT !.pc = "granted", !.workspace = w]]
    BY Opened
  <1>1. /\ requests[r].pc = "validated" /\ connections[c].holder = Nobody
        /\ UNCHANGED <<exempt, sessions, suspended, members>>
        /\ \A q \in Requests \ {r} : requests'[q] = requests[q]
        /\ \A d \in Connections \ {c} : connections'[d] = connections[d]
    BY <1>0, <1>o DEF Begin, Free
  <1> DEFINE asks == <<requests[r].user, w>> \notin members
             p == [requests[r] EXCEPT !.pc = "opened", !.workspace = w, !.stranger = asks]
             q == [requests[r] EXCEPT !.pc = "granted", !.workspace = w]
  <1>p. requests'[r] = p \/ requests'[r] = q
    BY <1>0, <1>o
  <1>q. requests[r] \in Request /\ ~requests[r].ended /\ ~requests[r].stranger
    BY <1>0, <1>1 DEF IsolationInv, StaleIsStopped
  <1>r. /\ p.pc = "opened" /\ p.stranger = asks /\ q.pc = "granted" /\ q.stranger = requests[r].stranger
        /\ \A n \in {p, q} :
             /\ n.workspace = w /\ n.user = requests[r].user /\ n.session = requests[r].session
             /\ n.seen = requests[r].seen /\ n.ended = requests[r].ended
    BY <1>q DEF Request
  <1> HIDE DEF p, q
  <1>2. /\ requests'[r].pc \in {"opened", "granted"} /\ requests'[r].workspace = w
        /\ requests'[r].user = requests[r].user /\ requests'[r].session = requests[r].session
        /\ requests'[r].seen = requests[r].seen /\ requests'[r].ended = requests[r].ended
    BY <1>p, <1>r
  <1>3. /\ ~requests'[r].ended
        /\ requests'[r].stranger =>
             /\ requests'[r].pc = "opened"
             /\ <<requests'[r].user, requests'[r].workspace>> \notin members
    BY <1>2, <1>p, <1>q, <1>r
  <1>4. connections'[c].holder = r /\ connections'[c].settings = SetConfig(requests[r].user, w)
    BY <1>0 DEF Begin
  <1>5. \A d \in Connections : connections[d].holder # r /\ connections[d].holder \in Requests \cup {Nobody}
    BY <1>0, <1>1 DEF IsolationInv, SettingsFollowHolder, Connection
  <1>6. (SettingsFollowHolder /\ OneConnectionEach)'
    BY <1>1, <1>2, <1>4, <1>5 DEF IsolationInv, SettingsFollowHolder, OneConnectionEach
  <1>7. (TokenNamed /\ Fresh)'
    BY <1>1, <1>2 DEF IsolationInv, TokenNamed, Fresh
  <1>8. IsolatedReads'
    <2>1. ~exempt => \A row \in requests[r].seen : row.kind = "open" /\ row.workspace = Nobody
      BY <1>1 DEF IsolationInv, IsolatedReads, Fresh
    <2> QED
      BY <1>1, <1>2, <2>1 DEF IsolationInv, IsolatedReads
  <1>9. StaleIsStopped'
    BY <1>1, <1>3 DEF IsolationInv, StaleIsStopped, Ended, Good
  <1> QED
    BY <1>0, <1>6, <1>7, <1>8, <1>9 DEF IsolationInv

(* The end of a context, and the answer of its membership query.           *)
LEMMA ContextStep ==
  ASSUME IsolationInv, [RequestsNext]_requestVars, NEW r \in Requests, NEW c \in Connections,
         requests[r].pc \in {"opened", "granted"}, connections[c].holder = r,
         UNCHANGED <<exempt, sessions, suspended, members>>,
         \/ \E pc \in {"refused", "failed", "done"} : EndWith(r, c, pc)
         \/ /\ requests' = [requests EXCEPT ![r].pc = "granted"]
            /\ <<requests[r].user, requests[r].workspace>> \in members
            /\ UNCHANGED connections
  PROVE  IsolationInv'
  <1>0. /\ RequestsTypeOK' /\ requests \in [Requests -> Request]
        /\ connections \in [Connections -> Connection]
    BY TypeStep DEF IsolationInv, RequestsTypeOK
  <1>1. /\ \A q \in Requests \ {r} : requests'[q] = requests[q]
        /\ requests' = [requests EXCEPT ![r].pc = requests'[r].pc]
        /\ requests'[r].pc \in {"granted", "refused", "failed", "done"}
    BY <1>0 DEF EndWith, Request
  <1>2. /\ requests'[r].session = requests[r].session /\ requests'[r].seen = requests[r].seen
        /\ requests'[r].ended = requests[r].ended /\ requests'[r].stranger = requests[r].stranger
        /\ requests'[r].user = requests[r].user /\ requests'[r].workspace = requests[r].workspace
    BY <1>0, <1>1 DEF Request
  <1>3. \/ requests'[r].pc = "granted" /\ UNCHANGED connections
        \/ requests'[r].pc # "granted" /\ Release(c)
    BY <1>0 DEF EndWith, Request
  <1>4. r # Nobody /\ \A d \in Connections \ {c} : connections[d].holder \in (Requests \ {r}) \cup {Nobody}
    BY <1>0, <1>1 DEF IsolationInv, OneConnectionEach, Connection
  <1>5. (SettingsFollowHolder /\ OneConnectionEach)'
    <2>1. CASE requests'[r].pc = "granted" /\ UNCHANGED connections
      BY <1>1, <1>2, <1>4, <2>1 DEF IsolationInv, SettingsFollowHolder, OneConnectionEach
    <2>2. CASE requests'[r].pc # "granted" /\ Release(c)
      <3>1. /\ connections'[c].holder = Nobody /\ connections'[c].settings = Unset
            /\ \A d \in Connections \ {c} : connections'[d] = connections[d]
        BY <1>0, <2>2 DEF Release, EndOfTx
      <3> QED
        BY <1>1, <1>4, <3>1 DEF IsolationInv, SettingsFollowHolder, OneConnectionEach
    <2> QED
      BY <1>3, <2>1, <2>2
  <1>6. (TokenNamed /\ Fresh /\ IsolatedReads)'
    BY <1>1, <1>2 DEF IsolationInv, TokenNamed, Fresh, IsolatedReads
  <1>7. StaleIsStopped'
    <2>1. ~requests[r].ended
      BY DEF IsolationInv, StaleIsStopped
    <2>2. requests[r].stranger => requests'[r].pc # "granted"
      <3>1. requests[r].stranger => <<requests[r].user, requests[r].workspace>> \notin members
        BY DEF IsolationInv, StaleIsStopped
      <3> QED
        BY <1>0, <3>1 DEF EndWith, Request
    <2> QED
      BY <1>1, <1>2, <2>1, <2>2 DEF IsolationInv, StaleIsStopped, Ended, Good
  <1> QED
    BY <1>0, <1>5, <1>6, <1>7 DEF IsolationInv

(* Statements in a context see what is admissible to it; those on a free   *)
(* connection see what belongs to no workspace.                            *)
LEMMA ReadStep ==
  ASSUME IsolationInv, [RequestsNext]_requestVars, NEW r \in Requests, NEW c \in Connections,
         NEW kinds, UNCHANGED <<exempt, sessions, suspended, members, connections>>,
         requests' = [requests EXCEPT ![r].seen = @ \cup Visible(connections[c].settings, kinds)],
         \/ requests[r].pc = "granted" /\ connections[c].holder = r
         \/ requests[r].pc = "validated" /\ connections[c].holder = Nobody
  PROVE  IsolationInv'
  <1> DEFINE x == connections[c].settings
  <1>0. RequestsTypeOK' /\ requests \in [Requests -> Request]
    BY TypeStep DEF IsolationInv, RequestsTypeOK
  <1>2. /\ \A q \in Requests \ {r} : requests'[q] = requests[q]
        /\ requests'[r].pc = requests[r].pc
        /\ requests'[r].ended = requests[r].ended /\ requests'[r].stranger = requests[r].stranger
        /\ requests'[r].session = requests[r].session
        /\ requests'[r].user = requests[r].user /\ requests'[r].workspace = requests[r].workspace
        /\ requests'[r].seen = requests[r].seen \cup Visible(x, kinds)
    BY <1>0 DEF Request
  <1>3. \/ /\ requests[r].pc = "granted" /\ requests[r].workspace # Nobody
           /\ x = SetConfig(requests[r].user, requests[r].workspace)
        \/ requests[r].pc = "validated" /\ requests[r].workspace = Nobody /\ x = Unset
    BY DEF IsolationInv, SettingsFollowHolder, Fresh
  <1>5. ~requests[r].ended /\ (requests[r].stranger => requests[r].pc # "granted")
    BY <1>3 DEF IsolationInv, StaleIsStopped
  <1>6. (SettingsFollowHolder /\ OneConnectionEach /\ TokenNamed /\ Fresh)'
    <2>1. \A q \in Requests : /\ requests'[q].pc = requests[q].pc /\ requests'[q].session = requests[q].session
                              /\ requests'[q].user = requests[q].user
                              /\ requests'[q].workspace = requests[q].workspace
      BY <1>2
    <2>2. \A d \in Connections : connections[d].holder \in Requests \cup {Nobody}
      BY DEF IsolationInv, RequestsTypeOK, Connection
    <2>3. Fresh'
      BY <1>2, <1>3, <2>1 DEF IsolationInv, Fresh
    <2> QED
      BY <2>1, <2>2, <2>3 DEF IsolationInv, SettingsFollowHolder, OneConnectionEach, TokenNamed
  <1>8. IsolatedReads'
    <2>1. ~exempt => \A row \in Visible(x, kinds) : Admissible(row, requests[r].user, requests[r].workspace)
      <3>1. CASE requests[r].workspace # Nobody
        BY <1>3, <3>1, PoliciesIsolate
      <3>2. CASE x = Unset
        BY <3>2 DEF Visible, Tables, PolicyAdmits, OfWorkspace, OfUser, Unset, Admissible
      <3> QED
        BY <1>3, <3>1, <3>2
    <2>2. ~exempt => \A row \in requests[r].seen : Admissible(row, requests[r].user, requests[r].workspace)
      BY DEF IsolationInv, IsolatedReads, Admissible
    <2> QED
      BY <1>2, <2>1, <2>2 DEF IsolationInv, IsolatedReads, Admissible
  <1>9. StaleIsStopped'
    BY <1>2, <1>5 DEF IsolationInv, StaleIsStopped, Ended, Good
  <1> QED
    BY <1>0, <1>6, <1>8, <1>9 DEF IsolationInv

LEMMA StatementStep ==
  ASSUME IsolationInv, [RequestsNext]_requestVars, NEW r \in Requests, NEW c \in Connections,
         NEW kinds \in Reads, Statement(r, c, kinds) \/ PlainStatement(r, c, kinds)
  PROVE  IsolationInv'
  <1>1. CASE Statement(r, c, kinds)
    <2>1. CASE EndWith(r, c, "failed")
      BY <1>1, <2>1, ContextStep DEF Statement
    <2>2. CASE ~Fails(connections[c].settings, kinds)
      BY <1>1, <2>2, ReadStep DEF Statement
    <2> QED
      BY <1>1, <2>1, <2>2 DEF Statement
  <1>2. CASE PlainStatement(r, c, kinds)
    <2>1. connections[c].settings = Unset
      BY <1>2 DEF PlainStatement, Free, IsolationInv, SettingsFollowHolder
    <2>2. ~Fails(connections[c].settings, kinds)
      <3>1. \A w : <<Nobody, w>> \notin members
        BY DEF IsolationInv, RequestsTypeOK
      <3>2. connections[c].settings.user = Nobody
        BY <2>1 DEF Unset
      <3> QED
        BY <3>1, <3>2 DEF Fails, AppIsMemberFails
    <2>3. requests' = [requests EXCEPT ![r].seen = @ \cup Visible(connections[c].settings, kinds)]
      BY <1>2, <2>2 DEF PlainStatement
    <2> QED
      BY <1>2, <2>3, ReadStep DEF PlainStatement, Free
  <1> QED
    BY <1>1, <1>2

LEMMA IsolationStep == IsolationInv /\ [RequestsNext]_requestVars => IsolationInv'
  <1> SUFFICES ASSUME IsolationInv, [RequestsNext]_requestVars PROVE IsolationInv'
    OBVIOUS
  <1>1. CASE UNCHANGED <<connections, requests>>
    BY <1>1, OthersStep
  <1>2. ASSUME NEW r \in Requests, ValidateSession(r) \/ \E s \in Sessions : RequireUser(r, s) PROVE IsolationInv'
    BY <1>2, GuardStep
  <1>3. ASSUME NEW r \in Requests, NEW c \in Connections, NEW w \in Workspaces,
               OpenContext(r, c, w) \/ OpenUnchecked(r, c, w)
        PROVE IsolationInv'
    BY <1>3, OpenStep
  <1>4. ASSUME NEW r \in Requests, NEW c \in Connections, VerifyMembership(r, c) \/ CloseContext(r, c)
        PROVE IsolationInv'
    BY <1>4, ContextStep DEF VerifyMembership, CloseContext
  <1>5. ASSUME NEW r \in Requests, NEW c \in Connections, NEW kinds \in Reads,
               Statement(r, c, kinds) \/ PlainStatement(r, c, kinds)
        PROVE IsolationInv'
    BY <1>5, StatementStep
  <1> QED
    BY <1>1, <1>2, <1>3, <1>4, <1>5
       DEF RequestsNext, requestVars, CreateSession, RevokeSession, RevokeAllUserSessions, Suspend, RemoveMember

LEMMA AlwaysIsolated == RequestsSpec => []IsolationInv
  BY InitIsolated, IsolationStep, PTL DEF RequestsSpec

(* The state of the requests is well typed.                                *)
THEOREM RequestsTypeCorrect == RequestsSpec => []RequestsTypeOK
  <1> IsolationInv => RequestsTypeOK
    BY DEF IsolationInv
  <1> QED
    BY AlwaysIsolated, PTL

(* When the database role obeys the policies, a request sees in a context  *)
(* only what each kind of policy owes to its user and its workspace, and   *)
(* outside of one only what belongs to no workspace, whoever used its      *)
(* connection before and whether or not the context asked for the          *)
(* membership.                                                             *)
THEOREM ReadsIsolated == RequestsSpec => []IsolatedReads
  <1> IsolationInv => IsolatedReads
    BY DEF IsolationInv
  <1> QED
    BY AlwaysIsolated, PTL

(* A request that begins after a sign-out, a revocation or a suspension    *)
(* sees nothing, and one that comes after a removal is not let into a      *)
(* context that asks for the membership.                                   *)
THEOREM RevokedKeptOut == RequestsSpec => []RevokedStayOut
  <1> IsolationInv => RevokedStayOut
    BY DEF IsolationInv, StaleIsStopped, RevokedStayOut
  <1> QED
    BY AlwaysIsolated, PTL
=============================================================================
