------------------------------- MODULE Records -------------------------------
(***************************************************************************)
(* The soft-deleted records of a workspace: tasks, habits, calendar events,*)
(* vault items and public shares (packages/services/src), and the listing  *)
(* of tasks page by page (packages/repo).  A service checks the capability *)
(* and calls its repository, whose every method is one statement that      *)
(* names the row, the workspace of the caller and is_deleted = false.      *)
(* Calls interleave, each being one statement, and a listing goes on while *)
(* rows come and go.  Every call is answered, refusals included.           *)
(***************************************************************************)
EXTENDS Integers, FiniteSets, Actors

CONSTANTS
  TaskIds,      \* identifiers of tasks, in the order of the text column
  OtherIds,     \* identifiers of the other tables
  Statuses,     \* the statuses of tasks that are told apart
  PageLimits,   \* the limits clients ask for
  MaxPage       \* the largest page, 200 in the code

ASSUME RecordsAssumption ==
  /\ TaskIds \subseteq Nat \ {0}
  /\ {"todo", "done"} \subseteq Statuses
  /\ PageLimits \subseteq Int
  /\ MaxPage \in Nat \ {0}

VARIABLES
  rows,      \* the five tables, each from identifiers to rows
  answer,    \* what the last call was answered
  listing    \* one client going through the tasks of its workspace

recordsVars == <<rows, answer, listing>>

Workspaces == {a.workspace : a \in Actors}
Users      == {a.user : a \in Actors}
Times      == {1, 2}
Titles     == {"first", "second"}
Null       == "null"

(* The columns the statements test or a call changes.                      *)
TaskRow   == [workspaceId : Workspaces, isDeleted : BOOLEAN, status : Statuses, completedAt : BOOLEAN,
              title : Titles, dueAt : {Null, "due"}]
HabitRow  == [workspaceId : Workspaces, isDeleted : BOOLEAN]
EventRow  == {e \in [workspaceId : Workspaces, isDeleted : BOOLEAN, startsAt : Times, endsAt : Times] :
                e.endsAt > e.startsAt}                                      \* chk_event_time
VaultRow  == [workspaceId : Workspaces, isDeleted : BOOLEAN, ownerUserId : Users]
ShareRow  == [workspaceId : Workspaces, isDeleted : BOOLEAN]   \* revoked_at, for is_deleted

(* What mapRow makes of a row for the client: is_deleted stays behind.     *)
Task(i, r)          == [id |-> i, workspaceId |-> r.workspaceId, status |-> r.status,
                        completedAt |-> r.completedAt]
Habit(i, r)         == [id |-> i, workspaceId |-> r.workspaceId]
CalendarEvent(i, r) == [id |-> i, workspaceId |-> r.workspaceId, startsAt |-> r.startsAt, endsAt |-> r.endsAt]
VaultItemMeta(i, r) == [id |-> i, workspaceId |-> r.workspaceId, ownerUserId |-> r.ownerUserId]
PublicShare(i, r)   == [id |-> i, workspaceId |-> r.workspaceId]

Nothing == [id |-> 0]
Nobody  == [workspace |-> {}]

Listing == [pc : {"idle", "paging", "complete"}, workspace : Workspaces, limit : 1..MaxPage,
            cursor : TaskIds \cup {0}, due : SUBSET TaskIds, seen : [TaskIds -> Nat]]

IsTable(t, ids, Row) == DOMAIN t \subseteq ids /\ \A i \in DOMAIN t : t[i] \in Row

RecordsTypeOK ==
  /\ IsTable(rows.tasks, TaskIds, TaskRow)
  /\ IsTable(rows.habits, OtherIds, HabitRow)
  /\ IsTable(rows.events, OtherIds, EventRow)
  /\ IsTable(rows.vaultItems, OtherIds, VaultRow)
  /\ IsTable(rows.shares, OtherIds, ShareRow)
  /\ answer.code \in {"none", "ok", "AUTH_FORBIDDEN", "NOT_FOUND", "CALENDAR_TIME_INVALID"}
  /\ listing \in Listing

Empty == [i \in {} |-> Nothing]

RecordsInit ==
  /\ rows = [tasks |-> Empty, habits |-> Empty, events |-> Empty, vaultItems |-> Empty, shares |-> Empty]
  /\ answer = [to |-> Nobody, code |-> "none", entity |-> Nothing]
  /\ \E w \in Workspaces :
       listing = [pc |-> "idle", workspace |-> w, limit |-> 1, cursor |-> 0,
                  due |-> {}, seen |-> [i \in TaskIds |-> 0]]

-----------------------------------------------------------------------------
(* Mutant: a statement without is_deleted = false.                         *)
IsThere(table, i, w) == i \in DOMAIN table /\ table[i].workspaceId = w

(* WHERE id = $1 AND workspace_id = $2 AND is_deleted = false.             *)
IsLive(table, i, w) == i \in DOMAIN table /\ table[i].workspaceId = w /\ ~table[i].isDeleted

(* ... AND owner_user_id = $3.                                             *)
IsOwned(table, i, w, user) == IsLive(table, i, w) /\ table[i].ownerUserId = user

(* INSERT under an identifier newUlid has not given before.                *)
Inserted(table, i, row) == [j \in DOMAIN table \cup {i} |-> IF j = i THEN row ELSE table[j]]
Unused(table, ids)      == ids \ DOMAIN table

SoftDeleted(table, i) == [table EXCEPT ![i].isDeleted = TRUE]

Answer(a, code, entity) ==
  /\ answer' = [to |-> a, code |-> code, entity |-> entity]
  /\ UNCHANGED listing

Refuse(a, code) == Answer(a, code, Nothing) /\ UNCHANGED rows

(* A service method: without the capability it throws before it touches    *)
(* anything; its repository finds a row and works on it, or NOT_FOUND.     *)
Serve(a, allowed, found, entity, Work) ==
  IF ~allowed THEN Refuse(a, "AUTH_FORBIDDEN")
  ELSE IF ~found THEN Refuse(a, "NOT_FOUND")
  ELSE Work /\ Answer(a, "ok", entity)

-----------------------------------------------------------------------------
(* TaskRepo.  The columns create does not name take their defaults.        *)
NewTask(w) ==
  [workspaceId |-> w, isDeleted |-> FALSE, status |-> "todo", completedAt |-> FALSE,
   title |-> "first", dueAt |-> Null]

TaskRepoCreate(i, w) == rows' = [rows EXCEPT !.tasks = Inserted(@, i, NewTask(w))]

(* completed_at is set by a change to 'done', also of a task that is done  *)
(* already, and cleared by every other one.                                *)
WithStatus(row, status) == [row EXCEPT !.status = status, !.completedAt = (status = "done")]

TaskRepoUpdateStatus(i, status) == rows' = [rows EXCEPT !.tasks[i] = WithStatus(@, status)]

TaskRepoSoftDelete(i) == rows' = [rows EXCEPT !.tasks = SoftDeleted(@, i)]

(* A patch is a function on the fields it has: a null title keeps the old  *)
(* one (COALESCE), a null due date that is in the patch clears it.         *)
Patches == UNION {[fields -> {Null, "second", "due"}] : fields \in SUBSET {"title", "dueAt"}}

WithPatch(row, patch) ==
  [row EXCEPT !.title = IF "title" \in DOMAIN patch /\ patch.title # Null THEN "second" ELSE @,
              !.dueAt = IF "dueAt" \in DOMAIN patch THEN IF patch.dueAt = Null THEN Null ELSE "due" ELSE @]

(* update: TaskService does not offer it; a caller would bring the         *)
(* workspace of its actor.                                                 *)
TaskRepoUpdate(a, i, patch) ==
  Serve(a, TRUE, IsLive(rows.tasks, i, a.workspace), Task(i, WithPatch(rows.tasks[i], patch)),
        rows' = [rows EXCEPT !.tasks[i] = WithPatch(@, patch)])

(* TaskService.                                                            *)
TaskCreate(a, i) ==
  /\ i \in Unused(rows.tasks, TaskIds)
  /\ Serve(a, MayAct(a, "task:create"), TRUE, Task(i, NewTask(a.workspace)), TaskRepoCreate(i, a.workspace))

TaskGetById(a, i) ==
  Serve(a, AssertCapability(a, "task:update"), IsLive(rows.tasks, i, a.workspace),
        Task(i, rows.tasks[i]), UNCHANGED rows)

TaskUpdateStatus(a, i, status) ==
  Serve(a, AssertCapability(a, "task:update"), IsLive(rows.tasks, i, a.workspace),
        Task(i, WithStatus(rows.tasks[i], status)), TaskRepoUpdateStatus(i, status))

TaskDelete(a, i) ==
  Serve(a, AssertCapability(a, "task:delete"), IsLive(rows.tasks, i, a.workspace),
        Nothing, TaskRepoSoftDelete(i))

-----------------------------------------------------------------------------
(* HabitRepo and HabitService.                                             *)
NewHabit(w) == [workspaceId |-> w, isDeleted |-> FALSE]

HabitRepoCreate(i, w)  == rows' = [rows EXCEPT !.habits = Inserted(@, i, NewHabit(w))]
HabitRepoSoftDelete(i) == rows' = [rows EXCEPT !.habits = SoftDeleted(@, i)]

HabitCreate(a, i) ==
  /\ i \in Unused(rows.habits, OtherIds)
  /\ Serve(a, MayAct(a, "habit:create"), TRUE, Habit(i, NewHabit(a.workspace)), HabitRepoCreate(i, a.workspace))

HabitDelete(a, i) ==
  Serve(a, AssertCapability(a, "habit:delete"), IsLive(rows.habits, i, a.workspace),
        Nothing, HabitRepoSoftDelete(i))

-----------------------------------------------------------------------------
(* CalendarRepo and CalendarService.                                       *)
NewEvent(w, startsAt, endsAt) ==
  [workspaceId |-> w, isDeleted |-> FALSE, startsAt |-> startsAt, endsAt |-> endsAt]

CalendarRepoCreate(i, w, startsAt, endsAt) ==
  rows' = [rows EXCEPT !.events = Inserted(@, i, NewEvent(w, startsAt, endsAt))]

CalendarRepoSoftDelete(i) == rows' = [rows EXCEPT !.events = SoftDeleted(@, i)]

(* The times are compared after the capability and before actorUserId.     *)
CalendarCreate(a, i, startsAt, endsAt) ==
  /\ i \in Unused(rows.events, OtherIds)
  /\ IF AssertCapability(a, "calendar:create") /\ endsAt <= startsAt
     THEN Refuse(a, "CALENDAR_TIME_INVALID")
     ELSE Serve(a, MayAct(a, "calendar:create"), TRUE,
                CalendarEvent(i, NewEvent(a.workspace, startsAt, endsAt)),
                CalendarRepoCreate(i, a.workspace, startsAt, endsAt))

CalendarGetById(a, i) ==
  Serve(a, AssertCapability(a, "calendar:update"), IsLive(rows.events, i, a.workspace),
        CalendarEvent(i, rows.events[i]), UNCHANGED rows)

CalendarDelete(a, i) ==
  Serve(a, AssertCapability(a, "calendar:delete"), IsLive(rows.events, i, a.workspace),
        Nothing, CalendarRepoSoftDelete(i))

-----------------------------------------------------------------------------
(* VaultMetaRepo and VaultMetaService: the items of a member are out of    *)
(* reach for everybody else, owners and admins of the workspace included.  *)
NewVaultItem(w, user) == [workspaceId |-> w, isDeleted |-> FALSE, ownerUserId |-> user]

VaultRepoCreate(i, w, user)   == rows' = [rows EXCEPT !.vaultItems = Inserted(@, i, NewVaultItem(w, user))]
VaultRepoSoftDeleteOwned(i)   == rows' = [rows EXCEPT !.vaultItems = SoftDeleted(@, i)]

(* Mutant: the repository's findById, which every other service uses.      *)
VaultRepoFindById(a, i) == IsLive(rows.vaultItems, i, a.workspace)

VaultRepoFindByIdAndOwner(a, i) == IsOwned(rows.vaultItems, i, a.workspace, a.user)

VaultCreateMeta(a, i) ==
  /\ i \in Unused(rows.vaultItems, OtherIds)
  /\ Serve(a, MayAct(a, "vault:create-meta"), TRUE, VaultItemMeta(i, NewVaultItem(a.workspace, a.user)),
           VaultRepoCreate(i, a.workspace, a.user))

VaultGetMeta(a, i) ==
  Serve(a, MayAct(a, "vault:read-meta"), VaultRepoFindByIdAndOwner(a, i),
        VaultItemMeta(i, rows.vaultItems[i]), UNCHANGED rows)

VaultDelete(a, i) ==
  Serve(a, MayAct(a, "vault:create-meta"), IsOwned(rows.vaultItems, i, a.workspace, a.user),
        Nothing, VaultRepoSoftDeleteOwned(i))

-----------------------------------------------------------------------------
(* PublicShareRepo and PublicShareService: the row has the hash of a token *)
(* that only the answer to create carries.                                 *)
NewShare(w) == [workspaceId |-> w, isDeleted |-> FALSE]

ShareRepoCreate(i, w) == rows' = [rows EXCEPT !.shares = Inserted(@, i, NewShare(w))]
ShareRepoRevoke(i)    == rows' = [rows EXCEPT !.shares = SoftDeleted(@, i)]

ShareCreate(a, i) ==
  /\ i \in Unused(rows.shares, OtherIds)
  /\ Serve(a, MayAct(a, "share:create"), TRUE, PublicShare(i, NewShare(a.workspace)),
           ShareRepoCreate(i, a.workspace))

ShareRevoke(a, i) ==
  Serve(a, AssertCapability(a, "share:revoke"), IsLive(rows.shares, i, a.workspace),
        Nothing, ShareRepoRevoke(i))

-----------------------------------------------------------------------------
(* Math.min(Math.max(limit, 1), 200).                                      *)
PageSize(limit) == IF limit < 1 THEN 1 ELSE IF limit > MaxPage THEN MaxPage ELSE limit

(* TaskService.list: a client starts to list, with no cursor.  due: what   *)
(* is there by then.                                                       *)
TaskListStart(a, limit) ==
  /\ AssertCapability(a, "task:update")
  /\ listing.pc = "idle"
  /\ listing' = [pc |-> "paging", workspace |-> a.workspace, limit |-> PageSize(limit), cursor |-> 0,
                 due |-> {i \in TaskIds : IsLive(rows.tasks, i, a.workspace)}, seen |-> [i \in TaskIds |-> 0]]
  /\ UNCHANGED <<rows, answer>>

(* The first n of a set of identifiers.                                    *)
First(ids, n) == {i \in ids : Cardinality({j \in ids : j < i}) < n}

(* Mutant: the row of the cursor is listed again.                           *)
AfterInclusive(cursor) == {i \in TaskIds : IsLive(rows.tasks, i, listing.workspace) /\ i >= cursor}

(* The rows after the cursor.                                              *)
After(cursor) == {i \in TaskIds : IsLive(rows.tasks, i, listing.workspace) /\ i > cursor}

NextCursor(items, more) == IF more THEN CHOOSE i \in items : \A j \in items : j <= i ELSE 0

(* listByWorkspace: one row more than a page tells whether there is a next *)
(* page, whose cursor is the last row of this one.                         *)
TaskListPage ==
  LET left  == First(After(listing.cursor), listing.limit + 1)
      items == First(left, listing.limit)
      more  == Cardinality(left) > listing.limit
  IN  /\ listing.pc = "paging"
      /\ listing' = [listing EXCEPT !.cursor = NextCursor(items, more),
                                    !.pc = IF more THEN "paging" ELSE "complete",
                                    !.seen = [i \in TaskIds |-> @[i] + IF i \in items THEN 1 ELSE 0]]
      /\ UNCHANGED <<rows, answer>>

-----------------------------------------------------------------------------
TaskOps(a, i) == TaskCreate(a, i) \/ TaskDelete(a, i)

TaskEdits(a, i) ==
  \/ TaskGetById(a, i)
  \/ \E status \in Statuses : TaskUpdateStatus(a, i, status)
  \/ \E patch \in Patches : TaskRepoUpdate(a, i, patch)

OtherOps(a, i) ==
  \/ HabitCreate(a, i) \/ HabitDelete(a, i)
  \/ \E startsAt, endsAt \in Times : CalendarCreate(a, i, startsAt, endsAt)
  \/ CalendarGetById(a, i) \/ CalendarDelete(a, i)
  \/ VaultCreateMeta(a, i) \/ VaultGetMeta(a, i) \/ VaultDelete(a, i)
  \/ ShareCreate(a, i) \/ ShareRevoke(a, i)

ListOps == (\E a \in Actors, limit \in PageLimits : TaskListStart(a, limit)) \/ TaskListPage

RecordsNext ==
  \/ \E a \in Actors, i \in TaskIds : TaskOps(a, i) \/ TaskEdits(a, i)
  \/ \E a \in Actors, i \in OtherIds : OtherOps(a, i)
  \/ ListOps

RecordsSpec == RecordsInit /\ [][RecordsNext]_recordsVars

-----------------------------------------------------------------------------
TableNames == DOMAIN rows

(* An edit that arrives late does not bring back or touch a deleted row,   *)
(* and no row ever goes away.                                              *)
DeletedStaysDeleted ==
  [][\A t \in TableNames : \A i \in DOMAIN rows[t] :
       /\ i \in DOMAIN rows'[t]
       /\ rows[t][i].isDeleted => rows'[t][i] = rows[t][i]]_recordsVars

(* An answered entity is of the caller's workspace, and one that has an    *)
(* owner (the metadata of a vault item) is the caller's own.               *)
BelongsTo(a, entity) ==
  entity # Nothing =>
    /\ entity.workspaceId = a.workspace
    /\ "ownerUserId" \in DOMAIN entity => entity.ownerUserId = a.user

(* Whatever a call changes, and whatever entity it is answered, is of the  *)
(* caller's workspace, and of the vault the caller's own; a refused call   *)
(* changes nothing.                                                        *)
OwnWorkspaceOnly ==
  [][LET a == answer'.to
         Reaches(t, row) == row.workspaceId = a.workspace /\ (t = "vaultItems" => row.ownerUserId = a.user)
     IN  /\ rows' # rows => answer'.code = "ok"
         /\ \A t \in TableNames : \A i \in DOMAIN rows'[t] :
              \/ i \in DOMAIN rows[t] /\ rows'[t][i] = rows[t][i]
              \/ /\ Reaches(t, rows'[t][i])
                 /\ i \in DOMAIN rows[t] => Reaches(t, rows[t][i])
         /\ BelongsTo(a, answer'.entity)]_recordsVars

(* A listing that went through to the end, whatever was created or deleted *)
(* between its pages, has returned no task twice, and every task that was  *)
(* there all along.                                                        *)
ListingSeesSurvivors ==
  listing.pc # "idle" =>
    /\ \A i \in TaskIds : listing.seen[i] <= 1
    /\ listing.pc = "complete" =>
         \A i \in listing.due : IsLive(rows.tasks, i, listing.workspace) => listing.seen[i] = 1
=============================================================================
