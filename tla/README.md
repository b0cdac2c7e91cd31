# Verification of LifeOS: models, checks and proofs

TLA+ models of the concurrent core of this repository (paths below are relative
to its root), the TLC configurations that check them on small instances, and
proofs, checked by TLAPS, of their main theorems for every instance.

## 1. The system

LifeOS is a Next.js application (`apps/web`) over PostgreSQL. Its logic is in
`packages/*`; every piece of shared state is a table (`packages/db/migrations`),
reached through `DbClient` (`packages/db/src/postgres-adapter.ts`).

What makes it hard is always the same: **an HTTP request is a process, and
almost none of its reads and writes share a transaction.**
`withWorkspaceRoute` hands its handler `getDb(...)` under the name `tx`; that is
the pooled client, so each statement is a commit of its own and any other
request may run between two of them. Only `db.tx(...)`, PL/pgSQL functions and
single statements are atomic. Nothing retries, nothing recovers: a request that
dies leaves what it committed.

| Component | State | Operations | Interacts with | Hard because | Correct when |
|---|---|---|---|---|---|
| Workspaces (`packages/workspaces`) | `workspaces`, `workspace_memberships`, `workspace_invitations` | create, update, archive, restore, transferOwnership; updateRole, removeMember; invite, accept, decline | route guard (role read once), audit events | check-then-act over commits; crash before the audit event | exactly one owner, who alone can hand the workspace over; removals final; invitations single use |
| Route guard, permissions (`packages/route`, `auth-guard`, `permissions`) | none | requireUser, requireWorkspace, hasCapability | reads sessions and memberships before each handler | what it read is stale when used | no stale role breaks the owner |
| Sign-in and audit chain (`packages/auth`, `packages/security`) | `sessions`, `users.last_login_at`, `workspace_audit_events` | signInWithPassword, verifyChain | workspace services write the same table | three commits; advisory lock; `created_at` is the start of the transaction | no dangling link, no fork, answered means recorded |
| Rate limit (`packages/web-guards`) | `rate_limit_buckets` | withRateLimit around signin, signup | holds a pool connection while the handler takes another | no row, no lock; stale clock; pool exhaustion | lockouts earned, kept, and requests answered |
| AI quota (`packages/services/src/ai`, migration 0139) | `ai_usage_events`, limit in `workspaces` | reserve, complete, refund | row lock of the workspace | lookup before the lock; month boundary; retries | within the limit; one event per key; settled once |
| Sessions, OAuth state, sign-up (`packages/auth`) | `sessions`, `users.status`, `oauth_state_store` | create, validate, revoke one or all; consume a state | guard of every route; sign-out button | validated, then used later; FOR UPDATE outside a transaction | revoked means refused from then on; a used state refuses whoever comes later |
| Row level security (two functions `withWorkspaceContext`, migrations 0113-0117, 0122-0143, 0156, 0158) | two settings of a pooled connection | open, check membership, query, close | pool, policies | the connection served somebody else before; a policy that calls a function over its own table; one role obeys, another is exempt | each kind of policy shows what it owes to one's own context; revoked and removed stay out |
| Page tree (`packages/pages`, migration 0112) | `pages` | insert, move, archive; cycle test, depth repair | trigger on parent and depth | a move writes a depth read before another move | parents in the workspace; queries exact; (no cycle: violated) |
| Notes (`packages/services/src/notes`) | `notes`, `note_versions` | create, find, updateWithVersion, delete, listVersions | permissions | offline editors, repeated saves | no lost update, complete history |
| Expenses and budgets (`.../expenses`) | `expenses`, `budgets` | create with budget check, setBudget | permissions | sum, compare, insert under a row lock that may not exist | checked expenses stay within the budget |
| Tasks, habits, calendar, vault metadata, shares (`.../services/src`) | a soft-deleted table each | CRUD | permissions, generic repository | late edits, foreign identifiers | deleted stays deleted; own workspace and vault only |
| Check-ins, reviews, XP, imports; webhook nonces | append-only or merged rows | checkin, write, award, start; recordIfNew | permissions | repeated and reordered requests | nothing filled in is lost; a nonce serves once |
| Generic repository (`packages/repo`) | none | listByWorkspace, findById | all services | rows come and go between two pages | every row that stays, once |
| Web pages (`apps/web`) | session cookie, each tab's page state | forms, buttons, guarded pages | the routes | lost and late answers, several tabs | a signed-out cookie opens nothing |
| Offline helpers, vault crypto, CSRF/CSP, shared kernel, e-mail, worker, scripts | none shared | pure functions, rendering | - | - | not a question for these tools (section 5) |

`PROJECT.json` lists the components with their sources, and the hazards with the
line where each one bites.

## 2. The modules

| Module | Models | Role |
|---|---|---|
| `Ownership` | what the workspaces package promises | abstract: founded once, handed over in one step by the present owner to whom he offered it; the owner cannot leave, the removed do not return |
| `Workspaces` | `packages/workspaces` and its routes, one workspace | detailed; implements `Ownership` |
| `AuditChain` | `signInWithPassword` after the password check, `audit-chain.ts` | one workspace's chain |
| `RateLimit` | `withRateLimit` with the connection pool | one bucket key |
| `TokenLedger` | what `AiQuotaService` promises its callers | abstract: asked, granted in one step or answered with an earlier grant, settled |
| `AiQuota` | `AiQuotaService` over migration 0139 | one workspace's ledger; implements `TokenLedger` |
| `Actors` | `packages/permissions` | actors, roles, capabilities; used by the services below |
| `Notes` | note service and repository | notes, history, and the editors that hold copies |
| `Budgets` | expense service and repositories | one category of one workspace |
| `Records` | tasks, habits, events, vault metadata, shares, listing | five soft-deleted tables |
| `Journal` | check-ins, reviews, XP awards, import jobs | rows that are only added or merged |
| `Tokens` | OAuth states and webhook nonces | things to be used once |
| `PageTree` | `packages/pages` and the trigger of 0112 | the trees of several workspaces |
| `Requests` | `session.ts`, `requireUser`, `withWorkspaceContext`, the policies | what a request may see |
| `Browser` | the pages of `apps/web` and the routes they call | tabs, their requests, the shared cookie |
| `WorkspacesProofs`, `AuditChainProofs`, `RateLimitProofs`, `AiQuotaProofs`, `NotesProofs`, `PageTreeProofs`, `RequestsProofs` | theorems | each extends its module and TLAPS |
| `ContentProofs` | theorems about `Budgets`, `Tokens`, `Journal`, `Browser`, `Records` | one part per module |
| `MCContent` | the seven modules of the services and the browser, together | one active per behaviour |
| other `MC*` | instances for TLC | symmetry for `Workspaces`, `PageTree`, `Requests` |

Each operation whose comment starts with "Mutant" is a variation of
the one that follows, as a plausible bug would have it. It is in no behaviour;
it is there to show that a property notices (PROJECT.json, "mutants").

### Workspaces

Rows become functions of the user or the invitation: `role[u]`, `removed[u]`
(`removed_at IS NOT NULL`), `invite[i]`; the workspaces row is `phase` and
`ownerUser`. A request is a record `req[r]` with a program counter that names
the next **statement**:

    updateRole:   ReadRole -> CountOwners -> WriteRole     (to owner: WriteRole at once)
    removeMember: ReadRole -> CountOwners -> WriteRemoval
    update, archive, restore:  WriteX -> WriteAudit
    transferOwnership: Transfer;  invite: WriteInvite

Starting a request is `withWorkspaceRoute` (role and archival read once);
`PUT`/`DELETE workspaces/[id]` are the exception, since the guard may have looked
at another workspace than `params.id` (header or query): they assume no role
here. Accept and create are transactions, decline is one statement, and `Die`
ends a request anywhere. Faithful details that matter: accept ignores
`expires_at` and archival, the INSERT of accept fails when the user has a row,
even a removed one; `db.one` turns an UPDATE without a row into an error; restore
never looks at `archived_at`; the CHECK of 0108 refuses invitations to be owner;
the partial unique index refuses a second active owner.

`changes` and `joinedBy` are history variables: what was committed of each kind,
and with which invitation a user joined. `started` only bounds the behaviours.

`Promise` maps all this to `Ownership`: the active owner, each user's `Standing`
(outsider, member, removed), and as `Offers` the transfers under way, each from the
caller it will try to demote to its target. An offer can be made by the owner and
outlive his ownership; it must then come to nothing (`Lapse`). The refinement
therefore says more than that there is one owner: that no request of anybody but
the present owner ever moves the ownership, that it moves to the one he named,
that the old owner stays a member, and that people come and go one by one.

`transferOwnership` and `restore` have no route. Transfer is the one transaction
ADR 0009 demands of its caller. The constant `TransferRaces` says whether it may
commit while a membership edit is in flight: FALSE is the assumption under which
the owner is safe, TRUE shows why it is needed.

### AuditChain

`log` is the table in commit order, each row with its hash (abstracted to the
sign-in that wrote it: SHA-256 of different events differs), its `prev` and its
`created_at`. A sign-in runs `CreateSession`, `RecordLogin` (a commit each), then
`Begin` (fixes `now()`), `Acquire` (the advisory lock), `ReadTail`, `Commit`;
`Answer` follows the commit in a step of its own; `Fail` may strike anywhere: it
rolls back what is not committed, and after the COMMIT it leaves the event and the
session of a sign-in that nobody was told of. `WorkspaceEvent` is the unhashed,
unlocked insert of the workspace services. Two transactions may begin in the same
microsecond; a transaction that begins after a commit has a later time.

### RateLimit

A request reads the clock (`Arrive`), takes a connection (`Connect`), reads the
bucket FOR UPDATE (`Select`, which waits for the row if there is one and locks
nothing if there is none), is answered 429 or runs its handler, which takes a
second connection (`Query`, `Answer`), and then counts the outcome. `RecordFailure`
keeps the code's mixture: `attempts + 1` of the row as it *is*, window and lockout
computed from the row as it *was read*. A handler that throws rolls everything
back. The handler's own queries are abstracted to one checkout of a connection,
as it never holds two.

### AiQuota

`reserve_ai_usage` is one call but several statements, each with its own snapshot
(READ COMMITTED): `Lookup`, `LockWorkspace`, `CheckLimit`, `Insert`. `now()`, and
so the month, is fixed when the call begins. `Complete` and `Refund` are single
UPDATEs without the lock. `Lose` is a lost connection.

`TokenLedger` has none of this: a call asks, and in one step it is granted its
tokens, if the grants of the month it asked in leave room and its key has none, or
is answered with the grant of its key. `Asked` and `Grants` map the detailed state
to it: a call to what it asked, an event to what it was granted (at most what it
reserved). The step of the ledger is the INSERT, or the lookup that finds the key.

### Actors

`UserActor` and `SystemActor` are the two kinds of principal; `RoleCapabilities`
is the table of `capabilities.ts`. `AssertCapability` lets system actors do
everything, `MayAct` adds `actorUserId`, which refuses them. A service that
refuses changes nothing, so both are guards; `Records` models the refusals too,
with the code they answer.

### Notes

`notes[n]` is the row, `noteVersions` the history table, `editors[a]` what a
client holds: the copy it received last, the draft it wrote over it and the
version it will name. `NoteUpdate` is `updateWithVersion` when its UPDATE finds
the row (UPDATE and history row commit together), `NoteUpdateMisses` when it does
not, and `NoteProbe` the SELECT that then tells a conflict from a missing note;
between these two statements others commit. `answered` FALSE is a lost answer:
the client keeps its draft and its version and tries again. Editors are offline
simply by not taking a step.

### Budgets

`calls[c]` is a transaction of `createWithBudgetCheck`: `ExpenseBegin` up to its
`SELECT ... FOR UPDATE` (which waits for the holder, or finds no row in the
expense's currency and locks nothing), `ExpenseCheck` (sum and comparison),
`ExpenseInsert` (insert and commit), `ExpenseAbort`. `SetBudget` waits for the row
like any writer. `checked` is a history variable: of the month's sum, what passed
the check of the present budget. Expenses that no budget row serialises are left
out of it; that they escape the check is a finding.

### Records

`rows` holds the five tables, `answer` the answer to the last call. Each service
method is `Serve`: refused without the capability, NOT_FOUND without a live row
of the caller's workspace (and, for the vault, of the caller), and otherwise its
repository's one statement. `listing` is a client that goes through
`listByWorkspace` page by page while rows are created and deleted; `due` are the
tasks that were there when it began.

### Journal, Tokens

`Journal` has the unique key of check-ins, the COALESCE merge of reviews
(`Merge`), and the additions of XP and import jobs, which have no key and count
every repetition. `Tokens` has the callback in two commits (`CallbackCheck`,
`CallbackConsume`) with failures between and after them, and the nonce taken by an
INSERT before the work is done (`RecordIfNew`). The work, `Process`, is external:
the repository has `consumeOrThrow`, but no handler that calls it. `replay` remembers
whether the state had been accepted before the callback began.

### PageTree

`MoveBegin` runs the UPDATE of `movePage` up to its trigger, which reads the depth
of the new parent without a lock; `MoveCommit` writes what was read. In between
other pages, the new parent among them, may be moved. The move route and the
service have no other check. `assertNoCycle` and `recomputeSubtreeDepth`, which
nothing calls, are operators over the state, compared with a definition of their
own on every tree that arises.

### Requests

`CreateSession` does not ask for the status of the user: the sign-in facade read it
in an earlier statement, so a session can be created for a user suspended since;
`ValidateSession` must refuse it. A request names a session (`RequireUser`), has it
validated (`ValidateSession`) and opens a context on a free connection (`Begin`:
BEGIN and the two `set_config`s). There are two functions `withWorkspaceContext`:
that of `packages/auth` (`OpenContext`) asks for the membership before it runs its
callback (`VerifyMembership`), that of `packages/db` (`OpenUnchecked`) does not.
`Statement` reads what the policies let through for the settings of *that
connection*; `PlainStatement` is a route's statement outside of any context, on any
free connection.

`exempt` is chosen once: whether the database role obeys the policies, as ADR 0006
wants it, or is a superuser or has BYPASSRLS. The repository does not say. Every
row has a kind, after the USING clause of its table:

| kind | tables | shows |
|---|---|---|
| `workspace` | pages, tasks, notes and their versions, habits, expenses, budgets, events, AI usage, XP, reviews, imports, shares, push subscriptions, dead letters, audit logs, buckets, e-mails | rows of the current workspace |
| `personal` | vault items, device registry | of these, the current user's |
| `open` | csp_reports, oauth_state_store | rows of the current workspace or of none |
| `user` | csrf_tokens | rows of the current user's sessions |
| `member` | workspaces, memberships, invitations, workspace audit events | `app_is_member(workspace_id)`: nothing, or an error |

`app_is_member` (0113) reads `workspace_memberships`, whose policy (0116) calls
`app_is_member`; it is not SECURITY DEFINER and the policy is FORCEd (0114). For a
role that obeys the policies the call nests until the stack is exhausted as soon as
it meets an active membership of the current user (the leakproof comparisons with
the user and the workspace and the test of `removed_at` come first), and is false
when it meets none, as it does without settings. So a member's `VerifyMembership`
fails in that world (a finding), and his statements over the `member` tables fail
too (`AppIsMemberFails`, `Fails`). In the other world
nothing is filtered and `IsolatedReads` promises nothing: there the WHERE clauses
of the other modules are all that separates the workspaces.

`ended` and `stranger` are history variables of a request: its session was no
longer good when it began; its user was no member when it opened a context that
asks. `seen` are the rows its statements returned.

### Browser

A tab is the state of its page's component (`busy`, `oauthBusy`, `mode`, `notice`
are `loading`, `oauthLoading`, `mode`, `error`), the fetches it waits for and
where the router was sent. A request is sent with the cookie of that moment, is
carried out by a route, and is answered, lost (`GiveUp`) or outlives its tab
(`Abandon`, whose Set-Cookie may still be honoured). Routes that cannot succeed as
the code stands (sign-up, reset, onboarding, language) answer with the failure
they have; each is a finding.

## 3. Runs

| Run | Instance | Shows |
|---|---|---|
| `workspaces` | 3 users, 2 invitations, 2 requests at a time, 4 in all | all properties of `Workspaces`, and that it implements `Ownership`, with transfers kept apart from membership edits |
| `workspaces_transfer_race` | the same, transfers race | `ExactlyOneOwner` fails: the workspace is left without an owner |
| `audit_chain` | 3 sign-ins, 1 unhashed event | links resolve, no fork in order, answered is recorded and recorded is answered or failed late, sign-ins end |
| `audit_chain_overlap` | 2 sign-ins | `ChainVerifies` fails: the chain is out of the order it is read in |
| `rate_limit` | 3 requests, pool of 4, 2 attempts, 3 ticks | lockouts earned and kept, counts on the row read, requests answered |
| `rate_limit_first_failures` | 3 requests | `LockoutHolds` fails: a request that found no row lifts a lockout |
| `ai_quota` | 3 calls, 2 keys, 2 months, limit 2 | limit, idempotency, settlement, progress, and that it implements `TokenLedger` |
| `ai_quota_same_key` | 2 calls | the second call with a key reaches the INSERT with the key taken |
| `content` | see below; one service active per behaviour, 0.4 million states | the properties of `Notes`, `Budgets`, `Records`, `Journal`, `Tokens`, `Browser` |
| `page_tree` | 3 pages, 2 workspaces, 2 moves at a time, depth at most 2 | parents stay in the workspace; cycle test and depth repair are exact |
| `page_cycle` | the same | `Acyclic` fails: a page is moved below itself |
| `requests` | 2 users, 2 workspaces, 2 sessions, 2 requests, 2 connections, a row of every kind for everybody, both roles; 0.8 million states | reads isolated under the policies, revoked and removed kept out |

**Bounds, and why they are enough.** Two requests in flight meet in every pairwise
interleaving; four in all allow an invitation or a transfer before the race and
an edit after it; a third user is needed so that caller, target and new owner
differ. Three sign-ins (or requests, or calls) are one that holds a lock, one
that waits and one that comes late. `MaxAttempts = 2` makes a first failure, a
lockout, and a failure beside it; three ticks let a window of 1 and a lockout of
2 both expire. `MaxUsed = 2`, `MaxTokens = 2` and `Limit = 2` let a reservation
fill the limit, and a completion fall short of or exceed what was reserved.

`content` starts with a choice of the service that is active (`focus`): the
services share no variable, so nothing is lost by not interleaving them, and the
states add up instead of multiplying. `Filling` fixes columns of rows that do not
exist yet. Notes: one note, four actors in two workspaces (one of them a viewer,
one user in both), two drafts, versions up to 4: two editors on one version, a
conflict, a repeated save. Budgets: two transactions, two months, two
currencies, limits 1 and 2. Tasks: three, with page limits 0, 2 and 5 clamped to
1..2, so that a page boundary falls among them; where nobody lists, two tasks
are edited (`EditedTasks`). Tokens: three callbacks on two states and three
deliveries of two nonces: two that overlap and one that comes late. Browser: two
tabs, two tokens and three requests (sign in, sign out, and one beside them);
one tab (`FormTab`) goes through all the other forms with two requests. Three
pages make a chain or a cycle that is not trivial, and two moves meet on each of
its links. Two requests on two connections, served one after the other or at
once, are what an inherited setting needs.

Users, invitations, requests, pages, sessions and connections are
interchangeable where a run declares symmetry, and no property of such a run is a
liveness property. Deadlock is not checked: every behaviour ends
when its bounded supply of requests does.

**Fairness.** Only in the `FairSpec`s, and only weak fairness of the next step of
a request already under way: the database executes a statement it was sent and
grants a lock or the pool a connection that is free, and the handler answers.
Arrivals, failures, clock ticks, settlements and months are not fair. Weak
fairness is enough because each request makes finitely many steps and there are
finitely many requests; it does not claim a fair queue under endless arrivals.

**What the violations mean.** They are findings, with the lines they contradict,
in PROJECT.json. In short: the last-owner check needs a lock that the transfer
also takes; the chain should be ordered by something assigned under the lock; the
rate limiter should insert its row before locking it; `reserve` should look the
key up after taking the lock; `movePage` should call `assertNoCycle` under a lock
that orders the moves of a workspace, and `recomputeSubtreeDepth` after it;
`app_is_member` (a finding without a run) should be SECURITY DEFINER, owned by a
role that is exempt. The other findings there have no run: they are single statements or pages that
cannot do what they say, found while modelling them. One more has no run of its own: with
`Pool = Cardinality(Requests)` instead of one connection more, TLC reports that
`RequestsAreAnswered` fails, because every request holds a connection and waits
for a second one.

## 4. Proofs

All theorems hold for every value of the constants that satisfies the named
assumptions (`WorkspacesAssumption`, `AuditChainAssumption`,
`RateLimitAssumption`, `NoRowAssumption`, `AiQuotaAssumption`,
`NotesAssumption`, `BudgetsAssumption`, `RecordsAssumption`, `BrowserAssumption`,
`PageTreeAssumption`, `RequestsAssumption`, `MCContentAssumption`), which say no
more than that null values are not real ones, that bounds are numbers, that the
pages of the table are finitely many (`PageTreeAssumption`), and that the tasks
and the tab a run singles out are among its tasks and tabs (`MCContentAssumption`).

* `WorkspacesProofs`. `ExactlyOneOwner` is not inductive: an edit about to write
  might be aimed at the owner. The strengthening is `InFlightEditsSpareTheOwner`
  (also checked by TLC): the check lets a request through to its UPDATE only when
  the target is not the owner, and only a transfer could make it so, which
  `~TransferRaces` keeps away from edits in flight. From it follow
  `OneOwner`, `EditsSpareTheOwner` and the refinement `ImplementsOwnership`. That one
  takes each step apart by what it does to rows and to requests: a row is written
  by the last statement of an edit, which is never aimed at the owner
  (`StatementMoves`), by an accepted invitation, or by a transfer, which changes
  something only if its caller still is the owner; a request that starts adds an
  offer of the present owner (`StartedRequest`), one that finishes or dies takes
  its offer away unless another makes the same one (`FinishedRequest`).
  `TypeCorrect`, `NeverTwoOwners`,
  `RemovedStayOut` and `SingleUse` do not need the assumption on transfers.
  `TrailIsHonest` counts requests about to write an event by the cardinality
  theorems and so takes the set of requests to be finite: only `update`,
  `archive` and `restore` pass through the state in between, each with one change
  already counted.
* `AuditChainProofs`. The lock is held exactly by the transaction between
  `Acquire` and `Commit`; the tail a sign-in has read is therefore still the last
  event with the greatest `created_at` among the hashed ones when it inserts,
  as long as the table is in order. Gives `ChainTypeCorrect`, `NoDanglingLink`
  and `NoForkInOrder`. `AnsweredIsRecorded` rests on `Recorded`: a sign-in has an
  event, and just one, from its commit on, whether or not it is answered.
* `RateLimitProofs`. A request past `Select` that found a row holds the lock, and
  nobody else writes a row that is locked. Gives `LimitTypeCorrect`,
  `LockoutIsEarned`, `NoLostCount` and `LockoutKept`.
* `AiQuotaProofs`. The lock belongs to the call between `LockWorkspace` and the
  end of `Insert`; a call not yet answered has no event. Gives
  `LedgerTypeCorrect`, `Idempotent`, `ReservationsAreSerial`, `SettlementIsFinal`.
  `WithinLimit` is about a sum. It needs two facts more (`QuotaInvariant`): every
  call under way and every event has a month (`MonthsStamped`), and a call
  about to insert still has the room it saw (`RoomChecked`): only an INSERT takes
  room, only the holder of the lock inserts, and a settlement never raises what an
  event was granted, though it may raise what it is charged. With the laws of sums
  (`SumMonotone`, `SumAny`) this gives `QuotaIsKept`, and, as the guard of the
  abstract grant is `RoomChecked`, the refinement `ImplementsLedger`.
  `SettledOnce` is a theorem only: the run checks that `TokenLedger` is
  implemented, which settles a grant once.
* `NotesProofs`. `CopiesAreVersions`: an editor's copy is no newer than the note,
  and while it has the note's version it has the note's text; so the UPDATE that
  matches a version replaces the text that the author of the save
  held (`NoLostUpdate`). `DraftsAreUsed` and
  `SavedDraftsAreLate`: a draft that was saved was saved on the version its author
  still names, which the note has left, so a repetition matches nothing
  (`SavedOnce`). `HistoryIsComplete`: each version from 2 on is in the history once.
* `PageTreeProofs`. `TreeInv` with `MovesAreValid`: what the trigger accepted is
  still true at the commit, because rows never leave their workspace. Gives
  `PageTypeCorrect`, `ParentsInWorkspace` and `OnlyRootsAtZero`. `QueriesAreExact`
  is about the two recursive queries of `tree.ts`, on every tree without a cycle,
  whatever depths the moves have left in it: what round k of either query adds is
  what is k parents away
  (`RoundIsClimb`, `LevelIsClimb`); a page that is above another is so within as many
  steps as there are pages, because on the shortest way no page comes twice
  (`ClimbIsShort`); and the chain a move makes is the page and then the
  old chain of its new parent, until that meets the page (`MovedChain`).
* `RequestsProofs`. `IsolationInv`: a connection without a holder has no settings,
  one with a holder has those of its holder's context, what has ended stays
  ended, and the policies of all five kinds show for such settings only what they owe
  (`PoliciesIsolate`). A statement on a free connection never fails, because no
  membership is of nobody. Gives `RequestsTypeCorrect`, `ReadsIsolated` and `RevokedKeptOut`.
* `ContentProofs`. Budgets: the lock has one holder, the limit it read is in force
  until it ends (`OneHolder`), the sum includes what was checked
  (`SumCoversChecked`), and what passed still fits when it is inserted
  (`PassedStillFits`); so `BudgetHolds`. Tokens: an accepted state is consumed and
  a nonce taken is in the table (`TokensInv`); so `ReplaysAreRefused` and
  `NoncesAreUsedOnce`. Journal: the fields filled in only grow (`FieldsSurvive`).
  Browser: what was signed out is revoked for good, and a page asked for with it
  is still loading (`BrowserInv`); so `SignedOutIsOut`. Records: every step leaves
  each table alone or inserts, changes or deletes one row of the caller (`Good`);
  so `DeletedRowsStay` and `WorkspacesAreApart`. A listing that reads page after
  page has seen, up to its cursor, every row that was there when it began and
  still is, once each (`SeenUpToCursor`); a page is the rows of lowest rank
  beyond the cursor (`PageIsExact`), so no row is jumped over; so
  `SurvivorsAreSeen`. The composition runs each part as that part's specification
  says (`ContentRunsParts`), so that all these theorems hold of what TLC
  checks, and with them `ContentTypesCorrect`.

**Induction.** The induction theorems of the library have an operator as
parameter, which the provers cannot instantiate. Where a proof is about a sum, a
chain of parents or the rounds of a query, it takes a minimal counterexample
instead: a set of numbers or of finite sets that is not empty has a least element
(`NatLessThanWellFounded`, `FS_StrictSubsetOrderingWellFounded` with `WFMin`), given as a
set and not as a predicate (`SubsetInduction` in `AiQuotaProofs`, `NatInduct` and
`Least` in `PageTreeProofs`). That recursive functions
exist is shown the same way (`SumsExist`). The folds of the community modules are such
functions, and are expanded to them.

**Only model-checked:** the liveness properties `SignInsEnd`,
`RequestsAreAnswered` and `CallsEnd`, which are out of the prover's reach (fairness
and ENABLED), and the violations, which are facts about one behaviour. Every
invariant and every action property of the passing runs is a theorem.

## 5. Not modelled

* Password reset, magic link and e-mail verification: `requestPasswordReset` and
  `resetPassword` name columns that migration 0103 does not have, so they throw and
  change nothing; the routes are stubs.
* `createPage` always fails (a finding), and a change of a page's title touches
  nothing the tree depends on.
* The savepoints of a nested `tx`: no caller nests one. `transferOwnership` outside
  a transaction: nothing calls it so.
* Row level security in the modules of the services: the routes never open the
  context the policies need, so each statement is taken with its own WHERE clause,
  as it runs for a role that is exempt; for one that obeys the policies the routes'
  own statements find nothing. Of the policies, the WITH CHECK clauses, and that of
  0203, which reads settings nothing sets and casts them to UUID.
* `SigninForm`, `SignupForm`, `Captcha`, `PasswordStrength` and `useSession` of
  `packages/auth-ui`: no page shows or calls them. The service worker caches
  nothing; the middleware sets headers.
* Offline helpers: the repository builds outbox records and computes delays, but
  has no code that queues, flushes or retries. The repetitions a client makes are
  part of `Notes` and `Journal`.
* Password hashing, CSRF, CSP, encryption, e-mail, formatting and the validation of
  bodies: pure functions of one request.
* The worker does nothing; the scripts are linters; the migration runner is
  sequential and imports a `db` that `packages/db` does not export.

## 6. Possible extensions

Liveness of the web pages under a network that answers; the composition of
`Requests` with `RateLimit` and `AuditChain` as one sign-in; an abstract
specification of the notes and of the budget in the manner of `TokenLedger`.
