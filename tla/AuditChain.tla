----------------------------- MODULE AuditChain -----------------------------
(***************************************************************************)
(* Sign-ins to one workspace (packages/auth signInWithPassword, after the  *)
(* password is verified) and the hash chain they write in table            *)
(* workspace_audit_events (packages/security audit-chain).                 *)
(*                                                                         *)
(* createSession and recordLogin commit on their own; the audit event is   *)
(* written in a transaction that takes an advisory lock on the workspace,  *)
(* reads the hash of the latest event and inserts a row linked to it.      *)
(* created_at is DEFAULT now(), the time the TRANSACTION STARTED, which is *)
(* before it waits for the lock.  The services of packages/workspaces      *)
(* insert events too, without the lock and without a hash.                 *)
(*                                                                         *)
(* The SHA-256 of an event is abstracted to the sign-in that wrote it:     *)
(* different events have different hashes.                                 *)
(***************************************************************************)
EXTENDS Naturals, Sequences

CONSTANTS
  SignIns,      \* the sign-ins of one behaviour
  Genesis,      \* GENESIS_HASH
  NoHash,       \* event_hash IS NULL
  NoOne,        \* the advisory lock is free
  MaxEvents     \* bound: unhashed events of the workspace services

ASSUME AuditChainAssumption ==
  /\ {Genesis, NoHash, NoOne} \cap SignIns = {}
  /\ Genesis # NoHash
  /\ MaxEvents \in Nat

VARIABLES
  clock,      \* the clock of the database, in the microseconds of now()
  log,        \* workspace_audit_events of the workspace, in commit order
  lock,       \* holder of pg_advisory_xact_lock(hashtext(workspace_id))
  pc,         \* where each sign-in is
  at,         \* start time of its transaction
  tail,       \* prevHash it read
  sessions,   \* sign-ins whose sessions row exists
  events      \* unhashed events so far

vars == <<clock, log, lock, pc, at, tail, sessions, events>>

Row   == [hash : SignIns \cup {NoHash}, prev : SignIns \cup {Genesis}, at : Nat]
Steps == {"start", "login", "begin", "lock", "read", "insert", "answer", "done", "failed"}
InTransaction == {"lock", "read", "insert"}
Ended == {"done", "failed"}

(* A workspace is born with its unhashed 'workspace.created' event.        *)
Init ==
  /\ clock = 1
  /\ log = <<[hash |-> NoHash, prev |-> Genesis, at |-> 0]>>
  /\ lock = NoOne
  /\ pc = [s \in SignIns |-> "start"]
  /\ at = [s \in SignIns |-> 0]
  /\ tail = [s \in SignIns |-> Genesis]
  /\ sessions = {}
  /\ events = 0

GoTo(s, step) == pc' = [pc EXCEPT ![s] = step]

-----------------------------------------------------------------------------
(* createSession: a commit of its own.                                     *)
CreateSession(s) ==
  /\ pc[s] = "start"
  /\ sessions' = sessions \cup {s}
  /\ GoTo(s, "login")
  /\ UNCHANGED <<clock, log, lock, at, tail, events>>

(* userRepo.recordLogin: another one.                                      *)
RecordLogin(s) ==
  /\ pc[s] = "login"
  /\ GoTo(s, "begin")
  /\ UNCHANGED <<clock, log, lock, at, tail, sessions, events>>

(* dbClient.tx: BEGIN fixes now().  Two transactions may start in the same *)
(* microsecond.                                                            *)
Begin(s) ==
  /\ pc[s] = "begin"
  /\ at' = [at EXCEPT ![s] = clock]
  /\ clock' \in {clock, clock + 1}
  /\ GoTo(s, "lock")
  /\ UNCHANGED <<log, lock, tail, sessions, events>>

(* Mutant: no advisory lock.                                               *)
AcquireNothing(s) ==
  /\ pc[s] = "lock"
  /\ GoTo(s, "read")
  /\ UNCHANGED <<clock, log, lock, at, tail, sessions, events>>

(* pg_advisory_xact_lock.                                                  *)
Acquire(s) ==
  /\ pc[s] = "lock"
  /\ lock = NoOne
  /\ lock' = s
  /\ GoTo(s, "read")
  /\ UNCHANGED <<clock, log, at, tail, sessions, events>>

(* ORDER BY created_at DESC LIMIT 1, over the committed rows: any of the   *)
(* rows that share the greatest created_at.                                *)
Latest(i) == \A j \in DOMAIN log : log[j].at <= log[i].at

HashOrGenesis(h) == IF h = NoHash THEN Genesis ELSE h

(* Mutant: the hash of an unhashed event is used as it is.                 *)
ReadTailRaw(s) ==
  /\ pc[s] = "read"
  /\ \E i \in DOMAIN log : Latest(i) /\ tail' = [tail EXCEPT ![s] = log[i].hash]
  /\ GoTo(s, "insert")
  /\ UNCHANGED <<clock, log, lock, at, sessions, events>>

ReadTail(s) ==
  /\ pc[s] = "read"
  /\ \E i \in DOMAIN log :
       /\ Latest(i)
       /\ tail' = [tail EXCEPT ![s] = HashOrGenesis(log[i].hash)]
  /\ GoTo(s, "insert")
  /\ UNCHANGED <<clock, log, lock, at, sessions, events>>

(* Mutant: a session-level lock, which survives the transaction.           *)
CommitKeepingLock(s) ==
  /\ pc[s] = "insert"
  /\ log' = Append(log, [hash |-> s, prev |-> tail[s], at |-> at[s]])
  /\ clock' = clock + 1
  /\ GoTo(s, "answer")
  /\ UNCHANGED <<lock, at, tail, sessions, events>>

(* Mutant: the event's own hash is stored as its prev_hash.                *)
CommitSelfLinked(s) ==
  /\ pc[s] = "insert"
  /\ log' = Append(log, [hash |-> s, prev |-> s, at |-> at[s]])
  /\ lock' = NoOne
  /\ clock' = clock + 1
  /\ GoTo(s, "answer")
  /\ UNCHANGED <<at, tail, sessions, events>>

(* INSERT and COMMIT: the row becomes visible, then the lock is released.  *)
(* Time passes: a transaction that starts later has a later now().         *)
Commit(s) ==
  /\ pc[s] = "insert"
  /\ log' = Append(log, [hash |-> s, prev |-> tail[s], at |-> at[s]])
  /\ lock' = NoOne
  /\ clock' = clock + 1
  /\ GoTo(s, "answer")
  /\ UNCHANGED <<at, tail, sessions, events>>

(* The answer, with the session token.                                     *)
Answer(s) ==
  /\ pc[s] = "answer"
  /\ GoTo(s, "done")
  /\ UNCHANGED <<clock, log, lock, at, tail, sessions, events>>

(* Mutant: an error of the audit transaction is swallowed.                 *)
FailSilently(s) ==
  /\ pc[s] \notin Ended \cup {"start"}
  /\ GoTo(s, IF pc[s] \in InTransaction THEN "done" ELSE "failed")
  /\ lock' = IF lock = s THEN NoOne ELSE lock
  /\ UNCHANGED <<clock, log, at, tail, sessions, events>>

(* A statement throws, or the process or the connection is lost: the       *)
(* transaction, if it was not committed, is rolled back and its lock       *)
(* released.  The session stays, and after the COMMIT the event, too.      *)
Fail(s) ==
  /\ pc[s] \notin Ended \cup {"start"}
  /\ GoTo(s, "failed")
  /\ lock' = IF lock = s THEN NoOne ELSE lock
  /\ UNCHANGED <<clock, log, at, tail, sessions, events>>

-----------------------------------------------------------------------------
(* workspaceService.update, archive, restore: an event without hash and    *)
(* without the lock, its prev_hash the column's default.                   *)
WorkspaceEvent ==
  /\ events < MaxEvents
  /\ events' = events + 1
  /\ log' = Append(log, [hash |-> NoHash, prev |-> Genesis, at |-> clock])
  /\ clock' = clock + 1
  /\ UNCHANGED <<lock, pc, at, tail, sessions>>

Step(s) ==
  \/ RecordLogin(s)
  \/ Begin(s)
  \/ Acquire(s)
  \/ ReadTail(s)
  \/ Commit(s)
  \/ Answer(s)

Next ==
  \/ \E s \in SignIns : CreateSession(s) \/ Step(s) \/ Fail(s)
  \/ WorkspaceEvent

Spec == Init /\ [][Next]_vars

(* The database executes the statements it is sent, and grants a free      *)
(* lock, and a sign-in that is not interrupted goes on; nothing else is    *)
(* fair.                                                                   *)
FairSpec == Spec /\ \A s \in SignIns : WF_vars(Step(s))

-----------------------------------------------------------------------------
Hashed(row) == row.hash # NoHash

(* Types: in particular a stored prev_hash is never NULL.                  *)
TypeOK ==
  /\ clock \in Nat
  /\ log \in Seq(Row)
  /\ lock \in SignIns \cup {NoOne}
  /\ pc \in [SignIns -> Steps]
  /\ at \in [SignIns -> Nat]
  /\ tail \in [SignIns -> SignIns \cup {Genesis}]
  /\ sessions \subseteq SignIns
  /\ events \in Nat

(* No dangling links: an event that names a predecessor names one that was *)
(* committed before it, never one whose transaction was rolled back.       *)
LinksResolve ==
  \A k \in DOMAIN log :
    Hashed(log[k]) /\ log[k].prev # Genesis => \E j \in 1..(k - 1) : log[j].hash = log[k].prev

(* The chain does not fork as long as sign-ins commit in the order in      *)
(* which their transactions started: a hashed event is linked to the last  *)
(* hashed event before it, or starts a new chain right after an unhashed   *)
(* event.  The advisory lock is what makes the tail still the tail when    *)
(* the INSERT runs.                                                        *)
InOrder == \A i, j \in DOMAIN log : i < j => log[i].at < log[j].at

Continues(rows, h, k) ==
  \/ \E j \in 1..(k - 1) :
       /\ Hashed(rows[j]) /\ rows[j].hash = h
       /\ \A i \in (j + 1)..(k - 1) : ~Hashed(rows[i])
  \/ h = Genesis /\ k > 1 /\ ~Hashed(rows[k - 1])

LinearInOrder ==
  InOrder => \A k \in DOMAIN log : Hashed(log[k]) => Continues(log, log[k].prev, k)

(* A sign-in that was answered has its session and exactly one event.  An  *)
(* event is the only one of its sign-in, which has a session and either    *)
(* was answered or was lost between the COMMIT and the answer: none stems  *)
(* from a sign-in that failed sooner.                                      *)
AnsweredSignInsAreRecorded ==
  \A s \in SignIns :
    LET rows == {k \in DOMAIN log : log[k].hash = s}
    IN  /\ pc[s] = "done" => rows # {}
        /\ rows # {} => s \in sessions /\ pc[s] \in {"answer"} \cup Ended
        /\ \A k, l \in rows : k = l

(* Every sign-in under way ends: the lock is always handed on.             *)
SignInsEnd == \A s \in SignIns : pc[s] # "start" ~> pc[s] \in Ended

(* verifyChain: the first event links to GENESIS_HASH and each other one   *)
(* to the one before it, in the order of created_at.                       *)
VerifyChain(chain) ==
  \A k \in chain :
    LET earlier == {i \in chain : log[i].at < log[k].at}
    IN IF earlier = {}
         THEN log[k].prev = Genesis
         ELSE \E i \in earlier : /\ \A j \in earlier : log[j].at <= log[i].at
                                 /\ log[k].prev = log[i].hash

(* The hashed events verify.  It is only asked for when no two events have *)
(* the same created_at.                                                    *)
DistinctTimes == \A i, j \in DOMAIN log : i # j => log[i].at # log[j].at

ChainVerifies == DistinctTimes => VerifyChain({k \in DOMAIN log : Hashed(log[k])})
=============================================================================
