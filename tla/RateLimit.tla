----------------------------- MODULE RateLimit ------------------------------
(***************************************************************************)
(* withRateLimit (packages/web-guards) around an authentication handler,   *)
(* for one bucket key, with the pool of connections it draws on            *)
(* (packages/db getDb).                                                    *)
(*                                                                         *)
(* The whole request runs inside one transaction: it takes a connection,   *)
(* locks the row of the bucket IF THERE IS ONE, runs the handler, and      *)
(* counts the outcome.  The handler does not get that transaction: it asks *)
(* the same pool for connections of its own, one at a time.  The clock is  *)
(* read when the request arrives, before it waits for anything.            *)
(***************************************************************************)
EXTENDS Naturals, FiniteSets

CONSTANTS
  Requests,      \* requests with this bucket key
  Pool,          \* connections in the pool (max: 10)
  MaxAttempts,   \* cfg.maxAttempts
  Window,        \* cfg.windowSeconds
  Lockout,       \* cfg.lockoutSeconds
  MaxTime,       \* bound: the clock stops there
  NoRow,         \* the bucket has no row
  NoOne          \* nobody holds the row lock

ASSUME RateLimitAssumption ==
  /\ MaxAttempts \in Nat \ {0} /\ Window \in Nat /\ Lockout \in Nat \ {0}
  /\ Pool \in Nat /\ MaxTime \in Nat
  /\ NoOne \notin Requests

VARIABLES
  clock,      \* systemClock.nowMs()
  row,        \* the row of rate_limit_buckets
  holder,     \* the request that holds its lock
  pc,         \* where each request is
  now,        \* the time it read
  seen,       \* the row it read (const bucket)
  outcome,    \* what its handler answered
  failures    \* history: failures recorded since the last recorded success

vars == <<clock, row, holder, pc, now, seen, outcome, failures>>

Rows     == [attempts : Nat \ {0}, start : Nat, until : Nat]   \* until = 0: NULL

ASSUME NoRowAssumption == NoRow \notin Rows

Outcomes == {"none", "ok", "fail", "throw"}
Steps    == {"idle", "connect", "select", "handler", "query", "record", "end"}

(* One connection for the transaction, a second one for the handler.       *)
HoldsOne == {"select", "handler", "query", "record"}
InUse    == Cardinality({r \in Requests : pc[r] \in HoldsOne})
            + Cardinality({r \in Requests : pc[r] = "query"})

Init ==
  /\ clock = 1
  /\ row = NoRow
  /\ holder = NoOne
  /\ pc = [r \in Requests |-> "idle"]
  /\ now = [r \in Requests |-> 0]
  /\ seen = [r \in Requests |-> NoRow]
  /\ outcome = [r \in Requests |-> "none"]
  /\ failures = 0

GoTo(r, step) == pc' = [pc EXCEPT ![r] = step]

Tick ==
  /\ clock < MaxTime
  /\ clock' = clock + 1
  /\ UNCHANGED <<row, holder, pc, now, seen, outcome, failures>>

-----------------------------------------------------------------------------
(* now = systemClock.nowMs().  A malformed body is bound to fail.          *)
Arrive(r, malformed) ==
  /\ pc[r] = "idle"
  /\ now' = [now EXCEPT ![r] = clock]
  /\ outcome' = [outcome EXCEPT ![r] = IF malformed THEN "fail" ELSE "none"]
  /\ GoTo(r, "connect")
  /\ UNCHANGED <<clock, row, holder, seen, failures>>

(* dbClient.tx takes a connection.                                         *)
Connect(r) ==
  /\ pc[r] = "connect"
  /\ InUse < Pool
  /\ GoTo(r, "select")
  /\ UNCHANGED <<clock, row, holder, now, seen, outcome, failures>>

Locked(bucket, t) == bucket # NoRow /\ bucket.until > t

(* Mutant: SELECT without FOR UPDATE.                                      *)
SelectUnlocked(r) ==
  /\ pc[r] = "select"
  /\ seen' = [seen EXCEPT ![r] = row]
  /\ GoTo(r, IF Locked(row, now[r]) THEN "end" ELSE "handler")
  /\ UNCHANGED <<clock, row, holder, now, outcome, failures>>

(* Mutant: the lock is not looked at.                                      *)
SelectIgnoringLockout(r) ==
  /\ pc[r] = "select"
  /\ row = NoRow \/ holder = NoOne
  /\ seen' = [seen EXCEPT ![r] = row]
  /\ GoTo(r, "handler")
  /\ holder' = IF row = NoRow THEN holder ELSE r
  /\ UNCHANGED <<clock, row, now, outcome, failures>>

(* SELECT ... FOR UPDATE waits for the lock of the row, and takes it; with *)
(* no row there is nothing to lock.  A locked-out request is answered 429  *)
(* at once, which ends its transaction.                                    *)
Select(r) ==
  /\ pc[r] = "select"
  /\ row = NoRow \/ holder = NoOne
  /\ seen' = [seen EXCEPT ![r] = row]
  /\ IF Locked(row, now[r])
       THEN GoTo(r, "end") /\ UNCHANGED holder
       ELSE GoTo(r, "handler") /\ holder' = IF row = NoRow THEN holder ELSE r
  /\ UNCHANGED <<clock, row, now, outcome, failures>>

(* The handler refuses a malformed body before it needs the database: 400. *)
Reject(r) ==
  /\ pc[r] = "handler" /\ outcome[r] = "fail"
  /\ GoTo(r, "record")
  /\ UNCHANGED <<clock, row, holder, now, seen, outcome, failures>>

(* Its first query takes a second connection.                              *)
Query(r) ==
  /\ pc[r] = "handler" /\ outcome[r] = "none"
  /\ InUse < Pool
  /\ GoTo(r, "query")
  /\ UNCHANGED <<clock, row, holder, now, seen, outcome, failures>>

(* It answers, or throws what is not an AppError.                          *)
Answer(r, o) ==
  /\ pc[r] = "query"
  /\ outcome' = [outcome EXCEPT ![r] = o]
  /\ GoTo(r, "record")
  /\ UNCHANGED <<clock, row, holder, now, seen, failures>>

-----------------------------------------------------------------------------
(* Counting the outcome; each ends the transaction and frees its lock.     *)

MayWrite(r) == holder \in {NoOne, r}
Release(r)  == holder' = IF holder = r THEN NoOne ELSE holder

WindowExpired(r) ==
  seen[r] = NoRow \/ now[r] > seen[r].start + Window

NextAttempts(r) == IF WindowExpired(r) THEN 1 ELSE seen[r].attempts + 1

(* Mutant: one attempt too early.                                          *)
LockedUntilTooEarly(r) ==
  IF NextAttempts(r) + 1 >= MaxAttempts THEN now[r] + Lockout ELSE 0

LockedUntil(r) ==
  IF NextAttempts(r) >= MaxAttempts THEN now[r] + Lockout ELSE 0

(* Mutant: the window is reset to no attempt instead of one.               *)
RecordFailureFromZero(r) ==
  LET fresh == [attempts |-> 0, start |-> now[r], until |-> LockedUntil(r)]
  IN
  /\ pc[r] = "record" /\ outcome[r] = "fail"
  /\ MayWrite(r)
  /\ row' = IF row = NoRow \/ WindowExpired(r)
              THEN fresh
              ELSE [row EXCEPT !.attempts = @ + 1, !.until = LockedUntil(r)]
  /\ failures' = failures + 1
  /\ Release(r)
  /\ GoTo(r, "end")
  /\ UNCHANGED <<clock, now, seen, outcome>>

(* INSERT ... ON CONFLICT DO UPDATE: the attempts of the row as it is now, *)
(* the window and the lockout from the row as it was read.                 *)
RecordFailure(r) ==
  LET fresh == [attempts |-> 1, start |-> now[r], until |-> LockedUntil(r)]
  IN
  /\ pc[r] = "record" /\ outcome[r] = "fail"
  /\ MayWrite(r)
  /\ row' = IF row = NoRow \/ WindowExpired(r)
              THEN fresh
              ELSE [row EXCEPT !.attempts = @ + 1, !.until = LockedUntil(r)]
  /\ failures' = failures + 1
  /\ Release(r)
  /\ GoTo(r, "end")
  /\ UNCHANGED <<clock, now, seen, outcome>>

(* DELETE.                                                                 *)
RecordSuccess(r) ==
  /\ pc[r] = "record" /\ outcome[r] = "ok"
  /\ MayWrite(r)
  /\ row' = NoRow
  /\ failures' = 0
  /\ Release(r)
  /\ GoTo(r, "end")
  /\ UNCHANGED <<clock, now, seen, outcome>>

(* Mutant: the connection goes back to the pool without ROLLBACK.          *)
AbandonTransaction(r) ==
  /\ pc[r] = "record" /\ outcome[r] = "throw"
  /\ GoTo(r, "end")
  /\ UNCHANGED <<clock, row, holder, now, seen, outcome, failures>>

(* An exception rolls the transaction back: the failure is not counted.    *)
Rollback(r) ==
  /\ pc[r] = "record" /\ outcome[r] = "throw"
  /\ Release(r)
  /\ GoTo(r, "end")
  /\ UNCHANGED <<clock, row, now, seen, outcome, failures>>

-----------------------------------------------------------------------------
Step(r) ==
  \/ Connect(r)
  \/ Select(r)
  \/ Reject(r)
  \/ Query(r)
  \/ \E o \in Outcomes \ {"none"} : Answer(r, o)
  \/ RecordFailure(r)
  \/ RecordSuccess(r)
  \/ Rollback(r)

Next == Tick \/ \E r \in Requests : Step(r) \/ \E malformed \in BOOLEAN : Arrive(r, malformed)

Spec == Init /\ [][Next]_vars

(* A request that has arrived goes on: the driver hands it a connection    *)
(* when one is free, the database a lock when it is released, and the      *)
(* handler answers.                                                        *)
FairSpec == Spec /\ \A r \in Requests : WF_vars(Step(r))

-----------------------------------------------------------------------------
(* Types: a row has at least one attempt.                                  *)
TypeOK ==
  /\ clock \in Nat
  /\ row \in Rows \cup {NoRow}
  /\ holder \in Requests \cup {NoOne}
  /\ pc \in [Requests -> Steps]
  /\ now \in [Requests -> Nat]
  /\ seen \in [Requests -> Rows \cup {NoRow}]
  /\ outcome \in [Requests -> Outcomes]
  /\ failures \in Nat

(* Nobody is locked out early: the row never counts more attempts than     *)
(* failures were recorded since the last success, and a lockout needs      *)
(* MaxAttempts of them.                                                    *)
NoEarlyLockout ==
  row # NoRow =>
    /\ row.attempts <= failures
    /\ row.until # 0 => failures >= MaxAttempts

(* What a request has read of a row is still the row when it counts its    *)
(* outcome, and only one request at a time is past the check of a row.     *)
CountsTheRowItRead ==
  \A r \in Requests :
    pc[r] \in {"handler", "query", "record"} /\ seen[r] # NoRow =>
      seen[r] = row /\ holder = r

(* A lockout in force is not lifted or shortened before its time ...       *)
LockoutStays ==
  Locked(row, clock) => row' # NoRow /\ row'.until >= row.until

LockoutHolds == [][LockoutStays]_vars

(* ... as long as every request under way found a row.  (One that found    *)
(* none holds no lock, and counts as the first failure.)                   *)
NobodyFoundNoRow ==
  \A r \in Requests : pc[r] \in {"handler", "query", "record"} => seen[r] # NoRow

LockoutHoldsOnceSeen == [][NobodyFoundNoRow => LockoutStays]_vars

(* Every request is answered, although each may need two connections and   *)
(* keeps the first while it waits for the row and for the second.          *)
RequestsAreAnswered == \A r \in Requests : pc[r] = "connect" ~> pc[r] = "end"
=============================================================================
