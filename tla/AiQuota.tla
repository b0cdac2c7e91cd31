------------------------------ MODULE AiQuota -------------------------------
(***************************************************************************)
(* The AI usage ledger of one workspace: AiQuotaService over the functions *)
(* reserve_ai_usage, complete_ai_usage and refund_ai_usage of migration    *)
(* 0139.                                                                   *)
(*                                                                         *)
(* A call of reserve is one statement and so one transaction, but the      *)
(* function runs several: it looks the idempotency key up, locks the row   *)
(* of the workspace, adds the usage of the month up, and inserts.  Other   *)
(* calls run in between; each statement sees what is committed when it     *)
(* starts, while now(), and with it the month, is fixed at the beginning.  *)
(* complete and refund are single UPDATEs and take no lock of the          *)
(* workspace.                                                              *)
(***************************************************************************)
EXTENDS Naturals, FiniteSetsExt

CONSTANTS
  Calls,       \* calls of reserve; each brings the id of its event (newUlid)
  Keys,        \* idempotency keys
  Limit,       \* workspaces.monthly_ai_token_limit
  MaxTokens,   \* bound: tokens reserved by one call
  MaxUsed,     \* bound: tokens used by one event
  MaxMonth,    \* bound: months
  NoOne,       \* nobody locks the row of the workspace, or no answer
  NoKey        \* the key of an event that does not exist

ASSUME AiQuotaAssumption ==
  /\ Limit \in Nat \ {0} /\ MaxTokens \in Nat /\ MaxUsed \in Nat /\ MaxMonth \in Nat
  /\ NoOne \notin Calls /\ NoKey \notin Keys

VARIABLES
  month,     \* date_trunc('month', now())
  call,      \* the calls of reserve
  event,     \* ai_usage_events, by id
  lock,      \* who has the row of the workspace FOR UPDATE
  answer     \* the event a call returned

vars == <<month, call, event, lock, answer>>

Statuses == {"absent", "reserved", "completed", "refunded"}
Steps    == {"idle", "lookup", "lock", "sum", "insert", "answered", "refused"}
Ended    == {"answered", "refused"}

Call  == [pc : Steps, key : Keys \cup {NoKey}, tokens : Nat, month : Nat]
Event == [status : Statuses, key : Keys \cup {NoKey}, reserved : Nat, used : Nat, month : Nat]

Existing == {e \in Calls : event[e].status # "absent"}
WithKey(k) == {e \in Existing : event[e].key = k}

Init ==
  /\ month = 1
  /\ call = [c \in Calls |-> [pc |-> "idle", key |-> NoKey, tokens |-> 0, month |-> 0]]
  /\ event = [c \in Calls |-> [status |-> "absent", key |-> NoKey, reserved |-> 0,
                               used |-> 0, month |-> 0]]
  /\ lock = NoOne
  /\ answer = [c \in Calls |-> NoOne]

NextMonth ==
  /\ month < MaxMonth
  /\ month' = month + 1
  /\ UNCHANGED <<call, event, lock, answer>>

GoTo(c, step) == call' = [call EXCEPT ![c].pc = step]
Unlock(c)     == lock' = IF lock = c THEN NoOne ELSE lock

-----------------------------------------------------------------------------
(* AiQuotaService.reserve.                                                 *)
Reserve(c, k, t) ==
  /\ call[c].pc = "idle"
  /\ call' = [call EXCEPT ![c] = [pc |-> "lookup", key |-> k, tokens |-> t, month |-> month]]
  /\ UNCHANGED <<month, event, lock, answer>>

(* The event of a key that is already there is returned as it is.          *)
Lookup(c) ==
  /\ call[c].pc = "lookup"
  /\ IF WithKey(call[c].key) # {}
       THEN /\ \E e \in WithKey(call[c].key) : answer' = [answer EXCEPT ![c] = e]
            /\ GoTo(c, "answered")
       ELSE GoTo(c, "lock") /\ UNCHANGED answer
  /\ UNCHANGED <<month, event, lock>>

(* Mutant: the limit is read without FOR UPDATE.                           *)
ReadLimitUnlocked(c) ==
  /\ call[c].pc = "lock"
  /\ GoTo(c, "sum")
  /\ UNCHANGED <<month, event, lock, answer>>

(* SELECT monthly_ai_token_limit ... FOR UPDATE.                           *)
LockWorkspace(c) ==
  /\ call[c].pc = "lock"
  /\ lock = NoOne
  /\ lock' = c
  /\ GoTo(c, "sum")
  /\ UNCHANGED <<month, event, answer>>

Charge(e) == CASE event[e].status = "completed" -> event[e].used
               [] event[e].status = "reserved"  -> event[e].reserved
               [] OTHER                         -> 0

UsageSince(m) == MapThenSumSet(Charge, {e \in Calls : event[e].month >= m})

(* Mutant: the refusal leaves the transaction open.                        *)
CheckLimitLeavingOpen(c) ==
  /\ call[c].pc = "sum"
  /\ IF UsageSince(call[c].month) + call[c].tokens > Limit
       THEN GoTo(c, "refused")
       ELSE GoTo(c, "insert")
  /\ UNCHANGED <<month, event, lock, answer>>

(* The SUM over the month, and AI_QUOTA_EXCEEDED, which rolls back.        *)
CheckLimit(c) ==
  /\ call[c].pc = "sum"
  /\ IF UsageSince(call[c].month) + call[c].tokens > Limit
       THEN GoTo(c, "refused") /\ Unlock(c)
       ELSE GoTo(c, "insert") /\ UNCHANGED lock
  /\ UNCHANGED <<month, event, answer>>

(* Mutant: the key of the call is not stored with the event.               *)
InsertWithoutKey(c) ==
  /\ call[c].pc = "insert"
  /\ event' = [event EXCEPT ![c] = [status |-> "reserved", key |-> NoKey,
                                    reserved |-> call[c].tokens, used |-> 0,
                                    month |-> call[c].month]]
  /\ answer' = [answer EXCEPT ![c] = c]
  /\ GoTo(c, "answered")
  /\ Unlock(c)
  /\ UNCHANGED month

(* Mutant: created_at is the time of the INSERT and not of the call.       *)
InsertInPresentMonth(c) ==
  /\ call[c].pc = "insert" /\ WithKey(call[c].key) = {}
  /\ event' = [event EXCEPT ![c] = [status |-> "reserved", key |-> call[c].key,
                                    reserved |-> call[c].tokens, used |-> 0, month |-> month]]
  /\ answer' = [answer EXCEPT ![c] = c]
  /\ GoTo(c, "answered")
  /\ Unlock(c)
  /\ UNCHANGED month

(* Mutant: no unique constraint on the key.                                *)
InsertAnyKey(c) ==
  /\ call[c].pc = "insert"
  /\ event' = [event EXCEPT ![c] = [status |-> "reserved", key |-> call[c].key,
                                    reserved |-> call[c].tokens, used |-> 0,
                                    month |-> call[c].month]]
  /\ answer' = [answer EXCEPT ![c] = c]
  /\ GoTo(c, "answered")
  /\ Unlock(c)
  /\ UNCHANGED month

(* INSERT: uq_ai_usage_idem refuses a key that has appeared since the      *)
(* lookup.  created_at is now(), the month the call began in.              *)
Insert(c) ==
  /\ call[c].pc = "insert"
  /\ IF WithKey(call[c].key) # {}
       THEN GoTo(c, "refused") /\ UNCHANGED <<event, answer>>
       ELSE /\ event' = [event EXCEPT ![c] = [status |-> "reserved", key |-> call[c].key,
                                              reserved |-> call[c].tokens, used |-> 0,
                                              month |-> call[c].month]]
            /\ answer' = [answer EXCEPT ![c] = c]
            /\ GoTo(c, "answered")
  /\ Unlock(c)
  /\ UNCHANGED month

(* The connection of a call is lost: its transaction is rolled back.       *)
Lose(c) ==
  /\ call[c].pc \notin Ended \cup {"idle"}
  /\ GoTo(c, "refused")
  /\ Unlock(c)
  /\ UNCHANGED <<month, event, answer>>

-----------------------------------------------------------------------------
(* complete_ai_usage: any number of tokens, more than reserved included.   *)
Complete(e, u) ==
  /\ event[e].status = "reserved"
  /\ event' = [event EXCEPT ![e].status = "completed", ![e].used = u]
  /\ UNCHANGED <<month, call, lock, answer>>

(* refund_ai_usage.                                                        *)
Refund(e) ==
  /\ event[e].status \in {"reserved", "completed"}
  /\ event' = [event EXCEPT ![e].status = "refunded", ![e].reserved = 0, ![e].used = 0]
  /\ UNCHANGED <<month, call, lock, answer>>

-----------------------------------------------------------------------------
Step(c) ==
  \/ Lookup(c)
  \/ LockWorkspace(c)
  \/ CheckLimit(c)
  \/ Insert(c)

Next ==
  \/ NextMonth
  \/ \E c \in Calls :
       \/ \E k \in Keys, t \in 1..MaxTokens : Reserve(c, k, t)
       \/ Step(c)
       \/ Lose(c)
       \/ \E u \in 0..MaxUsed : Complete(c, u)
       \/ Refund(c)

Spec == Init /\ [][Next]_vars

(* The database executes the statements of a call that has begun.          *)
FairSpec == Spec /\ \A c \in Calls : WF_vars(Step(c))

-----------------------------------------------------------------------------
(* Types; a call under way and an event that exists have a key.            *)
TypeOK ==
  /\ month \in Nat
  /\ call \in [Calls -> Call]
  /\ event \in [Calls -> Event]
  /\ lock \in Calls \cup {NoOne}
  /\ answer \in [Calls -> Calls \cup {NoOne}]
  /\ \A c \in Calls : call[c].pc # "idle" => call[c].key \in Keys
  /\ \A e \in Existing : event[e].key \in Keys

(* What was granted never exceeds the limit of its month: counting each    *)
(* event at what it reserved at most, since what complete records beyond   *)
(* the reservation was never checked.                                      *)
Granted(e) ==
  CASE event[e].status = "completed" ->
         IF event[e].used < event[e].reserved THEN event[e].used ELSE event[e].reserved
    [] event[e].status = "reserved"  -> event[e].reserved
    [] OTHER                         -> 0

WithinLimit ==
  \A m \in 1..month :
    MapThenSumSet(Granted, {e \in Calls : event[e].month = m}) <= Limit

(* The ledger has one event per key, and calls with one key that are       *)
(* answered are answered with that same event, however they race.          *)
OneEventPerKey ==
  /\ \A e, f \in Existing : event[e].key = event[f].key => e = f
  /\ \A c \in Calls :
       answer[c] # NoOne => answer[c] \in Existing /\ event[answer[c]].key = call[c].key

(* An event is settled once: reserved, then completed or refunded; only a  *)
(* refund changes a completed one, and nothing a refunded one.             *)
SettledOnce ==
  [][\A e \in Calls :
       /\ event[e].status = "completed" => event'[e] = event[e] \/ event'[e].status = "refunded"
       /\ event[e].status = "refunded"  => event'[e] = event[e]
       /\ event[e].status = "reserved"  => event'[e].status # "absent"]_vars

(* reserve is atomic to its callers: its four statements, with everything  *)
(* that runs between them, amount to one step of the ledger it promises,   *)
(* and a settlement never takes tokens that were not granted.              *)
Asked == [c \in Calls |-> [key |-> call[c].key, tokens |-> call[c].tokens, month |-> call[c].month]]

Grants == [e \in Calls |-> [status |-> event[e].status, key |-> event[e].key,
                            tokens |-> Granted(e), month |-> event[e].month]]

Ledger == INSTANCE TokenLedger
          WITH asked <- Asked, grant <- Grants, receipt <- answer,
               Amounts <- 1..MaxTokens, Nobody <- NoOne

LedgerIsKept == Ledger!Spec

(* Every call ends: the row of the workspace is always handed on.          *)
CallsEnd == \A c \in Calls : call[c].pc = "lookup" ~> call[c].pc \in Ended

(* A key that is already reserved is answered, not refused: of two calls   *)
(* with one key, the second gets the event of the first (tests/unit        *)
(* ai-quota-idempotency).                                                  *)
InsertMeetsNoOtherKey ==
  \A c \in Calls : call[c].pc = "insert" => WithKey(call[c].key) = {}
=============================================================================
