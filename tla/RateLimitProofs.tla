-------------------------- MODULE RateLimitProofs ---------------------------
(***************************************************************************)
(* Proofs about RateLimit, for any number of requests and connections and  *)
(* any limits.                                                             *)
(***************************************************************************)
EXTENDS RateLimit, TLAPS

PastTheCheck == {"handler", "query", "record"}

(* The lock belongs to a request that is past the check of a row.          *)
HolderIsPastTheCheck ==
  holder # NoOne => pc[holder] \in PastTheCheck /\ seen[holder] # NoRow

(* It was not locked out at the time it read, which has passed.            *)
AdmittedInTime ==
  \A r \in Requests :
    /\ now[r] <= clock
    /\ pc[r] \in PastTheCheck => ~Locked(seen[r], now[r])

LimitInvariant ==
  /\ TypeOK
  /\ HolderIsPastTheCheck
  /\ CountsTheRowItRead
  /\ AdmittedInTime
  /\ NoEarlyLockout

-----------------------------------------------------------------------------
(* The row a failure leaves behind.                                        *)
LEMMA FailureRow ==
  ASSUME LimitInvariant, NEW r \in Requests, RecordFailure(r)
  PROVE  /\ row' \in Rows
         /\ row'.attempts <= failures'
         /\ row'.until # 0 => failures' >= MaxAttempts
         /\ failures' = failures + 1 /\ failures \in Nat
<1> USE RateLimitAssumption, NoRowAssumption DEF LimitInvariant
<1>1. /\ now[r] \in Nat /\ failures \in Nat /\ failures' = failures + 1
      /\ row \in Rows \cup {NoRow} /\ seen[r] \in Rows \cup {NoRow}
  BY DEF TypeOK, RecordFailure
<1>2. LockedUntil(r) \in Nat /\ (LockedUntil(r) # 0 => NextAttempts(r) >= MaxAttempts)
  BY <1>1 DEF LockedUntil
<1>3. CASE row = NoRow \/ WindowExpired(r)
  <2>1. row' = [attempts |-> 1, start |-> now[r], until |-> LockedUntil(r)]
    BY <1>3 DEF RecordFailure
  <2>2. NextAttempts(r) = 1
    <3>1. CASE WindowExpired(r)
      BY <3>1 DEF NextAttempts
    <3>2. CASE row = NoRow
      <4>1. seen[r] = NoRow
        BY <3>2 DEF CountsTheRowItRead, RecordFailure
      <4> QED BY <4>1 DEF NextAttempts, WindowExpired
    <3> QED BY <1>3, <3>1, <3>2
  <2> QED BY <1>1, <1>2, <2>1, <2>2 DEF Rows
<1>4. CASE row # NoRow /\ ~WindowExpired(r)
  <2>1. row' = [row EXCEPT !.attempts = @ + 1, !.until = LockedUntil(r)]
    BY <1>4 DEF RecordFailure
  <2>2. seen[r] = row /\ row \in Rows
    BY <1>1, <1>4 DEF RecordFailure, CountsTheRowItRead, WindowExpired
  <2>3. NextAttempts(r) = row.attempts + 1 /\ row.attempts \in Nat \ {0}
    BY <1>4, <2>2 DEF NextAttempts, Rows
  <2>4. row.attempts <= failures
    BY <1>4 DEF NoEarlyLockout
  <2>5. row' = [attempts |-> row.attempts + 1, start |-> row.start, until |-> LockedUntil(r)]
    BY <2>1, <2>2 DEF Rows
  <2>6. row' \in Rows
    BY <1>2, <2>2, <2>3, <2>5 DEF Rows
  <2> QED BY <1>1, <1>2, <2>3, <2>4, <2>5, <2>6
<1> QED BY <1>3, <1>4

LEMMA InvariantStep ==
  ASSUME LimitInvariant, [Next]_vars
  PROVE  LimitInvariant'
<1> USE RateLimitAssumption, NoRowAssumption DEF LimitInvariant
<1>t. /\ pc \in [Requests -> Steps] /\ now \in [Requests -> Nat] /\ clock \in Nat
      /\ seen \in [Requests -> Rows \cup {NoRow}] /\ outcome \in [Requests -> Outcomes]
  BY DEF TypeOK
<1>s. /\ {"connect", "select", "handler", "query", "record", "end"} \subseteq Steps
      /\ {"none", "fail"} \subseteq Outcomes
  BY DEF Steps, Outcomes
<1>1. ASSUME Tick PROVE LimitInvariant'
  BY <1>1, <1>t DEF Tick, TypeOK, HolderIsPastTheCheck, CountsTheRowItRead, AdmittedInTime,
                    NoEarlyLockout
<1>2. ASSUME NEW r \in Requests, NEW malformed \in BOOLEAN, Arrive(r, malformed)
      PROVE  LimitInvariant'
  <2>1. TypeOK'
    BY <1>2, <1>s DEF Arrive, GoTo, TypeOK
  <2>2. HolderIsPastTheCheck' /\ CountsTheRowItRead' /\ AdmittedInTime' /\ NoEarlyLockout'
    BY <1>2, <1>t DEF Arrive, GoTo, HolderIsPastTheCheck, CountsTheRowItRead, AdmittedInTime,
                      NoEarlyLockout, PastTheCheck
  <2> QED BY <2>1, <2>2
<1>3. ASSUME NEW r \in Requests, Connect(r) \/ Reject(r) \/ Query(r)
             \/ \E o \in Outcomes \ {"none"} : Answer(r, o)
      PROVE  LimitInvariant'
  <2>1. TypeOK'
    BY <1>3, <1>s DEF Connect, Reject, Query, Answer, GoTo, TypeOK
  <2>2. /\ UNCHANGED <<clock, row, holder, now, seen, failures>>
        /\ \A q \in Requests : pc'[q] \in PastTheCheck <=> pc[q] \in PastTheCheck
    BY <1>3, <1>t DEF Connect, Reject, Query, Answer, GoTo, PastTheCheck
  <2>3. holder # NoOne => holder \in Requests
    BY DEF TypeOK
  <2>4. HolderIsPastTheCheck' /\ CountsTheRowItRead' /\ AdmittedInTime' /\ NoEarlyLockout'
    BY <2>2, <2>3 DEF HolderIsPastTheCheck, CountsTheRowItRead, AdmittedInTime,
                      NoEarlyLockout, PastTheCheck
  <2> QED BY <2>1, <2>4
<1>4. ASSUME NEW r \in Requests, Select(r)
      PROVE  LimitInvariant'
  <2>1. seen' = [seen EXCEPT ![r] = row] /\ UNCHANGED <<clock, row, now, outcome, failures>>
    BY <1>4 DEF Select
  <2>2. seen' \in [Requests -> Rows \cup {NoRow}]
    BY <1>t, <2>1 DEF TypeOK
  <2>3. CASE Locked(row, now[r])
    <3>1. pc' = [pc EXCEPT ![r] = "end"] /\ UNCHANGED holder
      BY <1>4, <2>3 DEF Select, GoTo
    <3>2. TypeOK'
      BY <1>s, <2>1, <2>2, <3>1 DEF TypeOK
    <3>3. holder # r
      BY <1>4 DEF Select, HolderIsPastTheCheck, PastTheCheck
    <3>4. HolderIsPastTheCheck' /\ CountsTheRowItRead' /\ AdmittedInTime' /\ NoEarlyLockout'
      BY <1>t, <2>1, <3>1, <3>3 DEF HolderIsPastTheCheck, CountsTheRowItRead, AdmittedInTime,
                        NoEarlyLockout, PastTheCheck, TypeOK
    <3> QED BY <3>2, <3>4
  <2>4. CASE ~Locked(row, now[r])
    <3>1. /\ pc' = [pc EXCEPT ![r] = "handler"]
          /\ holder' = IF row = NoRow THEN holder ELSE r
          /\ row = NoRow \/ holder = NoOne
      BY <1>4, <2>4 DEF Select, GoTo
    <3>2. TypeOK'
      BY <1>s, <2>1, <2>2, <3>1 DEF TypeOK
    <3>3. row = NoRow => holder = NoOne
      BY DEF HolderIsPastTheCheck, CountsTheRowItRead, TypeOK, PastTheCheck
    <3>4. HolderIsPastTheCheck'
      BY <1>t, <2>1, <3>1, <3>3 DEF HolderIsPastTheCheck, PastTheCheck
    <3>5. CountsTheRowItRead'
      BY <1>t, <2>1, <3>1, <3>3 DEF CountsTheRowItRead
    <3>6. AdmittedInTime' /\ NoEarlyLockout'
      BY <1>t, <2>1, <2>4, <3>1 DEF AdmittedInTime, NoEarlyLockout, Locked
    <3> QED BY <3>2, <3>4, <3>5, <3>6
  <2> QED BY <2>3, <2>4
<1>5. ASSUME NEW r \in Requests, RecordFailure(r) \/ RecordSuccess(r) \/ Rollback(r)
      PROVE  LimitInvariant'
  <2>1. /\ pc' = [pc EXCEPT ![r] = "end"] /\ UNCHANGED <<clock, now, seen, outcome>>
        /\ holder' = IF holder = r THEN NoOne ELSE holder
        /\ pc[r] = "record"
    BY <1>5 DEF RecordFailure, RecordSuccess, Rollback, GoTo, Release
  <2>2. row' \in Rows \cup {NoRow} /\ failures' \in Nat /\ NoEarlyLockout'
    <3>1. CASE RecordFailure(r)
      BY <3>1, FailureRow DEF NoEarlyLockout
    <3>2. CASE RecordSuccess(r) \/ Rollback(r)
      BY <3>2 DEF RecordSuccess, Rollback, NoEarlyLockout, TypeOK
    <3> QED BY <1>5, <3>1, <3>2
  <2>3. TypeOK'
    BY <1>s, <2>1, <2>2 DEF TypeOK
  <2>4. HolderIsPastTheCheck'
    BY <1>t, <2>1 DEF HolderIsPastTheCheck, TypeOK
  <2>5. CountsTheRowItRead'
    <3> SUFFICES ASSUME NEW q \in Requests, pc'[q] \in PastTheCheck, seen'[q] # NoRow
                 PROVE  seen'[q] = row' /\ holder' = q
      BY DEF CountsTheRowItRead, PastTheCheck
    <3>1. q # r /\ pc[q] \in PastTheCheck /\ seen[q] = seen'[q]
      BY <1>t, <2>1 DEF PastTheCheck
    <3>2. seen[q] = row /\ holder = q
      BY <2>1, <3>1 DEF CountsTheRowItRead, PastTheCheck
    <3>3. UNCHANGED row
      BY <1>5, <3>1, <3>2 DEF RecordFailure, RecordSuccess, Rollback, MayWrite
    <3> QED BY <2>1, <3>1, <3>2, <3>3
  <2>6. AdmittedInTime'
    BY <1>t, <2>1 DEF AdmittedInTime, PastTheCheck
  <2> QED BY <2>2, <2>3, <2>4, <2>5, <2>6
<1>6. ASSUME UNCHANGED vars PROVE LimitInvariant'
  BY <1>6 DEF vars, TypeOK, HolderIsPastTheCheck, CountsTheRowItRead, AdmittedInTime,
              NoEarlyLockout
<1> QED
  BY <1>1, <1>2, <1>3, <1>4, <1>5, <1>6 DEF Next, Step

LEMMA LimitInvariantHolds == Spec => []LimitInvariant
<1>1. Init => LimitInvariant
  BY RateLimitAssumption, NoRowAssumption
  DEF Init, LimitInvariant, TypeOK, HolderIsPastTheCheck, CountsTheRowItRead, AdmittedInTime,
      NoEarlyLockout, Steps, Outcomes, PastTheCheck
<1>2. LimitInvariant /\ [Next]_vars => LimitInvariant'
  BY InvariantStep
<1> QED BY <1>1, <1>2, PTL DEF Spec

(* Every variable of RateLimit keeps its type.                             *)
THEOREM LimitTypeCorrect == Spec => []TypeOK
<1>1. LimitInvariant => TypeOK
  BY DEF LimitInvariant
<1> QED BY <1>1, LimitInvariantHolds, PTL

(* Nobody is locked out before MaxAttempts failures since a success.       *)
THEOREM LockoutIsEarned == Spec => []NoEarlyLockout
<1>1. LimitInvariant => NoEarlyLockout
  BY DEF LimitInvariant
<1> QED BY <1>1, LimitInvariantHolds, PTL

(* A request counts the very row it checked.                               *)
THEOREM NoLostCount == Spec => []CountsTheRowItRead
<1>1. LimitInvariant => CountsTheRowItRead
  BY DEF LimitInvariant
<1> QED BY <1>1, LimitInvariantHolds, PTL

(* Once every request under way has found a row, a lockout is kept until   *)
(* its time.                                                               *)
THEOREM LockoutKept == Spec => LockoutHoldsOnceSeen
<1>1. LimitInvariant /\ [Next]_vars => [NobodyFoundNoRow => LockoutStays]_vars
  <2> SUFFICES ASSUME LimitInvariant, Next, NobodyFoundNoRow, Locked(row, clock)
               PROVE  row' # NoRow /\ row'.until >= row.until
    BY DEF LockoutStays
  <2>1. row \in Rows /\ row.until \in Nat /\ row.until > clock /\ clock \in Nat
    BY DEF LimitInvariant, TypeOK, Locked, Rows
  <2>2. ASSUME NEW r \in Requests, RecordFailure(r) \/ RecordSuccess(r)
        PROVE  FALSE
    <3>1. pc[r] = "record"
      BY <2>2 DEF RecordFailure, RecordSuccess
    <3>2. seen[r] # NoRow
      BY <3>1 DEF NobodyFoundNoRow
    <3>3. seen[r] = row
      BY <3>1, <3>2 DEF LimitInvariant, CountsTheRowItRead
    <3>4. now[r] \in Nat /\ now[r] <= clock /\ ~Locked(row, now[r])
      BY <3>1, <3>3 DEF LimitInvariant, AdmittedInTime, PastTheCheck, TypeOK
    <3> QED BY <2>1, <3>2, <3>3, <3>4 DEF Locked
  <2>3. UNCHANGED row
    BY <2>2 DEF Next, Step, Tick, Arrive, Connect, Select, Reject, Query, Answer, Rollback
  <2> QED BY <2>1, <2>3, NoRowAssumption
<1> QED
  BY <1>1, LimitInvariantHolds, PTL DEF Spec, LockoutHoldsOnceSeen
=============================================================================
